--------------------------- MODULE VitalsProofs ----------------------------
(***************************************************************************)
(* For any number of players, creatures and pieces and any health and      *)
(* timers: a corpse has no health, a tick leaves state and health in       *)
(* agreement, and whoever comes back comes back whole.                     *)
(*                                                                         *)
(* The first invariant is about one row at a time: each operation on a row *)
(* maps a sound row to a sound one, and every action writes rows obtained  *)
(* by composing those operations.                                          *)
(*                                                                         *)
(* The second is about the goods: who carries and which bag holds what.    *)
(* No two hold one piece, and nobody carries more than fits; it is kept by *)
(* the two ways goods move, a take out of a bag and a drop into a fresh    *)
(* one, and by the crumbling of a bag.                                     *)
(*                                                                         *)
(* The third, MoneySound, is about bags and gold: every bag holds          *)
(* something and the gold is within the bound.  Bags that lie about and    *)
(* corpses that drop are then never more than there are ids, pieces and    *)
(* gold being counted against them, so BagsAfter gives each corpse a free  *)
(* bag of its own; what is dropped is neither lost nor paid twice.         *)
(***************************************************************************)
EXTENDS Vitals, FiniteSetTheorems, WellFoundedInduction, TLAPS

SoundRow == {v \in EntityRow : v.state = "Dead" => v.health = 0}

RowsSound == vitals \in [Entities -> SoundRow]

-----------------------------------------------------------------------------
(* What each operation does to a row.                                      *)

LEMMA Bounds ==
    /\ MaxHealth \in Nat \ {0} /\ StatusTicks \in Nat /\ RespawnTicks \in Nat \ {0, 1}
    /\ Players \cap Creatures = {}
  BY VitalsAssumption

Timer == 0..StatusTicks
Pace == {"full", "halved"}

(* A row with the fields that statuses and timers write.                   *)
With(v, slow, burn, mend, speed) ==
    [v EXCEPT !.slow = slow, !.burn = burn, !.mend = mend, !.speed = speed]

LEMMA RowWith ==
    ASSUME NEW v \in SoundRow, NEW slow \in Timer, NEW burn \in Timer,
           NEW mend \in Timer, NEW speed \in Pace
    PROVE  /\ With(v, slow, burn, mend, speed) \in SoundRow
           /\ With(v, slow, burn, mend, speed).state = v.state
           /\ With(v, slow, burn, mend, speed).health = v.health
  BY DEF With, Timer, Pace, SoundRow, EntityRow

LEMMA SameRow ==
    ASSUME NEW v \in EntityRow, NEW w \in EntityRow,
           v.state = w.state, v.health = w.health, v.slow = w.slow, v.burn = w.burn,
           v.mend = w.mend,
           v.speed = w.speed, v.walking = w.walking, v.home = w.home,
           v.respawnIn = w.respawnIn
    PROVE  v = w
  BY DEF EntityRow

LEMMA KillSound ==
    ASSUME NEW e, NEW v \in EntityRow, v.health = 0
    PROVE  kill(e, v) \in SoundRow /\ kill(e, v).state = "Dead"
  <1> DEFINE timer == IF e \in Creatures THEN RespawnTicks ELSE 0
             pace == IF e \in Players /\ carried[e] # {} THEN Derived(v) ELSE v.speed
  <1>1. timer \in 0..RespawnTicks
    BY VitalsAssumption
  <1>2. pace \in {"full", "halved"}
    BY DEF Derived, EntityRow
  <1>3. kill(e, v) = [v EXCEPT !.state = "Dead", !.walking = FALSE,
                               !.respawnIn = timer, !.speed = pace]
    BY DEF kill
  <1> HIDE DEF timer, pace
  <1> QED
    BY <1>1, <1>2, <1>3 DEF SoundRow, EntityRow

LEMMA DamageSound ==
    ASSUME NEW e, NEW v \in SoundRow, NEW n \in Nat
    PROVE  apply_damage(e, v, n) \in SoundRow
  <1>1. CASE v.state = "Dead"
    BY <1>1 DEF apply_damage
  <1>2. CASE v.state # "Dead" /\ v.health > n
    <2>1. apply_damage(e, v, n) = [v EXCEPT !.health = v.health - n]
      BY <1>2 DEF apply_damage, SoundRow, EntityRow
    <2>2. v.health - n \in 0..MaxHealth /\ v.health - n # 0
      <3>1. v.health \in 0..MaxHealth
        BY DEF SoundRow, EntityRow
      <3> QED
        BY ONLY <1>2, <3>1, n \in Nat, Bounds
    <2> QED
      BY <1>2, <2>1, <2>2 DEF SoundRow, EntityRow
  <1>3. CASE v.state # "Dead" /\ ~ (v.health > n)
    <2>1. [v EXCEPT !.health = 0] \in EntityRow /\ [v EXCEPT !.health = 0].health = 0
      BY VitalsAssumption DEF SoundRow, EntityRow
    <2>2. apply_damage(e, v, n) = kill(e, [v EXCEPT !.health = 0])
      BY <1>3 DEF apply_damage
    <2> QED
      BY <2>1, <2>2, KillSound
  <1> QED
    BY <1>1, <1>2, <1>3

LEMMA HealSound ==
    ASSUME NEW v \in SoundRow, NEW n \in Nat
    PROVE  apply_healing(v, n) \in SoundRow
  <1> DEFINE healed == IF v.health + n < MaxHealth THEN v.health + n ELSE MaxHealth
  <1>1. healed \in 0..MaxHealth
    BY VitalsAssumption DEF SoundRow, EntityRow
  <1>2. apply_healing(v, n) = IF v.state = "Dead" THEN v ELSE [v EXCEPT !.health = healed]
    BY DEF apply_healing
  <1> HIDE DEF healed
  <1> QED
    BY <1>1, <1>2 DEF SoundRow, EntityRow

LEMMA StatusSound ==
    ASSUME NEW v \in SoundRow, NEW s \in {"none", "slow", "burn", "mend"}
    PROVE  apply_status(v, s) \in SoundRow
  <1>1. CASE StatusTicks = 0
    BY <1>1 DEF apply_status
  <1>2. CASE StatusTicks # 0 /\ s = "slow"
    <2>1. v.burn \in Timer /\ v.mend \in Timer /\ StatusTicks \in Timer /\ "halved" \in Pace
      BY Bounds DEF Timer, Pace, SoundRow, EntityRow
    <2>2. Derived([v EXCEPT !.slow = StatusTicks]) = "halved"
      BY <1>2, Bounds DEF Derived, SoundRow, EntityRow
    <2>3. apply_status(v, s) = With(v, StatusTicks, v.burn, v.mend, "halved")
      BY <1>2, <2>2 DEF With, apply_status, recalculate_effective_stats, SoundRow, EntityRow
    <2> QED
      BY <2>1, <2>3, RowWith
  <1>3. CASE StatusTicks # 0 /\ s = "burn"
    <2>1. apply_status(v, s) = With(v, v.slow, StatusTicks, v.mend, v.speed)
      BY <1>3 DEF With, apply_status, SoundRow, EntityRow
    <2>2. /\ v.slow \in Timer /\ StatusTicks \in Timer /\ v.mend \in Timer
          /\ v.speed \in Pace
      BY Bounds DEF Timer, Pace, SoundRow, EntityRow
    <2> QED
      BY <2>1, <2>2, RowWith
  <1>4. CASE StatusTicks # 0 /\ s = "mend"
    <2>1. apply_status(v, s) = With(v, v.slow, v.burn, StatusTicks, v.speed)
      BY <1>4 DEF With, apply_status, SoundRow, EntityRow
    <2>2. /\ v.slow \in Timer /\ v.burn \in Timer /\ StatusTicks \in Timer
          /\ v.speed \in Pace
      BY Bounds DEF Timer, Pace, SoundRow, EntityRow
    <2> QED
      BY <2>1, <2>2, RowWith
  <1>5. CASE StatusTicks # 0 /\ s = "none"
    BY <1>5 DEF apply_status
  <1> QED
    BY <1>1, <1>2, <1>3, <1>4, <1>5

LEMMA ResurrectSound ==
    ASSUME NEW v \in SoundRow
    PROVE  /\ resurrect(v) \in SoundRow
           /\ resurrect(v).state = "Idle" /\ resurrect(v).health = MaxHealth
           /\ resurrect(v) = [Rested EXCEPT !.speed = resurrect(v).speed]
  <1>1. /\ 0 \in 0..StatusTicks /\ 0 \in 0..RespawnTicks /\ MaxHealth \in 0..MaxHealth
        /\ MaxHealth # 0
    BY Bounds
  <1>2. v.speed \in {"full", "halved"}
    BY DEF SoundRow, EntityRow
  <1>3. resurrect(v) = [Rested EXCEPT !.speed = v.speed]
    <2>1. resurrect(v) \in EntityRow /\ [Rested EXCEPT !.speed = v.speed] \in EntityRow
      BY <1>1, <1>2 DEF resurrect, Rested, SoundRow, EntityRow
    <2>2. v \in EntityRow
      BY DEF SoundRow
    <2> QED
      BY <2>1, <2>2, SameRow, ZenonT(60) DEF resurrect, Rested, EntityRow
  <1>4. [Rested EXCEPT !.speed = v.speed] \in SoundRow
    BY <1>1, <1>2 DEF Rested, SoundRow, EntityRow
  <1>5. resurrect(v).speed = v.speed
    BY <1>3 DEF Rested
  <1> QED
    BY <1>3, <1>4, <1>5 DEF Rested

LEMMA HitSound ==
    ASSUME NEW e, NEW v \in SoundRow, NEW bundle \in Bundles
    PROVE  Hit(e, v, bundle) \in SoundRow
  <1> DEFINE struck == IF bundle.kind = "damage" THEN apply_damage(e, v, bundle.amount)
                       ELSE apply_healing(v, bundle.amount)
  <1>1. /\ bundle.amount \in Nat
        /\ bundle.status \in {"none", "slow", "burn", "mend"}
    BY VitalsAssumption DEF Bundles
  <1>2. struck \in SoundRow
    BY <1>1, DamageSound, HealSound
  <1>3. Hit(e, v, bundle) = apply_status(struck, bundle.status)
    BY DEF Hit
  <1> HIDE DEF struck
  <1> QED
    BY <1>1, <1>2, <1>3, StatusSound

LEMMA StatusStepSound ==
    ASSUME NEW v \in SoundRow
    PROVE  /\ status_step(v) \in SoundRow
           /\ status_step(v).state = v.state /\ status_step(v).health = v.health
  <1> DEFINE slow == IF v.slow > 0 THEN v.slow - 1 ELSE 0
             burn == IF v.burn > 0 THEN v.burn - 1 ELSE 0
             mend == IF v.mend > 0 THEN v.mend - 1 ELSE 0
             speed == IF 1 \in {v.slow, v.burn, v.mend}
                      THEN IF slow > 0 THEN "halved" ELSE "full" ELSE v.speed
  <1>1. slow \in Timer /\ burn \in Timer /\ mend \in Timer
    <2>1. {v.slow, v.burn, v.mend} \subseteq 0..StatusTicks
      BY DEF SoundRow, EntityRow
    <2> QED
      BY <2>1, Bounds DEF Timer
  <1>2. speed \in Pace
    BY DEF Pace, SoundRow, EntityRow
  <1>3. status_step(v) = With(v, slow, burn, mend, speed)
    BY DEF With, status_step, recalculate_effective_stats, Derived, SoundRow, EntityRow
  <1> HIDE DEF slow, burn, mend, speed
  <1> QED
    BY <1>1, <1>2, <1>3, RowWith

LEMMA MovementSound ==
    ASSUME NEW v \in SoundRow, NEW outcome \in Outcomes
    PROVE  /\ movement_step(v, outcome) \in SoundRow
           /\ movement_step(v, outcome).state = v.state
           /\ movement_step(v, outcome).health = v.health
  BY DEF movement_step, Outcomes, SoundRow, EntityRow

LEMMA PeriodicSound ==
    ASSUME NEW e, NEW v \in SoundRow, NEW fires
    PROVE  tick_periodic_effects(e, v, fires) \in SoundRow
  <1>1. ASSUME NEW w \in SoundRow, NEW effect
        PROVE  fire(e, w, effect) \in SoundRow
    BY DamageSound, HealSound DEF fire
  <1> QED
    BY <1>1 DEF tick_periodic_effects

(* The sweep leaves nobody standing without health.                        *)
LEMMA ReapSettles ==
    ASSUME NEW e, NEW v \in SoundRow
    PROVE  /\ reap_the_dead(e, v) \in SoundRow
           /\ reap_the_dead(e, v).state = "Dead" <=> reap_the_dead(e, v).health = 0
  <1>1. v \in EntityRow
    BY DEF SoundRow
  <1>2. CASE v.state # "Dead" /\ v.health = 0
    BY <1>1, <1>2, KillSound DEF reap_the_dead, SoundRow
  <1>3. CASE ~ (v.state # "Dead" /\ v.health = 0)
    BY <1>1, <1>3 DEF reap_the_dead, SoundRow
  <1> QED
    BY <1>2, <1>3

LEMMA RespawnSettles ==
    ASSUME NEW e, NEW v \in SoundRow, v.state = "Dead" <=> v.health = 0
    PROVE  /\ tick_respawns(e, v) \in SoundRow
           /\ tick_respawns(e, v).state = "Dead" <=> tick_respawns(e, v).health = 0
  <1>1. CASE e \in Players \/ v.state # "Dead"
    BY <1>1 DEF tick_respawns
  <1>2. CASE ~ (e \in Players \/ v.state # "Dead") /\ v.respawnIn > 1
    <2>1. tick_respawns(e, v) = [v EXCEPT !.respawnIn = v.respawnIn - 1]
      BY <1>2 DEF tick_respawns
    <2> QED
      BY <1>2, <2>1, VitalsAssumption DEF SoundRow, EntityRow
  <1>3. CASE ~ (e \in Players \/ v.state # "Dead") /\ ~ (v.respawnIn > 1)
    <2>1. tick_respawns(e, v) = resurrect(v)
      BY <1>3 DEF tick_respawns
    <2> QED
      BY <2>1, ResurrectSound, VitalsAssumption
  <1> QED
    BY <1>1, <1>2, <1>3

LEMMA ExpireSound ==
    ASSUME NEW v \in SoundRow
    PROVE  /\ expire_stale_presence(v) \in SoundRow
           /\ expire_stale_presence(v).state = v.state
           /\ expire_stale_presence(v).health = v.health
  BY DEF expire_stale_presence, SoundRow, EntityRow

-----------------------------------------------------------------------------
(* What a tick does to one row: v is the row once statuses and movement    *)
(* have run.                                                               *)
AfterTick(e, v, fires, expired) ==
    LET back == tick_respawns(e, reap_the_dead(e, tick_periodic_effects(e, v, fires)))
    IN  IF expired THEN expire_stale_presence(back) ELSE back

LEMMA TickOfARow ==
    ASSUME RowsSound, game_tick, NEW e \in Entities
    PROVE  \E v \in SoundRow, fires \in Due, expired \in BOOLEAN :
               /\ v.state = vitals[e].state
               /\ vitals'[e] = AfterTick(e, v, fires, expired)
  <1>1. PICK outcome \in [{p \in Players : vitals[p].walking} -> Outcomes],
             due \in [{d \in Entities : vitals[d].burn > 1 \/ vitals[d].mend > 1} -> Due],
             stale \in SUBSET Players :
           LET effects(d) == IF d \in DOMAIN due THEN due[d] ELSE <<"none", "none">>
               walked(d) == IF d \in DOMAIN outcome
                            THEN movement_step(status_step(vitals[d]), outcome[d])
                            ELSE status_step(vitals[d])
               reaped == [d \in Entities |->
                   reap_the_dead(d, tick_periodic_effects(d, walked(d), effects(d)))]
               dead == {d \in Entities : vitals[d].state # "Dead" /\ reaped[d].state = "Dead"}
           IN  /\ vitals' = [d \in Entities |->
                    IF d \in stale THEN expire_stale_presence(tick_respawns(d, reaped[d]))
                    ELSE tick_respawns(d, reaped[d])]
               /\ \E roll \in Rolls(dead) : bags' = BagsAfter(loot_step, dead, roll)
               /\ carried' = CarriedAfter(dead)
    BY DEF game_tick
  <1> DEFINE walked == IF e \in DOMAIN outcome
                       THEN movement_step(status_step(vitals[e]), outcome[e])
                       ELSE status_step(vitals[e])
             fires == IF e \in DOMAIN due THEN due[e] ELSE <<"none", "none">>
             expired == e \in stale
  <1>2. walked \in SoundRow /\ walked.state = vitals[e].state
    <2>1. vitals[e] \in SoundRow
      BY DEF RowsSound
    <2> QED
      BY <2>1, StatusStepSound, MovementSound
  <1>3. fires \in Due /\ expired \in BOOLEAN
    BY DEF Due
  <1>4. vitals'[e] = AfterTick(e, walked, fires, expired)
    BY <1>1 DEF AfterTick
  <1> HIDE DEF walked, fires, expired
  <1> QED
    BY <1>2, <1>3, <1>4

(* A tick takes sound rows to sound rows whose state and health agree.     *)
LEMMA TickSound ==
    ASSUME RowsSound, game_tick
    PROVE  /\ RowsSound'
           /\ \A e \in Entities : vitals'[e].state = "Dead" <=> vitals'[e].health = 0
  <1>1. ASSUME NEW e, NEW v \in SoundRow, NEW fires \in Due, NEW expired \in BOOLEAN
        PROVE  /\ AfterTick(e, v, fires, expired) \in SoundRow
               /\ AfterTick(e, v, fires, expired).state = "Dead"
                    <=> AfterTick(e, v, fires, expired).health = 0
    <2> DEFINE burnt == tick_periodic_effects(e, v, fires)
               reaped == reap_the_dead(e, burnt)
               back == tick_respawns(e, reaped)
    <2>1. burnt \in SoundRow
      BY PeriodicSound
    <2>2. reaped \in SoundRow /\ (reaped.state = "Dead" <=> reaped.health = 0)
      <3> HIDE DEF burnt
      <3> QED
        BY <2>1, ReapSettles
    <2>3. back \in SoundRow /\ (back.state = "Dead" <=> back.health = 0)
      <3> HIDE DEF reaped
      <3> QED
        BY <2>2, RespawnSettles
    <2>4. AfterTick(e, v, fires, expired)
            = IF expired THEN expire_stale_presence(back) ELSE back
      BY DEF AfterTick
    <2> HIDE DEF back
    <2> QED
      BY <2>3, <2>4, ExpireSound
  <1>2. ASSUME NEW e \in Entities
        PROVE  /\ vitals'[e] \in SoundRow
               /\ vitals'[e].state = "Dead" <=> vitals'[e].health = 0
    BY <1>1, TickOfARow
  <1>3. vitals' = [e \in Entities |-> vitals'[e]]
    BY DEF game_tick
  <1> QED
    BY <1>2, <1>3 DEF RowsSound

LEMMA InitSound == Init => RowsSound
  BY VitalsAssumption DEF Init, RowsSound, Rested, SoundRow, EntityRow, Entities

LEMMA NextSound ==
    ASSUME RowsSound, [Next]_vars
    PROVE  RowsSound'
  <1>1. CASE game_tick
    BY <1>1, TickSound
  <1>2. ASSUME NEW e \in Entities, NEW bundle \in Bundles, resolve_bundle(e, bundle)
        PROVE  RowsSound'
    <2>1. vitals' = [vitals EXCEPT ![e] = Hit(e, vitals[e], bundle)]
      BY <1>2 DEF resolve_bundle
    <2>2. Hit(e, vitals[e], bundle) \in SoundRow
      BY HitSound DEF RowsSound
    <2> QED
      BY <2>1, <2>2 DEF RowsSound
  <1>3. ASSUME NEW p \in Players, NEW v \in SoundRow, SetRow(p, v)
        PROVE  RowsSound'
    BY <1>3 DEF SetRow, RowsSound, Entities
  <1>4. ASSUME NEW p \in Players,
               move_to(p) \/ stop(p) \/ respawn(p) \/ leave(p) \/ join(p)
        PROVE  RowsSound'
    <2>1. vitals[p] \in SoundRow
      BY DEF RowsSound, Entities
    <2>2. CASE move_to(p)
      <3>1. [vitals[p] EXCEPT !.walking = TRUE] \in SoundRow
        BY <2>1 DEF SoundRow, EntityRow
      <3> QED
        BY <2>2, <3>1, <1>3 DEF move_to
    <2>3. CASE stop(p) \/ leave(p)
      <3>1. [vitals[p] EXCEPT !.walking = FALSE, !.state = "Idle"] \in SoundRow
        BY <2>1 DEF SoundRow, EntityRow
      <3> QED
        BY <2>3, <3>1, <1>3 DEF stop, leave
    <2>4. CASE respawn(p)
      BY <2>1, <2>4, <1>3, ResurrectSound DEF respawn
    <2>5. CASE join(p)
      BY <2>5 DEF join, RowsSound
    <2> QED
      BY <1>4, <2>2, <2>3, <2>4, <2>5
  <1>5. ASSUME NEW p \in Players, NEW b \in Bags,
               \/ \E x \in Pieces : loot_take(p, b, x)
               \/ loot_take_gold(p, b)
               \/ loot_take_all(p, b)
        PROVE  RowsSound'
    BY <1>5 DEF loot_take, loot_take_gold, loot_take_all, RowsSound
  <1>6. ASSUME NEW b \in Bags, Elapse(b)
        PROVE  RowsSound'
    BY <1>6 DEF Elapse, RowsSound
  <1>7. CASE UNCHANGED vars
    BY <1>7 DEF vars, RowsSound
  <1> QED
    BY <1>1, <1>2, <1>4, <1>5, <1>6, <1>7 DEF Next

-----------------------------------------------------------------------------
(* Coming back.                                                            *)

Whole(v) == v = [Rested EXCEPT !.speed = v.speed]

(* Of all that a tick does to a corpse only the respawn makes it alive.    *)
LEMMA TickReturnsWhole ==
    ASSUME NEW e, NEW v \in SoundRow, NEW fires \in Due, NEW expired \in BOOLEAN,
           v.state = "Dead", IsAlive(AfterTick(e, v, fires, expired))
    PROVE  Whole(AfterTick(e, v, fires, expired))
  <1>1. tick_periodic_effects(e, v, fires) = v /\ reap_the_dead(e, v) = v
    BY DEF tick_periodic_effects, fire, apply_damage, apply_healing, reap_the_dead
  <1> DEFINE back == tick_respawns(e, v)
  <1>2. AfterTick(e, v, fires, expired)
          = IF expired THEN expire_stale_presence(back) ELSE back
    BY <1>1 DEF AfterTick
  <1>3. back.state = "Dead" \/ back = resurrect(v)
    BY DEF tick_respawns, SoundRow, EntityRow
  <1>4. CASE back.state = "Dead"
    <2>1. back \in SoundRow
      BY RespawnSettles DEF SoundRow
    <2>2. AfterTick(e, v, fires, expired).state = "Dead"
      <3> HIDE DEF back
      <3> QED
        BY <1>2, <1>4, <2>1, ExpireSound
    <2> QED
      BY <2>2 DEF IsAlive
  <1>5. CASE back = resurrect(v)
    <2>1. resurrect(v).walking = FALSE /\ resurrect(v) \in SoundRow
      BY ResurrectSound DEF resurrect, SoundRow, EntityRow
    <2>2. expire_stale_presence(resurrect(v)) = resurrect(v)
      <3>1. /\ resurrect(v) \in EntityRow
            /\ expire_stale_presence(resurrect(v)) \in EntityRow
        BY <2>1, ExpireSound DEF SoundRow
      <3> QED
        BY <2>1, <3>1, SameRow DEF expire_stale_presence, EntityRow
    <2>3. AfterTick(e, v, fires, expired) = resurrect(v)
      BY <1>2, <1>5, <2>2
    <2> QED
      BY <2>3, ResurrectSound DEF Whole
  <1> QED
    BY <1>3, <1>4, <1>5

LEMMA NextReturnsWhole ==
    ASSUME RowsSound, [Next]_vars, NEW e \in Entities,
           vitals[e].state = "Dead", IsAlive(vitals'[e])
    PROVE  Whole(vitals'[e])
  <1>1. vitals[e] \in SoundRow /\ vitals[e].health = 0
    BY DEF RowsSound, SoundRow
  <1>2. vitals'[e] # vitals[e]
    BY DEF IsAlive
  <1>3. CASE game_tick
    BY <1>3, TickOfARow, TickReturnsWhole
  <1>4. ASSUME NEW d \in Entities, NEW bundle \in Bundles, resolve_bundle(d, bundle)
        PROVE  FALSE
    BY <1>2, <1>4 DEF resolve_bundle, RowsSound, IsAlive
  <1>5. ASSUME NEW p \in Players, NEW v, SetRow(p, v)
        PROVE  p = e /\ vitals'[e] = v
    BY <1>2, <1>5 DEF SetRow, RowsSound
  <1>6. ASSUME NEW p \in Players,
               move_to(p) \/ stop(p) \/ respawn(p) \/ leave(p) \/ join(p)
        PROVE  Whole(vitals'[e])
    <2>1. CASE move_to(p)
      BY <1>5, <2>1 DEF move_to
    <2>2. CASE stop(p) \/ leave(p)
      <3>1. vitals'[e] = [vitals[e] EXCEPT !.walking = FALSE, !.state = "Idle"]
        <4>1. vitals' = [vitals EXCEPT ![p] =
                            [vitals[p] EXCEPT !.walking = FALSE, !.state = "Idle"]]
          BY <2>2 DEF stop, leave, SetRow
        <4> QED
          BY <1>2, <4>1 DEF RowsSound
      <3>2. vitals'[e].health = 0
        BY <1>1, <3>1 DEF SoundRow, EntityRow
      <3> QED
        BY <3>2 DEF IsAlive
    <2>3. CASE respawn(p)
      <3>1. vitals'[e] = resurrect(vitals[e])
        BY <1>5, <2>3 DEF respawn
      <3> QED
        BY <1>1, <3>1, ResurrectSound DEF Whole
    <2>4. CASE join(p)
      BY <1>2, <2>4 DEF join
    <2> QED
      BY <1>6, <2>1, <2>2, <2>3, <2>4
  <1>7. ASSUME NEW p \in Players, NEW b \in Bags,
               \/ \E x \in Pieces : loot_take(p, b, x)
               \/ loot_take_gold(p, b)
               \/ loot_take_all(p, b)
        PROVE  FALSE
    BY <1>2, <1>7 DEF loot_take, loot_take_gold, loot_take_all
  <1>8. ASSUME NEW b \in Bags, Elapse(b)
        PROVE  FALSE
    BY <1>2, <1>8 DEF Elapse
  <1>9. ~ UNCHANGED vars
    BY <1>2 DEF vars
  <1> QED
    BY <1>3, <1>4, <1>6, <1>7, <1>8, <1>9 DEF Next

-----------------------------------------------------------------------------
(* Pieces: where each is.                                                  *)

InBag(x, b) == bags[b] # NoBag /\ x \in bags[b].items

(* PieceOnce without cardinalities.                                        *)
Apart ==
    /\ \A p, q \in Players : \A x \in carried[p] \cap carried[q] : p = q
    /\ \A b, c \in Bags : \A x \in Pieces : InBag(x, b) /\ InBag(x, c) => b = c
    /\ \A p \in Players, b \in Bags : \A x \in carried[p] : ~ InBag(x, b)

LEMMA AtMostOne ==
    ASSUME NEW S, \A x, y \in S : x = y
    PROVE  Cardinality(S) = IF S = {} THEN 0 ELSE 1
  <1>1. CASE S = {}
    BY <1>1, FS_EmptySet
  <1>2. CASE S # {}
    <2>1. PICK x \in S : S = {x}
      BY <1>2
    <2> QED
      BY <1>2, <2>1, FS_Singleton
  <1> QED
    BY <1>1, <1>2

LEMMA ApartIsOnce ==
    ASSUME Apart
    PROVE  PieceOnce
  <1>1. SUFFICES ASSUME NEW x \in Pieces
                 PROVE  Cardinality({p \in Players : x \in carried[p]})
                          + Cardinality({b \in Bags : bags[b] # NoBag /\ x \in bags[b].items}) <= 1
    BY DEF PieceOnce
  <1> DEFINE P == {p \in Players : x \in carried[p]}
             B == {b \in Bags : bags[b] # NoBag /\ x \in bags[b].items}
  <1>2. /\ \A p, q \in P : p = q
        /\ \A b, c \in B : b = c
        /\ P = {} \/ B = {}
    BY DEF Apart, InBag
  <1> HIDE DEF P, B
  <1>3. /\ Cardinality(P) = IF P = {} THEN 0 ELSE 1
        /\ Cardinality(B) = IF B = {} THEN 0 ELSE 1
    BY <1>2, AtMostOne
  <1>4. Cardinality(P) + Cardinality(B) <= 1
    BY <1>2, <1>3
  <1> QED
    BY <1>4 DEF P, B

(* The types of all but the rows.                                          *)
GoodsTyped ==
    /\ active \subseteq Players
    /\ carried \in [Players -> SUBSET Pieces]
    /\ \A p \in Players : Cardinality(carried[p]) <= Slots
    /\ purse \in [Players -> 0..MaxGold]
    /\ bags \in [Bags -> LootBag \cup {NoBag}]

GoodsSound == GoodsTyped /\ Apart

(* A player takes some pieces out of a bag, or none.                       *)
LEMMA TakeApart ==
    ASSUME GoodsSound, NEW p \in Players, NEW b \in Bags, bags[b] # NoBag,
           NEW taken \in SUBSET bags[b].items, NEW bag,
           bag # NoBag => bag.items \cap taken = {} /\ bag.items \subseteq bags[b].items,
           carried' = [carried EXCEPT ![p] = @ \cup taken],
           bags' = [bags EXCEPT ![b] = bag]
    PROVE  Apart'
  <1>1. /\ \A q \in Players : carried'[q] = IF q = p THEN carried[q] \cup taken ELSE carried[q]
        /\ \A c \in Bags : bags'[c] = IF c = b THEN bag ELSE bags[c]
    BY DEF GoodsSound, GoodsTyped
  <1>2. \A x \in taken : InBag(x, b) /\ x \in Pieces
    BY DEF InBag, GoodsSound, GoodsTyped, LootBag
  <1>4. ASSUME NEW x, NEW c \in Bags, InBag(x, c)' PROVE InBag(x, c) /\ x \notin taken
    <2>1. CASE c = b
      BY <1>1, <1>4, <2>1 DEF InBag
    <2>2. CASE c # b
      <3>1. InBag(x, c)
        BY <1>1, <1>4, <2>2 DEF InBag
      <3>2. x \notin taken
        BY <1>2, <2>2, <3>1 DEF GoodsSound, Apart
      <3> QED
        BY <3>1, <3>2
    <2> QED
      BY <2>1, <2>2
  <1>5. ASSUME NEW q \in Players, NEW r \in Players, NEW x \in carried'[q] \cap carried'[r]
        PROVE  q = r
    <2>1. /\ x \in carried[q] \/ (q = p /\ x \in taken)
          /\ x \in carried[r] \/ (r = p /\ x \in taken)
      BY <1>1
    <2> QED
      BY <1>2, <2>1 DEF GoodsSound, Apart
  <1>6. ASSUME NEW q \in Players, NEW c \in Bags, NEW x \in carried'[q], InBag(x, c)' PROVE FALSE
    <2>1. x \in carried[q] \/ x \in taken
      BY <1>1
    <2>2. InBag(x, c) /\ x \notin taken
      BY <1>4, <1>6
    <2> QED
      BY <2>1, <2>2 DEF GoodsSound, Apart
  <1>7. ASSUME NEW c \in Bags, NEW d \in Bags, NEW x \in Pieces, InBag(x, c)', InBag(x, d)'
        PROVE  c = d
    BY <1>4, <1>7 DEF GoodsSound, Apart
  <1> QED
    BY <1>5, <1>6, <1>7 DEF Apart, InBag

(* The dead drop what they have.  The ids are whatever the choice of       *)
(* BagsAfter gives: nothing here needs them to be free.                    *)
LEMMA DropSound ==
    ASSUME GoodsSound, NEW stay \in [Bags -> LootBag \cup {NoBag}],
           \A b \in Bags : stay[b] \in {bags[b], NoBag},
           NEW dead \in SUBSET Entities, NEW roll \in Rolls(dead),
           bags' = BagsAfter(stay, dead, roll), carried' = CarriedAfter(dead)
    PROVE  /\ Apart'
           /\ bags' \in [Bags -> LootBag \cup {NoBag}]
           /\ carried' \in [Players -> SUBSET Pieces]
           /\ \A p \in Players : Cardinality(carried'[p]) <= Slots
  <1> DEFINE dropping == {e \in dead : ~ IsEmpty(Drops(e, roll))}
             id == CHOOSE f \in Injection(dropping, {b \in Bags : bags[b] = NoBag}) : TRUE
             whose(b) == CHOOSE e \in dropping : id[e] = b
  <1>1. \A b \in Bags : bags'[b] = IF \E e \in dropping : id[e] = b
                                   THEN Drops(whose(b), roll) ELSE stay[b]
    BY DEF BagsAfter
  <1>2. bags' = [b \in Bags |-> bags'[b]]
    BY DEF BagsAfter
  <1> HIDE DEF id
  <1>3. \A b \in Bags : (\E e \in dropping : id[e] = b) => whose(b) \in dropping /\ id[whose(b)] = b
    OBVIOUS
  <1>4. \A p \in Players : carried'[p] = IF p \in dead THEN {} ELSE carried[p]
    BY DEF CarriedAfter
  <1>5. roll \in [dead \cap Creatures -> Roll]
    BY DEF Rolls
  <1>6. ASSUME NEW e \in dead PROVE Drops(e, roll) \in LootBag
    <2>1. (IF e \in Creatures THEN roll[e] ELSE 0) \in 0..MaxRoll
      BY <1>5, VitalsAssumption DEF Roll
    <2>2. (IF e \in Players THEN carried[e] ELSE {}) \in SUBSET Pieces
      BY DEF GoodsSound, GoodsTyped
    <2> QED
      BY <2>1, <2>2 DEF Drops, LootBag
  <1>7. ASSUME NEW b \in Bags PROVE bags'[b] \in LootBag \cup {NoBag}
    BY <1>1, <1>3, <1>6
  <1>8. ASSUME NEW x, NEW b \in Bags, InBag(x, b)'
        PROVE  \/ InBag(x, b)
               \/ \E e \in dead \cap Players : x \in carried[e] /\ id[e] = b
    <2>1. CASE \E e \in dropping : id[e] = b
      <3>1. whose(b) \in dead /\ id[whose(b)] = b /\ bags'[b] = Drops(whose(b), roll)
        BY <1>1, <1>3, <2>1
      <3>2. x \in Drops(whose(b), roll).items
        BY <1>8, <3>1 DEF InBag
      <3> HIDE DEF whose
      <3>3. whose(b) \in Players /\ x \in carried[whose(b)]
        BY <3>2 DEF Drops
      <3> QED
        BY <3>1, <3>3
    <2>2. CASE ~ \E e \in dropping : id[e] = b
      <3>1. bags'[b] = stay[b] /\ stay[b] \in {bags[b], NoBag}
        BY <1>1, <2>2
      <3> QED
        BY <1>8, <3>1 DEF InBag
    <2> QED
      BY <2>1, <2>2
  <1>9. ASSUME NEW b \in Bags, NEW c \in Bags, NEW x \in Pieces, InBag(x, b)', InBag(x, c)'
        PROVE  b = c
    BY <1>8, <1>9 DEF GoodsSound, Apart
  <1>10. ASSUME NEW p \in Players, NEW b \in Bags, NEW x \in carried'[p], InBag(x, b)'
         PROVE  FALSE
    <2>1. p \notin dead /\ x \in carried[p]
      BY <1>4, <1>10
    <2> QED
      BY <1>8, <1>10, <2>1 DEF GoodsSound, Apart
  <1>11. Apart'
    <2>1. \A p, q \in Players : \A x \in carried'[p] \cap carried'[q] : p = q
      BY <1>4 DEF GoodsSound, Apart
    <2> QED
      BY <1>9, <1>10, <2>1 DEF Apart, InBag
  <1>12. carried' \in [Players -> SUBSET Pieces]
    BY DEF CarriedAfter, GoodsSound, GoodsTyped
  <1>13. ASSUME NEW p \in Players PROVE Cardinality(carried'[p]) <= Slots
    <2>1. 0 <= Slots
      BY VitalsAssumption
    <2> QED
      BY <1>4, <2>1, FS_EmptySet DEF GoodsSound, GoodsTyped
  <1> QED
    BY <1>2, <1>7, <1>11, <1>12, <1>13


LEMMA GoodsBounds ==
    /\ Slots \in Nat /\ MaxGold \in Nat /\ MaxRoll \in Nat
    /\ IsFiniteSet(Pieces)
  BY VitalsAssumption

LEMMA TakeSound ==
    ASSUME GoodsSound, NEW p \in Players, NEW b \in Bags, bags[b] # NoBag,
           NEW taken \in SUBSET bags[b].items, NEW bag \in LootBag \cup {NoBag},
           bag # NoBag => bag.items \cap taken = {} /\ bag.items \subseteq bags[b].items,
           carried' = [carried EXCEPT ![p] = @ \cup taken],
           Cardinality(carried[p]) + Cardinality(taken) <= Slots \/ taken = {},
           bags' = [bags EXCEPT ![b] = bag],
           purse' \in [Players -> 0..MaxGold], active' = active
    PROVE  GoodsSound'
  <1>1. Apart'
    BY TakeApart
  <1>2. /\ carried \in [Players -> SUBSET Pieces] /\ bags \in [Bags -> LootBag \cup {NoBag}]
        /\ \A q \in Players : Cardinality(carried[q]) <= Slots
    BY DEF GoodsSound, GoodsTyped
  <1>3. taken \in SUBSET Pieces
    BY <1>2 DEF LootBag
  <1>4. carried' \in [Players -> SUBSET Pieces] /\ bags' \in [Bags -> LootBag \cup {NoBag}]
    BY <1>2, <1>3
  <1>5. ASSUME NEW q \in Players PROVE Cardinality(carried'[q]) <= Slots
    <2>1. CASE q # p \/ taken = {}
      <3>1. carried'[q] = carried[q]
        BY <1>2, <2>1
      <3> QED
        BY <1>2, <3>1
    <2>2. CASE q = p /\ taken # {}
      <3> DEFINE had == carried[p]
      <3>1. carried'[q] = had \cup taken
        BY <1>2, <2>2
      <3>2. IsFiniteSet(had) /\ IsFiniteSet(taken)
        BY <1>2, <1>3, FS_Subset, VitalsAssumption
      <3>3. Cardinality(had) + Cardinality(taken) <= Slots
        BY <2>2
      <3> HIDE DEF had
      <3>4. Cardinality(had \cup taken)
              = Cardinality(had) + Cardinality(taken) - Cardinality(had \cap taken)
        BY <3>2, FS_Union
      <3>5. /\ Cardinality(had) \in Nat /\ Cardinality(taken) \in Nat
            /\ Cardinality(had \cap taken) \in Nat /\ Slots \in Nat
        <4>1. IsFiniteSet(had \cap taken)
          BY <3>2, FS_Subset
        <4>2. Cardinality(had) \in Nat /\ Cardinality(taken) \in Nat
          BY <3>2, FS_CardinalityType
        <4>3. Cardinality(had \cap taken) \in Nat
          BY <4>1, FS_CardinalityType
        <4> QED
          BY <4>2, <4>3, GoodsBounds
      <3>6. Cardinality(had \cup taken) <= Slots
        BY <3>3, <3>4, <3>5
      <3> QED
        BY <3>1, <3>6
    <2> QED
      BY <2>1, <2>2
  <1> QED
    BY <1>1, <1>2, <1>4, <1>5 DEF GoodsSound, GoodsTyped

LEMMA DespawnSound ==
    ASSUME NEW bag \in LootBag
    PROVE  /\ maybe_despawn(bag) \in LootBag \cup {NoBag}
           /\ maybe_despawn(bag) # NoBag => maybe_despawn(bag) = bag
  BY DEF maybe_despawn

LEMMA LootTakeSound ==
    ASSUME GoodsSound, NEW p \in Players, NEW b \in Bags, NEW x \in Pieces, loot_take(p, b, x)
    PROVE  GoodsSound'
  <1> DEFINE left == [bags[b] EXCEPT !.items = @ \ {x}]
             taken == {x}
  <1>1. /\ bags[b] # NoBag /\ x \in bags[b].items /\ Cardinality(carried[p]) < Slots
        /\ carried' = [carried EXCEPT ![p] = @ \cup taken]
        /\ bags' = [bags EXCEPT ![b] = maybe_despawn(left)]
        /\ purse' = purse /\ active' = active
    <2>1. /\ carried' = [carried EXCEPT ![p] = @ \cup taken]
          /\ bags' = [bags EXCEPT ![b] = maybe_despawn(left)]
      BY DEF loot_take
    <2>2. bags[b] # NoBag /\ x \in bags[b].items /\ Cardinality(carried[p]) < Slots
      BY DEF loot_take, require_open_bag
    <2>3. purse' = purse /\ active' = active
      BY DEF loot_take
    <2> QED
      BY <2>1, <2>2, <2>3
  <1>2. bags[b] \in LootBag
    BY <1>1 DEF GoodsSound, GoodsTyped
  <1>3. left \in LootBag /\ left.items = bags[b].items \ {x}
    BY <1>2 DEF LootBag
  <1>4. carried[p] \in SUBSET Pieces /\ purse' \in [Players -> 0..MaxGold]
    BY <1>1 DEF GoodsSound, GoodsTyped
  <1>5. IsFiniteSet(carried[p])
    BY <1>4, FS_Subset, VitalsAssumption
  <1>6. Cardinality(carried[p]) + Cardinality(taken) <= Slots
    <2>1. Cardinality(taken) = 1 /\ Cardinality(carried[p]) \in Nat
      BY <1>5, FS_Singleton, FS_CardinalityType
    <2> QED
      BY <1>1, <2>1, VitalsAssumption
  <1>7. taken \in SUBSET bags[b].items /\ left.items \cap taken = {}
        /\ left.items \subseteq bags[b].items
    BY <1>1, <1>3
  <1> HIDE DEF left, taken
  <1>8. /\ maybe_despawn(left) \in LootBag \cup {NoBag}
        /\ maybe_despawn(left) # NoBag => maybe_despawn(left) = left
    BY <1>3, DespawnSound
  <1>9. maybe_despawn(left) # NoBag =>
            /\ maybe_despawn(left).items \cap taken = {}
            /\ maybe_despawn(left).items \subseteq bags[b].items
    BY <1>7, <1>8
  <1> DEFINE bag == maybe_despawn(left)
  <1> HIDE DEF bag
  <1> QED
    BY <1>1, <1>4, <1>6, <1>7, <1>8, <1>9, TakeSound DEF bag

LEMMA LootTakeGoldSound ==
    ASSUME GoodsSound, NEW p \in Players, NEW b \in Bags, loot_take_gold(p, b)
    PROVE  GoodsSound'
  <1> DEFINE left == [bags[b] EXCEPT !.gold = 0]
             bag == maybe_despawn(left)
  <1>1. /\ bags[b] # NoBag
        /\ purse[p] + bags[b].gold <= MaxGold
        /\ purse' = [purse EXCEPT ![p] = @ + bags[b].gold]
        /\ bags' = [bags EXCEPT ![b] = bag]
        /\ carried' = carried /\ active' = active
    BY DEF loot_take_gold, require_open_bag
  <1>2. /\ bags[b] \in LootBag /\ purse \in [Players -> 0..MaxGold]
        /\ carried \in [Players -> SUBSET Pieces]
    BY <1>1 DEF GoodsSound, GoodsTyped
  <1>3. left \in LootBag /\ left.items = bags[b].items
    BY <1>2, VitalsAssumption DEF LootBag
  <1>4. purse' \in [Players -> 0..MaxGold]
    BY <1>1, <1>2, VitalsAssumption DEF LootBag
  <1> HIDE DEF left
  <1>5. bag \in LootBag \cup {NoBag} /\ (bag # NoBag => bag = left)
    BY <1>3, DespawnSound
  <1>6. carried' = [carried EXCEPT ![p] = @ \cup {}]
    BY <1>1, <1>2
  <1> HIDE DEF bag
  <1>7. bag # NoBag => bag.items \cap {} = {} /\ bag.items \subseteq bags[b].items
    BY <1>3, <1>5
  <1>8. {} \in SUBSET bags[b].items
    OBVIOUS
  <1> QED
    BY <1>1, <1>4, <1>5, <1>6, <1>7, <1>8, TakeSound

LEMMA MinOfTwo ==
    ASSUME NEW m \in Nat, NEW n \in Nat
    PROVE  Min({m, n}) = IF m <= n THEN m ELSE n
  <1> DEFINE least == IF m <= n THEN m ELSE n
  <1>1. least \in {m, n} /\ \A y \in {m, n} : least <= y
    OBVIOUS
  <1>2. \A x \in {m, n} : (\A y \in {m, n} : x <= y) => x = least
    OBVIOUS
  <1> HIDE DEF least
  <1> QED
    BY <1>1, <1>2 DEF Min, least

LEMMA LootTakeAllSound ==
    ASSUME GoodsSound, NEW p \in Players, NEW b \in Bags, loot_take_all(p, b)
    PROVE  GoodsSound'
  <1>1. /\ bags[b] # NoBag
        /\ purse[p] + bags[b].gold <= MaxGold
        /\ purse' = [purse EXCEPT ![p] = @ + bags[b].gold]
        /\ active' = active
    BY DEF loot_take_all, require_open_bag
  <1> DEFINE free == IF Slots > Cardinality(carried[p]) THEN Slots - Cardinality(carried[p]) ELSE 0
  <1>2. PICK taken \in SUBSET bags[b].items :
            /\ Cardinality(taken) = Min({Cardinality(bags[b].items), free})
            /\ carried' = [carried EXCEPT ![p] = @ \cup taken]
            /\ bags' = [bags EXCEPT ![b] =
                            maybe_despawn([bags[b] EXCEPT !.gold = 0, !.items = @ \ taken])]
    BY DEF loot_take_all
  <1> DEFINE left == [bags[b] EXCEPT !.gold = 0, !.items = @ \ taken]
             bag == maybe_despawn(left)
  <1>3. /\ bags[b] \in LootBag /\ purse \in [Players -> 0..MaxGold]
        /\ carried[p] \in SUBSET Pieces /\ Cardinality(carried[p]) <= Slots
        /\ bags \in [Bags -> LootBag \cup {NoBag}]
    BY <1>1 DEF GoodsSound, GoodsTyped
  <1>4. left \in LootBag /\ left.items = bags[b].items \ taken
    <2>1. 0 \in 0..MaxRoll
      BY VitalsAssumption
    <2>2. bags[b] \in LootBag
      BY <1>3
    <2> QED
      BY <2>1, <2>2 DEF LootBag
  <1>5. purse' \in [Players -> 0..MaxGold]
    <2>1. bags[b].gold \in Nat /\ purse[p] \in Nat /\ MaxGold \in Nat
      BY <1>3, VitalsAssumption DEF LootBag
    <2>2. purse[p] + bags[b].gold \in 0..MaxGold
      BY <1>1, <2>1
    <2> QED
      BY <1>1, <1>3, <2>2
  <1>6. bags' = [bags EXCEPT ![b] = bag]
    BY <1>2, <1>3
  <1>7. IsFiniteSet(carried[p]) /\ IsFiniteSet(bags[b].items)
    BY <1>3, FS_Subset, VitalsAssumption DEF LootBag
  <1>8. Cardinality(carried[p]) + Cardinality(taken) <= Slots
    <2>1. /\ Cardinality(carried[p]) \in Nat /\ Cardinality(bags[b].items) \in Nat
          /\ Slots \in Nat
      BY <1>7, FS_CardinalityType, VitalsAssumption
    <2>2. free \in Nat
      BY <2>1
    <2>3. Cardinality(taken) <= free
      <3> HIDE DEF free
      <3> QED
        BY <1>2, <2>1, <2>2, MinOfTwo
    <2>4. Cardinality(taken) \in Nat
      BY <1>7, FS_Subset, FS_CardinalityType
    <2> QED
      BY <1>3, <2>1, <2>3, <2>4
  <1>9. left.items \cap taken = {} /\ left.items \subseteq bags[b].items
    BY <1>4
  <1> HIDE DEF left
  <1>10. bag \in LootBag \cup {NoBag} /\ (bag # NoBag => bag = left)
    BY <1>4, DespawnSound
  <1> HIDE DEF bag
  <1>11. bag # NoBag => bag.items \cap taken = {} /\ bag.items \subseteq bags[b].items
    BY <1>9, <1>10
  <1>12. carried' = [carried EXCEPT ![p] = @ \cup taken]
    BY <1>2
  <1> QED
    BY <1>1, <1>5, <1>6, <1>8, <1>10, <1>11, <1>12, TakeSound

LEMMA GoodsUntouched ==
    ASSUME GoodsSound, UNCHANGED <<carried, purse>>, active' \subseteq Players,
           bags' \in [Bags -> LootBag \cup {NoBag}],
           \A b \in Bags, x \in Pieces : InBag(x, b)' => InBag(x, b)
    PROVE  GoodsSound'
  <1>1. Apart'
    <2>1. \A p \in Players : carried[p] \in SUBSET Pieces
      BY DEF GoodsSound, GoodsTyped
    <2>2. \A b, c \in Bags : \A x \in Pieces : InBag(x, b)' /\ InBag(x, c)' => b = c
      BY DEF GoodsSound, Apart
    <2>3. \A p \in Players, b \in Bags : \A x \in carried'[p] : ~ InBag(x, b)'
      BY <2>1 DEF GoodsSound, Apart
    <2>4. \A p, q \in Players : \A x \in carried'[p] \cap carried'[q] : p = q
      BY DEF GoodsSound, Apart
    <2> QED
      BY <2>2, <2>3, <2>4 DEF Apart, InBag
  <1> QED
    BY <1>1 DEF GoodsSound, GoodsTyped

LEMMA ElapseSound ==
    ASSUME GoodsSound, NEW b \in Bags, Elapse(b)
    PROVE  GoodsSound'
  <1>1. /\ bags[b] # NoBag /\ bags' = [bags EXCEPT ![b].due = TRUE]
        /\ UNCHANGED <<active, carried, purse>>
        /\ active \subseteq Players /\ bags \in [Bags -> LootBag \cup {NoBag}]
    BY DEF Elapse, GoodsSound, GoodsTyped
  <1>2. bags[b] \in LootBag
    BY <1>1
  <1>3. [bags[b] EXCEPT !.due = TRUE] \in LootBag
        /\ [bags[b] EXCEPT !.due = TRUE].items = bags[b].items
    BY <1>2 DEF LootBag
  <1>4. bags' \in [Bags -> LootBag \cup {NoBag}]
    BY <1>1, <1>3
  <1>5. \A c \in Bags, x \in Pieces : InBag(x, c)' => InBag(x, c)
    BY <1>1, <1>3 DEF InBag
  <1> QED
    BY <1>1, <1>4, <1>5, GoodsUntouched

LEMMA TickGoods ==
    ASSUME GoodsSound, game_tick
    PROVE  GoodsSound'
  <1>1. \E dead \in SUBSET Entities : \E roll \in Rolls(dead) :
            bags' = BagsAfter(loot_step, dead, roll) /\ carried' = CarriedAfter(dead)
    BY DEF game_tick
  <1>2. UNCHANGED <<active, purse>>
    BY DEF game_tick
  <1>3. /\ loot_step \in [Bags -> LootBag \cup {NoBag}]
        /\ \A b \in Bags : loot_step[b] \in {bags[b], NoBag}
    BY DEF loot_step, GoodsSound, GoodsTyped
  <1>4. /\ Apart'
        /\ bags' \in [Bags -> LootBag \cup {NoBag}]
        /\ carried' \in [Players -> SUBSET Pieces]
        /\ \A p \in Players : Cardinality(carried'[p]) <= Slots
    <2> DEFINE stay == loot_step
    <2> HIDE DEF stay
    <2>1. /\ stay \in [Bags -> LootBag \cup {NoBag}]
          /\ \A b \in Bags : stay[b] \in {bags[b], NoBag}
      BY <1>3 DEF stay
    <2>2. PICK dead \in SUBSET Entities : \E roll \in Rolls(dead) :
            bags' = BagsAfter(stay, dead, roll) /\ carried' = CarriedAfter(dead)
      BY <1>1 DEF stay
    <2>3. PICK roll \in Rolls(dead) :
            bags' = BagsAfter(stay, dead, roll) /\ carried' = CarriedAfter(dead)
      BY <2>2
    <2> QED
      BY <2>1, <2>3, DropSound
  <1> QED
    BY <1>2, <1>4 DEF GoodsSound, GoodsTyped

LEMMA ResolveGoods ==
    ASSUME GoodsSound, NEW e \in Entities, NEW bundle, resolve_bundle(e, bundle)
    PROVE  GoodsSound'
  <1>1. \E dead \in SUBSET Entities : \E roll \in Rolls(dead) :
            bags' = BagsAfter(bags, dead, roll) /\ carried' = CarriedAfter(dead)
    BY DEF resolve_bundle
  <1>2. UNCHANGED <<active, purse>>
    BY DEF resolve_bundle
  <1>3. bags \in [Bags -> LootBag \cup {NoBag}]
    BY DEF GoodsSound, GoodsTyped
  <1>4. /\ Apart'
        /\ bags' \in [Bags -> LootBag \cup {NoBag}]
        /\ carried' \in [Players -> SUBSET Pieces]
        /\ \A p \in Players : Cardinality(carried'[p]) <= Slots
    BY <1>1, <1>3, DropSound
  <1> QED
    BY <1>2, <1>4 DEF GoodsSound, GoodsTyped

LEMMA InitGoods == Init => GoodsSound
  <1> SUFFICES ASSUME Init PROVE GoodsSound
    OBVIOUS
  <1>1. /\ active = Players /\ carried = Gear
        /\ purse = [p \in Players |-> 0] /\ \A b \in Bags : bags[b] = NoBag
        /\ bags = [b \in Bags |-> NoBag]
    BY DEF Init
  <1>2. GoodsTyped
    BY <1>1, VitalsAssumption DEF GoodsTyped
  <1>3. Apart
    BY <1>1, VitalsAssumption DEF Apart, InBag
  <1> QED
    BY <1>2, <1>3 DEF GoodsSound

LEMMA NextGoods ==
    ASSUME GoodsSound, [Next]_vars
    PROVE  GoodsSound'
  <1>1. CASE game_tick
    BY <1>1, TickGoods
  <1>2. ASSUME NEW e \in Entities, NEW bundle \in Bundles, resolve_bundle(e, bundle)
        PROVE  GoodsSound'
    BY <1>2, ResolveGoods
  <1>3. CASE UNCHANGED <<carried, purse, bags>> /\ active' \subseteq Players
    <2>1. bags' \in [Bags -> LootBag \cup {NoBag}]
      BY <1>3 DEF GoodsSound, GoodsTyped
    <2>2. \A b \in Bags, x \in Pieces : InBag(x, b)' => InBag(x, b)
      BY <1>3 DEF InBag
    <2> QED
      BY <1>3, <2>1, <2>2, GoodsUntouched
  <1>4. ASSUME NEW p \in Players,
               move_to(p) \/ stop(p) \/ respawn(p) \/ leave(p) \/ join(p)
        PROVE  GoodsSound'
    <2>1. active \subseteq Players
      BY DEF GoodsSound, GoodsTyped
    <2>2. UNCHANGED <<carried, purse, bags>> /\ active' \subseteq Players
      BY <1>4, <2>1 DEF move_to, stop, respawn, leave, join, SetRow
    <2> QED
      BY <1>3, <2>2
  <1>5. ASSUME NEW p \in Players, NEW b \in Bags,
               \/ \E x \in Pieces : loot_take(p, b, x)
               \/ loot_take_gold(p, b)
               \/ loot_take_all(p, b)
        PROVE  GoodsSound'
    BY <1>5, LootTakeSound, LootTakeGoldSound, LootTakeAllSound
  <1>6. ASSUME NEW b \in Bags, Elapse(b)
        PROVE  GoodsSound'
    BY <1>6, ElapseSound
  <1>7. CASE UNCHANGED vars
    <2>1. active' \subseteq Players
      BY <1>7 DEF vars, GoodsSound, GoodsTyped
    <2> QED
      BY <1>3, <1>7, <2>1 DEF vars
  <1> QED
    BY <1>1, <1>2, <1>4, <1>5, <1>6, <1>7 DEF Next

-----------------------------------------------------------------------------
(* Sums over finite sets.                                                  *)

(* A set of subsets of S that holds {} and grows by any element holds S.   *)
LEMMA SetInduction ==
    ASSUME NEW S, IsFiniteSet(S), NEW P, {} \in P,
           \A T \in SUBSET S, x \in S : T \in P => T \cup {x} \in P
    PROVE  S \in P
  <1> DEFINE bad == (SUBSET S) \ P
  <1>1. SUFFICES ASSUME S \notin P PROVE FALSE
    OBVIOUS
  <1>2. bad \subseteq FiniteSubsetsOf(S) /\ bad # {}
    BY <1>1, FS_FiniteSubsetsOfFinite
  <1>3. PICK T \in bad : \A U \in bad : ~ (<<U, T>> \in StrictSubsetOrdering(S))
    BY <1>2, FS_StrictSubsetOrderingWellFounded, WFMin
  <1>4. PICK x \in T : TRUE
    OBVIOUS
  <1>5. T \ {x} \in P
    <2>1. <<T \ {x}, T>> \in StrictSubsetOrdering(S)
      BY DEF StrictSubsetOrdering
    <2> QED
      BY <1>3, <2>1
  <1>6. (T \ {x}) \cup {x} = T
    OBVIOUS
  <1> QED
    BY <1>5, <1>6

Pick(T) == CHOOSE x \in T : TRUE

(* g sums f over the members of D, one pick after the other.               *)
Sums(f, D, g) ==
    g = [T \in D |-> IF T = {} THEN 0 ELSE f[Pick(T)] + g[T \ {Pick(T)}]]

(* The library's fold is the sum of this shape.                            *)
LEMMA SumIsChosen ==
    ASSUME NEW f, NEW S
    PROVE  SumFunctionOnSet(f, S) = (CHOOSE g : Sums(f, SUBSET S, g))[S]
  BY DEF SumFunctionOnSet, FoldFunctionOnSet, MapThenFoldSet, Sums, Pick

(* A pick is a member.                                                     *)
LEMMA PickIsIn ==
    ASSUME NEW T, T # {}
    PROVE  Pick(T) \in T
  BY DEF Pick

(* There is such a sum.                                                    *)
LEMMA SumExists ==
    ASSUME NEW f, NEW S, IsFiniteSet(S)
    PROVE  \E g : Sums(f, SUBSET S, g)
  <1> DEFINE Up(n) == {T \in SUBSET S : Cardinality(T) <= n}
             N == Cardinality(S)
             P == {T \in SUBSET S : \E g : Sums(f, Up(Cardinality(T)), g)}
  <1>1. \A T \in SUBSET S : IsFiniteSet(T) /\ Cardinality(T) \in Nat /\ Cardinality(T) <= N
    BY FS_Subset, FS_CardinalityType
  <1>2. {} \in P
    <2> DEFINE g == [T \in Up(0) |-> 0]
    <2>1. Up(0) = {{}}
      BY <1>1, FS_EmptySet
    <2>2. Sums(f, Up(0), g)
      BY <2>1 DEF Sums
    <2>3. \E h : Sums(f, Up(0), h)
      <3> HIDE DEF g, Up
      <3> QED
        BY <2>2
    <2> QED
      BY <2>3, FS_EmptySet
  <1>3. ASSUME NEW T \in P, NEW x \in S PROVE T \cup {x} \in P
    <2> DEFINE n == Cardinality(T)
    <2>1. CASE x \in T
      <3>1. T \cup {x} = T
        BY <2>1
      <3> QED
        BY <1>3, <3>1
    <2>2. CASE x \notin T
      <3>1. Cardinality(T \cup {x}) = n + 1 /\ n \in Nat
        BY <1>1, <1>3, <2>2, FS_AddElement
      <3>2. PICK g : Sums(f, Up(n), g)
        BY <1>3
      <3> DEFINE h == [U \in Up(n + 1) |->
                         IF Cardinality(U) = n + 1 THEN f[Pick(U)] + g[U \ {Pick(U)}] ELSE g[U]]
      <3>3. \A U \in Up(n) : U \in Up(n + 1) /\ h[U] = g[U]
        <4>1. TAKE U \in Up(n)
        <4>2. Cardinality(U) \in Nat /\ Cardinality(U) <= n /\ U \in SUBSET S
          BY <1>1
        <4>3. U \in Up(n + 1) /\ Cardinality(U) # n + 1
          BY <3>1, <4>2
        <4> QED
          BY <4>3
      <3>4. \A U \in Up(n) : g[U] = IF U = {} THEN 0 ELSE f[Pick(U)] + g[U \ {Pick(U)}]
        BY <3>2 DEF Sums
      <3>5. \A U \in Up(n + 1) : U # {} => U \ {Pick(U)} \in Up(n)
        <4>1. TAKE U \in Up(n + 1)
        <4>2. SUFFICES ASSUME U # {} PROVE U \ {Pick(U)} \in Up(n)
          OBVIOUS
        <4>3. Pick(U) \in U /\ IsFiniteSet(U) /\ Cardinality(U) \in Nat /\ Cardinality(U) <= n + 1
          BY <1>1, <4>2, PickIsIn
        <4>4. Cardinality(U \ {Pick(U)}) = Cardinality(U) - 1
          BY <4>3, FS_RemoveElement
        <4> QED
          BY <3>1, <4>3, <4>4
      <3>6. \A U \in Up(n + 1) : h[U] = IF U = {} THEN 0 ELSE f[Pick(U)] + h[U \ {Pick(U)}]
        <4>1. TAKE U \in Up(n + 1)
        <4>2. CASE Cardinality(U) = n + 1
          <5>1. U # {}
            BY <3>1, <4>2, FS_EmptySet
          <5>2. h[U] = f[Pick(U)] + g[U \ {Pick(U)}]
            BY <4>2
          <5> HIDE DEF h
          <5> QED
            BY <3>3, <3>5, <5>1, <5>2
        <4>3. CASE Cardinality(U) # n + 1
          <5>1. U \in Up(n)
            BY <1>1, <3>1, <4>3
          <5> HIDE DEF h, Up
          <5> QED
            BY <3>3, <3>4, <3>5, <4>1, <5>1
        <4> QED
          BY <4>2, <4>3
      <3>7. Sums(f, Up(n + 1), h)
        <4>1. h = [U \in Up(n + 1) |-> h[U]]
          OBVIOUS
        <4> HIDE DEF h, Up
        <4> QED
          BY <3>6, <4>1 DEF Sums
      <3>8. \E k : Sums(f, Up(n + 1), k)
        <4> HIDE DEF h, Up
        <4> QED
          BY <3>7
      <3> HIDE DEF h, Up, n
      <3> QED
        BY <1>3, <3>1, <3>8
    <2> QED
      BY <2>1, <2>2
  <1>4. S \in P
    <2> HIDE DEF P
    <2> QED
      BY <1>2, <1>3, SetInduction
  <1>5. Up(N) = SUBSET S
    BY <1>1
  <1> QED
    BY <1>4, <1>5

(* Two sums agree where both are defined.                                  *)
Agree(g, h, T) == g[T] = h[T]

LEMMA SumsAgree ==
    ASSUME NEW f, NEW S, IsFiniteSet(S), NEW T \in SUBSET S,
           NEW g, Sums(f, SUBSET S, g), NEW h, Sums(f, SUBSET T, h)
    PROVE  Agree(g, h, T)
  <1> DEFINE bad == {U \in SUBSET T : g[U] # h[U]}
  <1>1. SUFFICES ASSUME g[T] # h[T] PROVE FALSE
    BY DEF Agree
  <1>2. IsFiniteSet(T)
    BY FS_Subset
  <1>3. bad \subseteq FiniteSubsetsOf(T) /\ bad # {}
    BY <1>1, <1>2, FS_FiniteSubsetsOfFinite
  <1>4. PICK U \in bad : \A V \in bad : ~ (<<V, U>> \in StrictSubsetOrdering(T))
    BY <1>3, FS_StrictSubsetOrderingWellFounded, WFMin
  <1>5. \A V \in SUBSET S : g[V] = IF V = {} THEN 0 ELSE f[Pick(V)] + g[V \ {Pick(V)}]
    BY DEF Sums
  <1>6. \A V \in SUBSET T : h[V] = IF V = {} THEN 0 ELSE f[Pick(V)] + h[V \ {Pick(V)}]
    BY DEF Sums
  <1>7. U \in SUBSET T /\ U \in SUBSET S /\ g[U] # h[U]
    OBVIOUS
  <1>8. U # {}
    BY <1>5, <1>6, <1>7
  <1>9. Pick(U) \in U
    BY <1>8, PickIsIn
  <1>10. <<U \ {Pick(U)}, U>> \in StrictSubsetOrdering(T)
    BY <1>7, <1>9 DEF StrictSubsetOrdering
  <1>11. g[U \ {Pick(U)}] = h[U \ {Pick(U)}]
    BY <1>4, <1>7, <1>10
  <1> QED
    BY <1>5, <1>6, <1>7, <1>8, <1>11

(* Nothing sums to 0.                                                      *)
LEMMA SumOfNone ==
    ASSUME NEW f
    PROVE  SumFunctionOnSet(f, {}) = 0
  <1> DEFINE g == CHOOSE k : Sums(f, SUBSET {}, k)
  <1>1. \E k : Sums(f, SUBSET {}, k)
    BY SumExists, FS_EmptySet
  <1>2. Sums(f, SUBSET {}, g)
    BY <1>1
  <1>3. SumFunctionOnSet(f, {}) = g[{}]
    BY SumIsChosen
  <1> HIDE DEF g
  <1> QED
    BY <1>2, <1>3 DEF Sums

(* The pick can be taken out first.                                        *)
LEMMA SumOfPick ==
    ASSUME NEW f, NEW S, IsFiniteSet(S), S # {}
    PROVE  SumFunctionOnSet(f, S) = f[Pick(S)] + SumFunctionOnSet(f, S \ {Pick(S)})
  <1> DEFINE T == S \ {Pick(S)}
             g == CHOOSE k : Sums(f, SUBSET S, k)
             h == CHOOSE k : Sums(f, SUBSET T, k)
  <1>1. IsFiniteSet(T) /\ T \in SUBSET S
    BY FS_Subset
  <1>2. Sums(f, SUBSET S, g)
    <2>1. \E k : Sums(f, SUBSET S, k)
      BY SumExists
    <2> QED
      BY <2>1
  <1>3. Sums(f, SUBSET T, h)
    <2>1. \E k : Sums(f, SUBSET T, k)
      BY <1>1, SumExists
    <2> QED
      BY <2>1
  <1>4. SumFunctionOnSet(f, S) = g[S] /\ SumFunctionOnSet(f, T) = h[T]
    BY SumIsChosen
  <1> HIDE DEF g, h
  <1>5. g[S] = f[Pick(S)] + g[T]
    BY <1>2 DEF Sums
  <1>6. g[T] = h[T]
    <2> HIDE DEF T
    <2>1. Agree(g, h, T)
      BY <1>1, <1>2, <1>3, SumsAgree
    <2> QED
      BY <2>1 DEF Agree
  <1> QED
    BY <1>4, <1>5, <1>6

(* Any member can be taken out first.                                      *)
LEMMA SumWithout ==
    ASSUME NEW f, NEW S, IsFiniteSet(S), \A x \in S : f[x] \in Int
    PROVE  /\ SumFunctionOnSet(f, S) \in Int
           /\ \A x \in S : SumFunctionOnSet(f, S) = f[x] + SumFunctionOnSet(f, S \ {x})
  <1> DEFINE Good(T) == /\ SumFunctionOnSet(f, T) \in Int
                        /\ \A x \in T : SumFunctionOnSet(f, T) = f[x] + SumFunctionOnSet(f, T \ {x})
             bad == {T \in SUBSET S : ~ Good(T)}
  <1>1. SUFFICES ASSUME bad # {} PROVE FALSE
    BY DEF bad
  <1>2. bad \subseteq FiniteSubsetsOf(S)
    BY FS_FiniteSubsetsOfFinite
  <1>3. PICK T \in bad : \A U \in bad : ~ (<<U, T>> \in StrictSubsetOrdering(S))
    BY <1>1, <1>2, FS_StrictSubsetOrderingWellFounded, WFMin
  <1>4. \A x \in T : Good(T \ {x})
    <2>1. TAKE x \in T
    <2>2. <<T \ {x}, T>> \in StrictSubsetOrdering(S)
      BY <1>3 DEF StrictSubsetOrdering
    <2>3. T \ {x} \notin bad
      BY <1>3, <2>2
    <2> QED
      BY <1>3, <2>3
  <1>5. IsFiniteSet(T) /\ T \in SUBSET S /\ ~ Good(T)
    BY <1>3, FS_Subset
  <1>6. T # {}
    <2>1. Good({})
      BY SumOfNone
    <2> QED
      BY <1>5, <2>1
  <1> DEFINE c == Pick(T)
             sum(U) == SumFunctionOnSet(f, U)
  <1>7. c \in T /\ f[c] \in Int /\ sum(T) = f[c] + sum(T \ {c})
    BY <1>5, <1>6, PickIsIn, SumOfPick
  <1>8. sum(T \ {c}) \in Int
    BY <1>4, <1>7
  <1> HIDE DEF c
  <1>9. ASSUME NEW x \in T PROVE sum(T) = f[x] + sum(T \ {x})
    <2>1. CASE x = c
      BY <1>7, <2>1
    <2>2. CASE x # c
      <3>1. x \in T \ {c} /\ c \in T \ {x} /\ f[x] \in Int
        BY <1>5, <1>7, <2>2
      <3>2. sum(T \ {c}) = f[x] + sum((T \ {c}) \ {x})
        BY <1>4, <1>7, <3>1
      <3>3. sum(T \ {x}) = f[c] + sum((T \ {x}) \ {c}) /\ sum(T \ {x}) \in Int
        BY <1>4, <3>1
      <3>4. (T \ {c}) \ {x} = (T \ {x}) \ {c}
        OBVIOUS
      <3>5. sum((T \ {x}) \ {c}) \in Int
        <4>1. Good(T \ {x}) /\ T \ {x} \in SUBSET S
          BY <1>4, <1>5
        <4>2. <<(T \ {x}) \ {c}, T>> \in StrictSubsetOrdering(S)
          BY <1>5, <1>7 DEF StrictSubsetOrdering
        <4>3. (T \ {x}) \ {c} \notin bad
          BY <1>3, <4>2
        <4> QED
          BY <1>5, <4>3
      <3> HIDE DEF sum
      <3>6. (T \ {c}) \ {x} = (T \ {x}) \ {c} /\ sum((T \ {c}) \ {x}) = sum((T \ {x}) \ {c})
        BY <3>4
      <3> QED
        BY <1>7, <3>1, <3>2, <3>3, <3>5, <3>6
    <2> QED
      BY <2>1, <2>2
  <1>10. sum(T) \in Int
    BY <1>7, <1>8
  <1> QED
    BY <1>5, <1>9, <1>10

(* A new member adds what it counts.                                       *)
LEMMA SumWith ==
    ASSUME NEW f, NEW S, IsFiniteSet(S), NEW x, x \notin S, \A y \in S \cup {x} : f[y] \in Int
    PROVE  SumFunctionOnSet(f, S \cup {x}) = SumFunctionOnSet(f, S) + f[x]
  <1> DEFINE T == S \cup {x}
  <1>1. IsFiniteSet(T) /\ T \ {x} = S /\ x \in T
    BY FS_AddElement
  <1>2. \A y \in T : f[y] \in Int
    OBVIOUS
  <1> HIDE DEF T
  <1>3. SumFunctionOnSet(f, T) = f[x] + SumFunctionOnSet(f, S)
    BY <1>1, <1>2, SumWithout
  <1>4. SumFunctionOnSet(f, S) \in Int /\ f[x] \in Int
    BY <1>1, <1>2, SumWithout
  <1>5. SumFunctionOnSet(f, T) = SumFunctionOnSet(f, S) + f[x]
    BY <1>3, <1>4
  <1> QED
    BY <1>5 DEF T

(* Larger members, larger sum.                                             *)
LEMMA SumMonotone ==
    ASSUME NEW S, IsFiniteSet(S), NEW f, NEW g,
           \A x \in S : f[x] \in Int /\ g[x] \in Int /\ f[x] <= g[x]
    PROVE  SumFunctionOnSet(f, S) <= SumFunctionOnSet(g, S)
  <1> DEFINE P == {T \in SUBSET S : SumFunctionOnSet(f, T) <= SumFunctionOnSet(g, T)}
  <1>1. {} \in P
    BY SumOfNone
  <1>2. ASSUME NEW T \in SUBSET S, NEW x \in S, T \in P PROVE T \cup {x} \in P
    <2>1. CASE x \in T
      <3>1. T \cup {x} = T
        BY <2>1
      <3> QED
        BY <1>2, <3>1
    <2>2. CASE x \notin T
      <3>1. IsFiniteSet(T) /\ \A y \in T \cup {x} : f[y] \in Int /\ g[y] \in Int
        BY <1>2, FS_Subset
      <3>2. /\ SumFunctionOnSet(f, T \cup {x}) = SumFunctionOnSet(f, T) + f[x]
            /\ SumFunctionOnSet(g, T \cup {x}) = SumFunctionOnSet(g, T) + g[x]
        BY <2>2, <3>1, SumWith
      <3>3. SumFunctionOnSet(f, T) \in Int /\ SumFunctionOnSet(g, T) \in Int
        BY <3>1, SumWithout
      <3>4. SumFunctionOnSet(f, T) <= SumFunctionOnSet(g, T)
        BY <1>2
      <3> DEFINE a == SumFunctionOnSet(f, T)
                 b == SumFunctionOnSet(g, T)
                 c == SumFunctionOnSet(f, T \cup {x})
                 d == SumFunctionOnSet(g, T \cup {x})
      <3>5. /\ a \in Int /\ b \in Int /\ a <= b /\ c = a + f[x] /\ d = b + g[x]
            /\ f[x] \in Int /\ g[x] \in Int /\ f[x] <= g[x]
        BY <3>2, <3>3, <3>4
      <3> HIDE DEF a, b, c, d
      <3>6. c <= d
        BY <3>5
      <3> QED
        BY <3>6 DEF c, d
    <2> QED
      BY <2>1, <2>2
  <1>3. S \in P
    <2> HIDE DEF P
    <2> QED
      BY <1>1, <1>2, SetInduction
  <1> QED
    BY <1>3

(* Equal members, equal sum.                                               *)
LEMMA SumSame ==
    ASSUME NEW S, IsFiniteSet(S), NEW f, NEW g,
           \A x \in S : f[x] \in Int /\ f[x] = g[x]
    PROVE  SumFunctionOnSet(f, S) = SumFunctionOnSet(g, S)
  <1>1. \A x \in S : f[x] \in Int /\ g[x] \in Int /\ f[x] <= g[x] /\ g[x] <= f[x]
    OBVIOUS
  <1>2. SumFunctionOnSet(f, S) <= SumFunctionOnSet(g, S)
    BY <1>1, SumMonotone
  <1>3. SumFunctionOnSet(g, S) <= SumFunctionOnSet(f, S)
    BY <1>1, SumMonotone
  <1>4. SumFunctionOnSet(f, S) \in Int /\ SumFunctionOnSet(g, S) \in Int
    BY <1>1, SumWithout
  <1> DEFINE a == SumFunctionOnSet(f, S)
             b == SumFunctionOnSet(g, S)
  <1>5. a \in Int /\ b \in Int /\ a <= b /\ b <= a
    BY <1>2, <1>3, <1>4
  <1> HIDE DEF a, b
  <1>6. a = b
    BY <1>5
  <1> QED
    BY <1>6 DEF a, b

(* Naturals sum to a natural.                                              *)
LEMMA SumNat ==
    ASSUME NEW S, IsFiniteSet(S), NEW f, \A x \in S : f[x] \in Nat
    PROVE  SumFunctionOnSet(f, S) \in Nat
  <1> DEFINE P == {T \in SUBSET S : SumFunctionOnSet(f, T) \in Nat}
  <1>1. {} \in P
    BY SumOfNone
  <1>2. ASSUME NEW T \in SUBSET S, NEW x \in S, T \in P PROVE T \cup {x} \in P
    <2>1. CASE x \in T
      <3>1. T \cup {x} = T
        BY <2>1
      <3> QED
        BY <1>2, <3>1
    <2>2. CASE x \notin T
      <3>1. IsFiniteSet(T) /\ \A y \in T \cup {x} : f[y] \in Int
        BY <1>2, FS_Subset
      <3>2. SumFunctionOnSet(f, T \cup {x}) = SumFunctionOnSet(f, T) + f[x]
        BY <2>2, <3>1, SumWith
      <3> QED
        BY <1>2, <3>2
    <2> QED
      BY <2>1, <2>2
  <1>3. S \in P
    <2> HIDE DEF P
    <2> QED
      BY <1>1, <1>2, SetInduction
  <1> QED
    BY <1>3

(* Members that count nothing may be left out.                             *)
LEMMA SumOnSubset ==
    ASSUME NEW S, IsFiniteSet(S), NEW f, NEW T \in SUBSET S,
           \A x \in S : f[x] \in Int, \A x \in S \ T : f[x] = 0
    PROVE  SumFunctionOnSet(f, S) = SumFunctionOnSet(f, T)
  <1> DEFINE P == {U \in SUBSET S : SumFunctionOnSet(f, U) = SumFunctionOnSet(f, U \cap T)}
  <1>1. {} \in P
    <2>1. {} \cap T = {}
      OBVIOUS
    <2> QED
      BY <2>1
  <1>2. ASSUME NEW U \in SUBSET S, NEW x \in S, U \in P PROVE U \cup {x} \in P
    <2>1. CASE x \in U
      <3>1. U \cup {x} = U
        BY <2>1
      <3> QED
        BY <1>2, <3>1
    <2>2. CASE x \notin U
      <3>1. /\ IsFiniteSet(U) /\ \A y \in U \cup {x} : f[y] \in Int
            /\ IsFiniteSet(U \cap T) /\ \A y \in (U \cap T) \cup {x} : f[y] \in Int
        BY <1>2, FS_Subset
      <3>2. SumFunctionOnSet(f, U \cup {x}) = SumFunctionOnSet(f, U) + f[x]
        BY <2>2, <3>1, SumWith
      <3>3. SumFunctionOnSet(f, U) \in Int
        BY <3>1, SumWithout
      <3>4. SumFunctionOnSet(f, (U \cup {x}) \cap T) = SumFunctionOnSet(f, U \cap T) + f[x]
        <4>1. CASE x \in T
          <5>1. (U \cup {x}) \cap T = (U \cap T) \cup {x} /\ x \notin U \cap T
            BY <2>2, <4>1
          <5>2. SumFunctionOnSet(f, (U \cap T) \cup {x}) = SumFunctionOnSet(f, U \cap T) + f[x]
            BY <3>1, <5>1, SumWith
          <5> QED
            BY <5>1, <5>2
        <4>2. CASE x \notin T
          <5>1. (U \cup {x}) \cap T = U \cap T /\ f[x] = 0
            BY <4>2
          <5>2. SumFunctionOnSet(f, U \cap T) \in Int
            BY <1>2, <3>3
          <5>3. SumFunctionOnSet(f, U \cap T) = SumFunctionOnSet(f, U \cap T) + 0
            BY <5>2
          <5> QED
            BY <5>1, <5>3
        <4> QED
          BY <4>1, <4>2
      <3>5. SumFunctionOnSet(f, U) = SumFunctionOnSet(f, U \cap T)
        BY <1>2
      <3> QED
        BY <3>2, <3>4, <3>5
    <2> QED
      BY <2>1, <2>2
  <1>3. S \in P
    <2> HIDE DEF P
    <2> QED
      BY <1>1, <1>2, SetInduction
  <1>4. S \cap T = T
    OBVIOUS
  <1> QED
    BY <1>3, <1>4

(* Zeros sum to 0.                                                         *)
LEMMA SumZero ==
    ASSUME NEW S, IsFiniteSet(S), NEW f, \A x \in S : f[x] = 0
    PROVE  SumFunctionOnSet(f, S) = 0
  <1>1. SumFunctionOnSet(f, S) = SumFunctionOnSet(f, {})
    <2>1. {} \in SUBSET S /\ \A x \in S : f[x] \in Int
      OBVIOUS
    <2> QED
      BY <2>1, SumOnSubset
  <1> QED
    BY <1>1, SumOfNone

(* One member counts otherwise.                                            *)
DifferAt(x, f, g, S) ==
    (\A y \in S : f[y] \in Int /\ g[y] \in Int) /\ (\A y \in S \ {x} : f[y] = g[y])

SumsDifferAt(x, f, g, S) ==
    SumFunctionOnSet(g, S) = SumFunctionOnSet(f, S) - f[x] + g[x]

LEMMA SumOneChanged ==
    ASSUME NEW S, IsFiniteSet(S), NEW f, NEW g, NEW x \in S, DifferAt(x, f, g, S)
    PROVE  SumsDifferAt(x, f, g, S)
  <1> DEFINE T == S \ {x}
             a == SumFunctionOnSet(f, S)
             b == SumFunctionOnSet(g, S)
             c == SumFunctionOnSet(f, T)
             d == SumFunctionOnSet(g, T)
  <1>1. IsFiniteSet(T) /\ T \in SUBSET S
    BY FS_Subset
  <1>2. a = f[x] + c /\ b = g[x] + d /\ a \in Int
    BY SumWithout DEF DifferAt
  <1>3. c \in Int /\ c = d
    <2>1. \A y \in T : f[y] \in Int /\ f[y] = g[y]
      BY DEF DifferAt
    <2> HIDE DEF T
    <2> QED
      BY <1>1, <2>1, SumSame, SumWithout
  <1>4. f[x] \in Int /\ g[x] \in Int
    BY DEF DifferAt
  <1> HIDE DEF a, b, c, d
  <1>5. b = a - f[x] + g[x]
    BY <1>2, <1>3, <1>4
  <1> QED
    BY <1>5 DEF a, b, SumsDifferAt

(* Of an index set of numbers, what is summed before it.                   *)
LEMMA SumOfFunction ==
    ASSUME NEW f
    PROVE  SumFunction(f) = SumFunctionOnSet(f, DOMAIN f)
  BY DEF SumFunction

(* Sums add up member by member.                                           *)
LEMMA SumPlus ==
    ASSUME NEW S, IsFiniteSet(S), NEW f, NEW g, NEW h,
           \A x \in S : f[x] \in Int /\ g[x] \in Int /\ h[x] = f[x] + g[x]
    PROVE  SumFunctionOnSet(h, S) = SumFunctionOnSet(f, S) + SumFunctionOnSet(g, S)
  <1> DEFINE P == {T \in SUBSET S :
                     SumFunctionOnSet(h, T) = SumFunctionOnSet(f, T) + SumFunctionOnSet(g, T)}
  <1>1. {} \in P
    BY SumOfNone
  <1>2. ASSUME NEW T \in SUBSET S, NEW x \in S, T \in P PROVE T \cup {x} \in P
    <2>1. CASE x \in T
      <3>1. T \cup {x} = T
        BY <2>1
      <3> QED
        BY <1>2, <3>1
    <2>2. CASE x \notin T
      <3>1. /\ IsFiniteSet(T)
            /\ \A y \in T \cup {x} : f[y] \in Int /\ g[y] \in Int /\ h[y] \in Int
        BY <1>2, FS_Subset
      <3>2. /\ SumFunctionOnSet(f, T \cup {x}) = SumFunctionOnSet(f, T) + f[x]
            /\ SumFunctionOnSet(g, T \cup {x}) = SumFunctionOnSet(g, T) + g[x]
            /\ SumFunctionOnSet(h, T \cup {x}) = SumFunctionOnSet(h, T) + h[x]
        BY <2>2, <3>1, SumWith
      <3>3. SumFunctionOnSet(f, T) \in Int /\ SumFunctionOnSet(g, T) \in Int
        BY <3>1, SumWithout
      <3>4. SumFunctionOnSet(h, T) = SumFunctionOnSet(f, T) + SumFunctionOnSet(g, T)
        BY <1>2
      <3>5. f[x] \in Int /\ g[x] \in Int /\ h[x] = f[x] + g[x]
        OBVIOUS
      <3> QED
        BY <3>2, <3>3, <3>4, <3>5
    <2> QED
      BY <2>1, <2>2
  <1>3. S \in P
    <2> HIDE DEF P
    <2> QED
      BY <1>1, <1>2, SetInduction
  <1> QED
    BY <1>3

(* The same number for every member.                                       *)
LEMMA SumOfSame ==
    ASSUME NEW S, IsFiniteSet(S), NEW k \in Nat, NEW f, \A x \in S : f[x] = k
    PROVE  SumFunctionOnSet(f, S) = k * Cardinality(S)
  <1> DEFINE P == {T \in SUBSET S : SumFunctionOnSet(f, T) = k * Cardinality(T)}
  <1>1. {} \in P
    BY SumOfNone, FS_EmptySet
  <1>2. ASSUME NEW T \in SUBSET S, NEW x \in S, T \in P PROVE T \cup {x} \in P
    <2>1. CASE x \in T
      <3>1. T \cup {x} = T
        BY <2>1
      <3> QED
        BY <1>2, <3>1
    <2>2. CASE x \notin T
      <3>1. IsFiniteSet(T) /\ \A y \in T \cup {x} : f[y] \in Int
        BY <1>2, FS_Subset
      <3>2. SumFunctionOnSet(f, T \cup {x}) = SumFunctionOnSet(f, T) + k
        BY <2>2, <3>1, SumWith
      <3>3. Cardinality(T \cup {x}) = Cardinality(T) + 1 /\ Cardinality(T) \in Nat
        BY <2>2, <3>1, FS_AddElement, FS_CardinalityType
      <3>4. SumFunctionOnSet(f, T) = k * Cardinality(T)
        BY <1>2
      <3> DEFINE c == Cardinality(T)
      <3>5. k * (c + 1) = k * c + k
        <4>1. c \in Nat
          BY <3>3
        <4> HIDE DEF c
        <4> QED
          BY <4>1
      <3> QED
        BY <3>2, <3>3, <3>4, <3>5
    <2> QED
      BY <2>1, <2>2
  <1>3. S \in P
    <2> HIDE DEF P
    <2> QED
      BY <1>1, <1>2, SetInduction
  <1> QED
    BY <1>3

-----------------------------------------------------------------------------
(* Sums and counts, sets and their injections.                            *)

(* A part sums to no more than the whole.                                  *)
LEMMA SumOfPart ==
    ASSUME NEW S, IsFiniteSet(S), NEW T \in SUBSET S, NEW f, \A x \in S : f[x] \in Nat
    PROVE  SumFunctionOnSet(f, T) <= SumFunctionOnSet(f, S)
  <1> DEFINE g == [x \in S |-> IF x \in T THEN f[x] ELSE 0]
  <1>1. \A x \in S : g[x] \in Int /\ f[x] \in Int /\ g[x] <= f[x]
    OBVIOUS
  <1>2. \A x \in S \ T : g[x] = 0
    OBVIOUS
  <1>3. \A x \in T : f[x] \in Int /\ f[x] = g[x]
    OBVIOUS
  <1>4. IsFiniteSet(T)
    BY FS_Subset
  <1> HIDE DEF g
  <1>5. SumFunctionOnSet(g, S) <= SumFunctionOnSet(f, S)
    BY <1>1, SumMonotone
  <1>6. SumFunctionOnSet(g, S) = SumFunctionOnSet(g, T)
    BY <1>1, <1>2, SumOnSubset
  <1>7. SumFunctionOnSet(f, T) = SumFunctionOnSet(g, T)
    BY <1>3, <1>4, SumSame
  <1> QED
    BY <1>5, <1>6, <1>7

(* What counts at least 1 each is no more than it sums to.                 *)
LEMMA CountBySum ==
    ASSUME NEW S, IsFiniteSet(S), NEW f, \A x \in S : f[x] \in Nat \ {0}
    PROVE  Cardinality(S) <= SumFunctionOnSet(f, S)
  <1> DEFINE g == [x \in S |-> 1]
  <1>1. \A x \in S : g[x] \in Int /\ f[x] \in Int /\ g[x] <= f[x]
    OBVIOUS
  <1>2. \A x \in S : g[x] = 1
    OBVIOUS
  <1> HIDE DEF g
  <1>3. SumFunctionOnSet(g, S) <= SumFunctionOnSet(f, S)
    BY <1>1, SumMonotone
  <1>4. SumFunctionOnSet(g, S) = 1 * Cardinality(S)
    BY <1>2, SumOfSame
  <1>5. Cardinality(S) \in Nat
    BY FS_CardinalityType
  <1> QED
    BY <1>3, <1>4, <1>5

(* A sum over names is the sum over what they name.                        *)
LEMMA SumRenamed ==
    ASSUME NEW S, IsFiniteSet(S), NEW id, \A x, y \in S : id[x] = id[y] => x = y,
           NEW f, NEW g, \A x \in S : f[x] \in Int /\ g[id[x]] = f[x]
    PROVE  SumFunctionOnSet(g, {id[x] : x \in S}) = SumFunctionOnSet(f, S)
  <1> DEFINE Image(T) == {id[x] : x \in T}
             P == {T \in SUBSET S : IsFiniteSet(Image(T))
                                    /\ SumFunctionOnSet(g, Image(T)) = SumFunctionOnSet(f, T)}
  <1>1. {} \in P
    <2>1. Image({}) = {}
      OBVIOUS
    <2> QED
      BY <2>1, SumOfNone, FS_EmptySet
  <1>2. ASSUME NEW T \in SUBSET S, NEW x \in S, T \in P PROVE T \cup {x} \in P
    <2>1. CASE x \in T
      <3>1. T \cup {x} = T
        BY <2>1
      <3> QED
        BY <1>2, <3>1
    <2>2. CASE x \notin T
      <3> DEFINE I == Image(T)
      <3>1. Image(T \cup {x}) = I \cup {id[x]}
        OBVIOUS
      <3>2. id[x] \notin I
        BY <2>2
      <3>3. IsFiniteSet(I) /\ SumFunctionOnSet(g, I) = SumFunctionOnSet(f, T)
        BY <1>2
      <3>4. \A b \in I \cup {id[x]} : g[b] \in Int
        OBVIOUS
      <3>5. IsFiniteSet(T) /\ \A y \in T \cup {x} : f[y] \in Int
        BY FS_Subset
      <3> HIDE DEF I
      <3>6. SumFunctionOnSet(g, I \cup {id[x]}) = SumFunctionOnSet(g, I) + g[id[x]]
        BY <3>2, <3>3, <3>4, SumWith
      <3>7. SumFunctionOnSet(f, T \cup {x}) = SumFunctionOnSet(f, T) + f[x]
        BY <2>2, <3>5, SumWith
      <3>8. IsFiniteSet(I \cup {id[x]})
        BY <3>3, FS_AddElement
      <3> HIDE DEF Image
      <3> QED
        BY <3>1, <3>3, <3>6, <3>7, <3>8
    <2> QED
      BY <2>1, <2>2
  <1>3. S \in P
    <2> HIDE DEF P
    <2> QED
      BY <1>1, <1>2, SetInduction
  <1> QED
    BY <1>3

(* A set goes injectively into one that is not smaller.                    *)
LEMMA FitsInto ==
    ASSUME NEW S, IsFiniteSet(S), NEW T, IsFiniteSet(T), Cardinality(S) <= Cardinality(T)
    PROVE  Injection(S, T) # {}
  <1> DEFINE P == {U \in SUBSET S : Injection(U, T) # {}}
  <1>1. {} \in P
    <2> DEFINE f == [x \in {} |-> x]
    <2>1. f \in Injection({}, T)
      BY DEF Injection, IsInjective
    <2> QED
      BY <2>1
  <1>2. ASSUME NEW U \in SUBSET S, NEW x \in S, U \in P PROVE U \cup {x} \in P
    <2>1. CASE x \in U
      <3>1. U \cup {x} = U
        BY <2>1
      <3> QED
        BY <1>2, <3>1
    <2>2. CASE x \notin U
      <3>1. PICK f \in Injection(U, T) : TRUE
        BY <1>2
      <3>2. f \in [U -> T] /\ \A y, z \in U : f[y] = f[z] => y = z
        BY <3>1 DEF Injection, IsInjective
      <3>3. \E t \in T : \A y \in U : f[y] # t
        <4>1. SUFFICES ASSUME \A t \in T : \E y \in U : f[y] = t PROVE FALSE
          OBVIOUS
        <4>2. f \in Surjection(U, T)
          BY <3>2, <4>1 DEF Surjection
        <4>3. IsFiniteSet(U)
          BY FS_Subset
        <4>4. Cardinality(T) <= Cardinality(U)
          BY <4>2, <4>3, FS_Surjection
        <4>5. Cardinality(U) < Cardinality(S)
          <5>1. Cardinality(U) <= Cardinality(S) /\ Cardinality(U) # Cardinality(S)
            BY <2>2, FS_Subset
          <5>2. Cardinality(U) \in Nat /\ Cardinality(S) \in Nat
            BY <4>3, FS_CardinalityType
          <5> QED
            BY <5>1, <5>2
        <4>6. Cardinality(U) \in Nat /\ Cardinality(S) \in Nat /\ Cardinality(T) \in Nat
          BY <4>3, FS_CardinalityType
        <4> QED
          BY <4>4, <4>5, <4>6
      <3>4. PICK t \in T : \A y \in U : f[y] # t
        BY <3>3
      <3> DEFINE g == [y \in U \cup {x} |-> IF y = x THEN t ELSE f[y]]
      <3>5. g \in [U \cup {x} -> T] /\ \A y, z \in U \cup {x} : g[y] = g[z] => y = z
        BY <2>2, <3>2, <3>4
      <3>6. g \in Injection(U \cup {x}, T)
        <4> HIDE DEF g
        <4> QED
          BY <3>5 DEF Injection, IsInjective
      <3> HIDE DEF g
      <3> QED
        BY <3>6
    <2> QED
      BY <2>1, <2>2
  <1>3. S \in P
    <2> HIDE DEF P
    <2> QED
      BY <1>1, <1>2, SetInduction
  <1> QED
    BY <1>3

(* Two families that pick members of T, each another, are no more than T.  *)
LEMMA PickedApart ==
    ASSUME NEW A, NEW B, NEW T, IsFiniteSet(T), NEW f \in [A -> T], NEW g \in [B -> T],
           \A x, y \in A : f[x] = f[y] => x = y,
           \A x, y \in B : g[x] = g[y] => x = y,
           \A x \in A, y \in B : f[x] # g[y]
    PROVE  /\ IsFiniteSet(A) /\ IsFiniteSet(B)
           /\ Cardinality(A) + Cardinality(B) <= Cardinality(T)
  <1> DEFINE R == {f[x] : x \in A}
             Q == {g[x] : x \in B}
  <1>1. R \in SUBSET T /\ Q \in SUBSET T /\ R \cup Q \in SUBSET T /\ R \cap Q = {}
    OBVIOUS
  <1>2. f \in Injection(A, R) /\ g \in Injection(B, Q)
    BY DEF Injection, IsInjective
  <1> HIDE DEF R, Q
  <1>3. IsFiniteSet(R) /\ IsFiniteSet(Q) /\ Cardinality(R \cup Q) <= Cardinality(T)
    BY <1>1, FS_Subset
  <1>4. IsFiniteSet(A) /\ Cardinality(A) <= Cardinality(R)
    BY <1>2, <1>3, FS_Injection
  <1>5. IsFiniteSet(B) /\ Cardinality(B) <= Cardinality(Q)
    BY <1>2, <1>3, FS_Injection
  <1>6. Cardinality(R \cup Q) = Cardinality(R) + Cardinality(Q) - 0
    BY <1>1, <1>3, FS_Union, FS_EmptySet
  <1>7. /\ Cardinality(A) \in Nat /\ Cardinality(B) \in Nat /\ Cardinality(R) \in Nat
        /\ Cardinality(Q) \in Nat /\ Cardinality(T) \in Nat
    BY <1>3, <1>4, <1>5, FS_CardinalityType
  <1> QED
    BY <1>3, <1>4, <1>5, <1>6, <1>7

-----------------------------------------------------------------------------
(* Gold and bags: there is a bag for everyone who drops.                   *)

(* What a bag counts, or no bag.                                           *)
GoldOf(bag) == IF bag = NoBag THEN 0 ELSE bag.gold

GoldIn(some) == [b \in Bags |-> GoldOf(some[b])]

LEMMA WealthIs == Wealth = SumFunction(purse) + SumFunction(GoldIn(bags))
  BY DEF Wealth, GoldIn, GoldOf

(* No bag is kept that holds nothing.                                      *)
NoneEmpty == \A b \in Bags : bags[b] # NoBag => ~ IsEmpty(bags[b])

MoneySound == GoodsSound /\ NoneEmpty /\ Wealth \in 0..MaxWealth

LEMMA MoneyBounds ==
    /\ IsFiniteSet(Bags) /\ IsFiniteSet(Pieces) /\ IsFiniteSet(Players)
    /\ IsFiniteSet(Creatures) /\ IsFiniteSet(Entities)
    /\ Players \cap Creatures = {}
    /\ MaxGold \in Nat /\ MaxRoll \in Nat /\ MaxWealth \in Nat
    /\ Cardinality(Bags) >= Cardinality(Pieces) + MaxWealth
  <1>1. IsFiniteSet(Entities)
    BY VitalsAssumption, FS_Union DEF Entities
  <1> QED
    BY <1>1, VitalsAssumption

LEMMA GoldIsNat ==
    ASSUME NEW some \in [Bags -> LootBag \cup {NoBag}]
    PROVE  /\ GoldIn(some) \in [Bags -> Nat]
           /\ DOMAIN GoldIn(some) = Bags
           /\ \A b \in Bags : GoldIn(some)[b] = GoldOf(some[b])
           /\ SumFunction(GoldIn(some)) = SumFunctionOnSet(GoldIn(some), Bags)
           /\ SumFunction(GoldIn(some)) \in Nat
  <1>1. GoldIn(some) \in [Bags -> Nat]
    BY MoneyBounds DEF GoldIn, GoldOf, LootBag
  <1>2. SumFunction(GoldIn(some)) = SumFunctionOnSet(GoldIn(some), Bags)
    BY <1>1, SumOfFunction
  <1>3. SumFunctionOnSet(GoldIn(some), Bags) \in Nat
    BY <1>1, SumNat, MoneyBounds
  <1> QED
    BY <1>1, <1>2, <1>3 DEF GoldIn

LEMMA PurseIsNat ==
    ASSUME NEW some \in [Players -> 0..MaxGold]
    PROVE  /\ SumFunction(some) = SumFunctionOnSet(some, Players)
           /\ SumFunction(some) \in Nat
  <1>1. \A p \in Players : some[p] \in Nat
    BY MoneyBounds
  <1>2. SumFunction(some) = SumFunctionOnSet(some, Players)
    BY SumOfFunction
  <1> QED
    BY <1>1, <1>2, SumNat, MoneyBounds

LEMMA RollIsNat ==
    ASSUME NEW dead \in SUBSET Entities, NEW roll \in Rolls(dead)
    PROVE  /\ roll \in [dead \cap Creatures -> Nat]
           /\ \A c \in dead \cap Creatures : roll[c] \in 0..MaxRoll
           /\ IsFiniteSet(dead \cap Creatures)
           /\ SumFunction(roll) = SumFunctionOnSet(roll, dead \cap Creatures)
           /\ SumFunction(roll) \in Nat
           /\ SumFunction(roll) <= MaxRoll * Cardinality(dead \cap Creatures)
           /\ Wealth + SumFunction(roll) <= MaxWealth
  <1> DEFINE S == dead \cap Creatures
             top == [c \in S |-> MaxRoll]
  <1>1. roll \in [S -> 0..MaxRoll] /\ Wealth + SumFunction(roll) <= MaxWealth
    BY DEF Rolls, Roll
  <1>2. IsFiniteSet(S) /\ MaxRoll \in Nat
    BY MoneyBounds, FS_Subset
  <1>3. SumFunction(roll) = SumFunctionOnSet(roll, S)
    BY <1>1, SumOfFunction
  <1>4. \A c \in S : top[c] \in Int /\ roll[c] \in Int /\ roll[c] <= top[c] /\ top[c] = MaxRoll
    BY <1>1, <1>2
  <1>5. \A c \in S : roll[c] \in Nat
    BY <1>1
  <1> HIDE DEF S, top
  <1>6. SumFunctionOnSet(roll, S) \in Nat
    BY <1>2, <1>5, SumNat
  <1>7. SumFunctionOnSet(roll, S) <= SumFunctionOnSet(top, S)
    BY <1>2, <1>4, SumMonotone
  <1>8. SumFunctionOnSet(top, S) = MaxRoll * Cardinality(S)
    BY <1>2, <1>4, SumOfSame
  <1>9. roll \in [S -> Nat]
    BY <1>1, <1>5
  <1> QED
    BY <1>1, <1>2, <1>3, <1>6, <1>7, <1>8, <1>9 DEF S

Dropping(dead, roll) == {e \in dead : ~ IsEmpty(Drops(e, roll))}

Free == {b \in Bags : bags[b] = NoBag}

(* Bags with pieces and dead players with pieces, against the pieces.      *)
LEMMA PiecesCountBags ==
    ASSUME GoodsSound, NEW dead \in SUBSET Entities
    PROVE  LET A == {b \in Bags : bags[b] # NoBag /\ bags[b].items # {}}
               B == {p \in dead \cap Players : carried[p] # {}}
           IN  /\ IsFiniteSet(A) /\ IsFiniteSet(B)
               /\ Cardinality(A) + Cardinality(B) <= Cardinality(Pieces)
  <1> DEFINE A == {b \in Bags : bags[b] # NoBag /\ bags[b].items # {}}
             B == {p \in dead \cap Players : carried[p] # {}}
             f == [b \in A |-> CHOOSE x \in bags[b].items : TRUE]
             g == [p \in B |-> CHOOSE x \in carried[p] : TRUE]
  <1>1. \A b \in A : f[b] \in bags[b].items /\ InBag(f[b], b) /\ b \in Bags
    BY DEF InBag
  <1>2. \A p \in B : g[p] \in carried[p] /\ p \in Players
    OBVIOUS
  <1>3. f \in [A -> Pieces]
    <2>1. \A b \in A : bags[b].items \subseteq Pieces
      BY DEF GoodsSound, GoodsTyped, LootBag
    <2> QED
      BY <1>1, <2>1
  <1>4. g \in [B -> Pieces]
    BY <1>2 DEF GoodsSound, GoodsTyped
  <1> HIDE DEF A, B, f, g
  <1>5. \A x, y \in A : f[x] = f[y] => x = y
    BY <1>1, <1>3 DEF GoodsSound, Apart
  <1>6. \A x, y \in B : g[x] = g[y] => x = y
    BY <1>2 DEF GoodsSound, Apart
  <1>7. \A x \in A, y \in B : f[x] # g[y]
    BY <1>1, <1>2 DEF GoodsSound, Apart
  <1>8. /\ IsFiniteSet(A) /\ IsFiniteSet(B)
        /\ Cardinality(A) + Cardinality(B) <= Cardinality(Pieces)
    BY <1>3, <1>4, <1>5, <1>6, <1>7, PickedApart, MoneyBounds
  <1> QED
    BY <1>8 DEF A, B

(* Bags without pieces and dead creatures that drop, against the gold.     *)
LEMMA GoldCountsBags ==
    ASSUME MoneySound, NEW dead \in SUBSET Entities, NEW roll \in Rolls(dead)
    PROVE  LET A == {b \in Bags : bags[b] # NoBag /\ bags[b].items = {}}
               B == {c \in dead \cap Creatures : roll[c] # 0}
           IN  /\ IsFiniteSet(A) /\ IsFiniteSet(B)
               /\ Cardinality(A) + Cardinality(B) <= MaxWealth
  <1> DEFINE A == {b \in Bags : bags[b] # NoBag /\ bags[b].items = {}}
             B == {c \in dead \cap Creatures : roll[c] # 0}
             gold == GoldIn(bags)
             C == dead \cap Creatures
  <1>1. bags \in [Bags -> LootBag \cup {NoBag}] /\ purse \in [Players -> 0..MaxGold]
    BY DEF MoneySound, GoodsSound, GoodsTyped
  <1>2. /\ \A b \in Bags : gold[b] \in Nat /\ gold[b] = GoldOf(bags[b])
        /\ SumFunction(gold) = SumFunctionOnSet(gold, Bags)
        /\ SumFunction(gold) \in Nat
    BY <1>1, GoldIsNat
  <1>3. \A b \in A : gold[b] \in Nat \ {0}
    BY <1>2 DEF MoneySound, NoneEmpty, IsEmpty, GoldOf
  <1>4. A \in SUBSET Bags /\ IsFiniteSet(A)
    BY MoneyBounds, FS_Subset
  <1>5. /\ \A c \in C : roll[c] \in Nat
        /\ IsFiniteSet(C)
        /\ SumFunction(roll) = SumFunctionOnSet(roll, C)
        /\ SumFunction(roll) \in Nat
        /\ Wealth + SumFunction(roll) <= MaxWealth
    <2> HIDE DEF gold, A, B
    <2>1. /\ roll \in [dead \cap Creatures -> Nat]
          /\ IsFiniteSet(dead \cap Creatures)
          /\ SumFunction(roll) = SumFunctionOnSet(roll, dead \cap Creatures)
          /\ SumFunction(roll) \in Nat
          /\ Wealth + SumFunction(roll) <= MaxWealth
      BY RollIsNat
    <2> QED
      BY <2>1
  <1>6. B \in SUBSET C /\ IsFiniteSet(B)
    BY <1>5, FS_Subset
  <1>7. \A c \in B : roll[c] \in Nat \ {0}
    BY <1>5
  <1> HIDE DEF A, B, C, gold
  <1>8. Cardinality(A) <= SumFunctionOnSet(gold, A) /\ SumFunctionOnSet(gold, A) \in Nat
    BY <1>3, <1>4, CountBySum, SumNat
  <1>9. SumFunctionOnSet(gold, A) <= SumFunctionOnSet(gold, Bags)
    BY <1>2, <1>4, SumOfPart, MoneyBounds
  <1>10. Cardinality(B) <= SumFunctionOnSet(roll, B) /\ SumFunctionOnSet(roll, B) \in Nat
    BY <1>6, <1>7, CountBySum, SumNat
  <1>11. SumFunctionOnSet(roll, B) <= SumFunctionOnSet(roll, C)
    BY <1>5, <1>6, SumOfPart
  <1>12. Wealth = SumFunction(purse) + SumFunction(gold) /\ SumFunction(purse) \in Nat
    BY <1>1, WealthIs, PurseIsNat DEF gold
  <1>13. Cardinality(A) \in Nat /\ Cardinality(B) \in Nat /\ MaxWealth \in Nat
    BY <1>4, <1>6, FS_CardinalityType, MoneyBounds
  <1> DEFINE s == SumFunction(gold)
             r == SumFunction(roll)
             u == SumFunction(purse)
             sA == SumFunctionOnSet(gold, A)
             rB == SumFunctionOnSet(roll, B)
  <1>14. /\ s \in Nat /\ r \in Nat /\ u \in Nat /\ sA \in Nat /\ rB \in Nat
         /\ Cardinality(A) <= sA /\ sA <= s /\ Cardinality(B) <= rB /\ rB <= r
         /\ (u + s) + r <= MaxWealth
    BY <1>2, <1>5, <1>8, <1>9, <1>10, <1>11, <1>12
  <1> HIDE DEF s, r, u, sA, rB
  <1>15. Cardinality(A) + Cardinality(B) <= MaxWealth
    BY <1>13, <1>14
  <1> QED
    BY <1>4, <1>6, <1>15 DEF A, B

(* There is a bag for everyone who drops.                                  *)
LEMMA EnoughBags ==
    ASSUME MoneySound, NEW dead \in SUBSET Entities, NEW roll \in Rolls(dead)
    PROVE  Injection(Dropping(dead, roll), Free) # {}
  <1> DEFINE A == {b \in Bags : bags[b] # NoBag /\ bags[b].items # {}}
             B == {p \in dead \cap Players : carried[p] # {}}
             C == {b \in Bags : bags[b] # NoBag /\ bags[b].items = {}}
             D == {c \in dead \cap Creatures : roll[c] # 0}
             E == Dropping(dead, roll)
  <1>1. /\ IsFiniteSet(A) /\ IsFiniteSet(B)
        /\ Cardinality(A) + Cardinality(B) <= Cardinality(Pieces)
    BY PiecesCountBags DEF MoneySound
  <1>2. /\ IsFiniteSet(C) /\ IsFiniteSet(D)
        /\ Cardinality(C) + Cardinality(D) <= MaxWealth
    BY GoldCountsBags
  <1>3. Free = Bags \ (A \cup C) /\ A \cup C \in SUBSET Bags /\ A \cap C = {}
    BY DEF Free
  <1>4. E = B \cup D /\ B \cap D = {}
    <2>1. B \cap D = {}
      BY MoneyBounds
    <2>2. ASSUME NEW e \in dead PROVE e \in E <=> e \in B \cup D
      <3>1. CASE e \in Players
        <4>1. Drops(e, roll) = [gold |-> 0, items |-> carried[e], due |-> FALSE]
          BY <3>1, MoneyBounds DEF Drops
        <4> QED
          BY <3>1, <4>1, MoneyBounds DEF Dropping, IsEmpty
      <3>2. CASE e \in Creatures
        <4>1. Drops(e, roll) = [gold |-> roll[e], items |-> {}, due |-> FALSE]
          BY <3>2, MoneyBounds DEF Drops
        <4> QED
          BY <3>2, <4>1, MoneyBounds DEF Dropping, IsEmpty
      <3> QED
        BY <3>1, <3>2 DEF Entities
    <2>3. E \subseteq dead /\ B \cup D \subseteq dead
      BY DEF Dropping
    <2> QED
      BY <2>1, <2>2, <2>3
  <1> HIDE DEF A, B, C, D, E
  <1>5. /\ IsFiniteSet(A \cup C) /\ Cardinality(A \cup C) = Cardinality(A) + Cardinality(C) - 0
        /\ IsFiniteSet(E) /\ Cardinality(E) = Cardinality(B) + Cardinality(D) - 0
    BY <1>1, <1>2, <1>3, <1>4, FS_Union, FS_EmptySet
  <1>6. IsFiniteSet(Free) /\ Cardinality(Free) = Cardinality(Bags) - Cardinality(A \cup C)
    <2>1. Bags \cap (A \cup C) = A \cup C
      BY <1>3
    <2> QED
      BY <1>3, <2>1, FS_Difference, MoneyBounds
  <1>7. /\ Cardinality(A) \in Nat /\ Cardinality(B) \in Nat /\ Cardinality(C) \in Nat
        /\ Cardinality(D) \in Nat /\ Cardinality(Bags) \in Nat /\ Cardinality(Pieces) \in Nat
        /\ MaxWealth \in Nat /\ Cardinality(Bags) >= Cardinality(Pieces) + MaxWealth
    BY <1>1, <1>2, FS_CardinalityType, MoneyBounds
  <1>8. Cardinality(E) <= Cardinality(Free)
    BY <1>1, <1>2, <1>5, <1>6, <1>7
  <1> QED
    BY <1>5, <1>6, <1>8, FitsInto DEF E

-----------------------------------------------------------------------------
(* What a death drops.                                                     *)

LEMMA WealthIsNext == Wealth' = SumFunction(purse') + SumFunction(GoldIn(bags'))
  BY DEF Wealth, GoldIn, GoldOf

(* Who drops gets a free bag of its own; every other bag is as it stays.   *)
LEMMA EachToItsBag ==
    ASSUME MoneySound, NEW stay, NEW dead \in SUBSET Entities, NEW roll \in Rolls(dead)
    PROVE  \E id \in Injection(Dropping(dead, roll), Free) :
             /\ \A e \in Dropping(dead, roll) : BagsAfter(stay, dead, roll)[id[e]] = Drops(e, roll)
             /\ \A b \in Bags : (\A e \in Dropping(dead, roll) : id[e] # b)
                                  => BagsAfter(stay, dead, roll)[b] = stay[b]
  <1> DEFINE dropping == {e \in dead : ~ IsEmpty(Drops(e, roll))}
             free == {b \in Bags : bags[b] = NoBag}
             id == CHOOSE f \in Injection(dropping, free) : TRUE
             whose(b) == CHOOSE e \in dropping : id[e] = b
             after == BagsAfter(stay, dead, roll)
  <1>1. dropping = Dropping(dead, roll) /\ free = Free
    BY DEF Dropping, Free
  <1>2. \A b \in Bags : after[b] = IF \E e \in dropping : id[e] = b
                                   THEN Drops(whose(b), roll) ELSE stay[b]
    BY DEF BagsAfter
  <1> HIDE DEF dropping, free, after
  <1>3. id \in Injection(dropping, free)
    BY <1>1, EnoughBags
  <1> HIDE DEF id
  <1>4. \A e, d \in dropping : id[e] = id[d] => e = d
    BY <1>3 DEF Injection, IsInjective
  <1>5. \A e \in dropping : id[e] \in Bags
    BY <1>3 DEF Injection, free
  <1>6. ASSUME NEW e \in dropping PROVE after[id[e]] = Drops(e, roll)
    <2>1. whose(id[e]) \in dropping /\ id[whose(id[e])] = id[e]
      OBVIOUS
    <2>2. whose(id[e]) = e
      BY <1>4, <2>1
    <2> QED
      BY <1>2, <1>5, <2>2
  <1>7. ASSUME NEW b \in Bags, \A e \in dropping : id[e] # b PROVE after[b] = stay[b]
    BY <1>2, <1>7
  <1> QED
    BY <1>1, <1>3, <1>6, <1>7 DEF after

(* What a drop does to the gold: it adds what is rolled, and may lose the  *)
(* gold of the bags that do not stay.                                      *)
GoldGrows(before, after, roll) ==
    /\ SumFunction(GoldIn(after)) <= SumFunction(GoldIn(before)) + SumFunction(roll)
    /\ SumFunction(GoldIn(after)) \in Nat

LEMMA DropGold ==
    ASSUME MoneySound, NEW stay \in [Bags -> LootBag \cup {NoBag}],
           \A b \in Bags : stay[b] \in {bags[b], NoBag},
           NEW dead \in SUBSET Entities, NEW roll \in Rolls(dead),
           NEW after \in [Bags -> LootBag \cup {NoBag}], after = BagsAfter(stay, dead, roll)
    PROVE  GoldGrows(bags, after, roll)
  <1> DEFINE S == Dropping(dead, roll)
             C == dead \cap Creatures
             f == [e \in dead |-> IF e \in C THEN roll[e] ELSE 0]
             old == GoldIn(bags)
             new == GoldIn(after)
  <1>1. PICK id \in Injection(S, Free) :
             /\ \A e \in S : after[id[e]] = Drops(e, roll)
             /\ \A b \in Bags : (\A e \in S : id[e] # b) => after[b] = stay[b]
    BY EachToItsBag
  <1> DEFINE I == {id[e] : e \in S}
             g == [b \in Bags |-> IF b \in I THEN new[b] ELSE 0]
             h == [b \in Bags |-> old[b] + g[b]]
  <1>2. /\ bags \in [Bags -> LootBag \cup {NoBag}]
    BY DEF MoneySound, GoodsSound, GoodsTyped
  <1>3. /\ old \in [Bags -> Nat] /\ \A b \in Bags : old[b] = GoldOf(bags[b])
        /\ SumFunction(old) = SumFunctionOnSet(old, Bags)
        /\ SumFunction(old) \in Nat
    BY <1>2, GoldIsNat
  <1>4. /\ new \in [Bags -> Nat] /\ \A b \in Bags : new[b] = GoldOf(after[b])
        /\ SumFunction(new) = SumFunctionOnSet(new, Bags)
        /\ SumFunction(new) \in Nat
    BY GoldIsNat
  <1>5. /\ roll \in [C -> Nat] /\ IsFiniteSet(C)
        /\ SumFunction(roll) = SumFunctionOnSet(roll, C)
        /\ SumFunction(roll) \in Nat
    <2> HIDE DEF f, old, new, S, I, g, h
    <2> QED
      BY RollIsNat
  <1>6. /\ \A e, d \in S : id[e] = id[d] => e = d
        /\ \A e \in S : id[e] \in Free
    BY <1>1 DEF Injection, IsInjective
  <1>7. /\ \A b \in I : b \in Bags /\ old[b] = 0
        /\ I \in SUBSET Bags
    <2>1. \A b \in Free : b \in Bags /\ old[b] = 0
      BY <1>3 DEF Free, GoldOf
    <2> QED
      BY <1>6, <2>1
  <1>8. S \in SUBSET dead /\ IsFiniteSet(dead) /\ IsFiniteSet(S) /\ C \in SUBSET dead
    <2>1. S \in SUBSET dead
      BY DEF Dropping
    <2> QED
      BY <2>1, MoneyBounds, FS_Subset
  <1>9. \A e \in dead : f[e] \in Nat
    BY <1>5
  <1>10. \A e \in S : f[e] \in Int /\ g[id[e]] = f[e]
    <2>1. TAKE e \in S
    <2>2. e \in dead /\ id[e] \in I /\ id[e] \in Bags
      BY <1>7, <1>8
    <2>3. g[id[e]] = GoldOf(after[id[e]]) /\ after[id[e]] = Drops(e, roll)
      BY <1>1, <1>4, <2>2
    <2>4. after[id[e]] # NoBag
      <3>1. Drops(e, roll).gold = f[e] /\ Drops(e, roll).due = FALSE
        BY <2>2 DEF Drops
      <3>2. e \in dead
        BY <2>2
      <3>3. Drops(e, roll) \in LootBag
        <4>1. (IF e \in Creatures THEN roll[e] ELSE 0) \in 0..MaxRoll
          <5>1. \A c \in C : roll[c] \in 0..MaxRoll
            BY RollIsNat
          <5>2. 0 \in 0..MaxRoll
            BY MoneyBounds
          <5> QED
            BY <2>2, <5>1, <5>2
        <4>2. (IF e \in Players THEN carried[e] ELSE {}) \in SUBSET Pieces
          BY DEF MoneySound, GoodsSound, GoodsTyped
        <4> QED
          BY <4>1, <4>2 DEF Drops, LootBag
      <3> QED
        BY <2>3, <3>3, NoBagIsNoLootBag
    <2>5. Drops(e, roll).gold = f[e]
      BY <2>2 DEF Drops
    <2>6. f[e] \in Int
      BY <1>9, <2>2
    <2> QED
      BY <2>3, <2>4, <2>5, <2>6 DEF GoldOf
  <1>11. \A b \in Bags : new[b] <= h[b] /\ new[b] \in Int /\ h[b] \in Int
    <2>1. TAKE b \in Bags
    <2>2. CASE b \in I
      <3>1. h[b] = old[b] + new[b] /\ old[b] = 0 /\ new[b] \in Nat
        BY <1>4, <1>7, <2>2
      <3> QED
        BY <3>1
    <2>3. CASE b \notin I
      <3>1. after[b] = stay[b] /\ stay[b] \in {bags[b], NoBag}
        BY <1>1, <2>3
      <3>2. h[b] = old[b] + 0 /\ new[b] = GoldOf(after[b]) /\ old[b] = GoldOf(bags[b])
        BY <1>3, <1>4, <2>3
      <3>3. old[b] \in Nat /\ new[b] \in Nat
        BY <1>3, <1>4
      <3>4. new[b] = 0 \/ new[b] = old[b]
        BY <3>1, <3>2 DEF GoldOf
      <3> HIDE DEF h, old, new
      <3> QED
        BY <3>2, <3>3, <3>4
    <2> QED
      BY <2>2, <2>3
  <1>12. \A b \in Bags : old[b] \in Int /\ g[b] \in Int /\ h[b] = old[b] + g[b]
    BY <1>3, <1>4
  <1>13. \A b \in Bags \ I : g[b] = 0
    OBVIOUS
  <1>14. \A e \in C : f[e] = roll[e] /\ f[e] \in Int
    BY <1>5, <1>8
  <1>15. IsFiniteSet(Bags)
    BY MoneyBounds
  <1> HIDE DEF f, g, h, old, new, S, C
  <1>16. SumFunctionOnSet(new, Bags) <= SumFunctionOnSet(h, Bags)
    BY <1>11, <1>15, SumMonotone
  <1>17. SumFunctionOnSet(h, Bags) = SumFunctionOnSet(old, Bags) + SumFunctionOnSet(g, Bags)
    BY <1>12, <1>15, SumPlus
  <1>18. SumFunctionOnSet(g, Bags) = SumFunctionOnSet(g, I)
    <2> HIDE DEF I
    <2> QED
      BY <1>7, <1>12, <1>13, <1>15, SumOnSubset
  <1>19. SumFunctionOnSet(g, I) = SumFunctionOnSet(f, S)
    BY <1>6, <1>8, <1>10, SumRenamed
  <1>20. SumFunctionOnSet(f, S) <= SumFunctionOnSet(f, dead)
    BY <1>8, <1>9, SumOfPart
  <1>21. SumFunctionOnSet(f, dead) = SumFunctionOnSet(f, C)
    <2>1. \A e \in dead \ C : f[e] = 0
      BY DEF f
    <2>2. \A e \in dead : f[e] \in Int
      BY <1>9
    <2> QED
      BY <1>8, <2>1, <2>2, SumOnSubset
  <1>22. SumFunctionOnSet(f, C) = SumFunctionOnSet(roll, C)
    BY <1>5, <1>14, SumSame
  <1>23. SumFunctionOnSet(new, Bags) <= SumFunctionOnSet(old, Bags) + SumFunctionOnSet(roll, C)
    <2> DEFINE a == SumFunctionOnSet(new, Bags)
               b == SumFunctionOnSet(old, Bags)
               c == SumFunctionOnSet(f, S)
               d == SumFunctionOnSet(roll, C)
    <2>1. a \in Nat /\ b \in Nat /\ d \in Nat
      BY <1>3, <1>4, <1>5
    <2>2. c \in Nat
      <3>1. \A e \in S : f[e] \in Nat
        BY <1>8, <1>9
      <3> QED
        BY <1>8, <3>1, SumNat
    <2>3. a <= b + c /\ c <= d
      BY <1>16, <1>17, <1>18, <1>19, <1>20, <1>21, <1>22
    <2> HIDE DEF a, b, c, d
    <2>4. a <= b + d
      BY <2>1, <2>2, <2>3
    <2> QED
      BY <2>4 DEF a, b, d
  <1>24. /\ SumFunction(new) <= SumFunction(old) + SumFunction(roll)
         /\ SumFunction(new) \in Nat
    BY <1>3, <1>4, <1>5, <1>23
  <1> QED
    BY <1>24 DEF GoldGrows, old, new

LEMMA DropMoney ==
    ASSUME MoneySound, NEW stay \in [Bags -> LootBag \cup {NoBag}],
           \A b \in Bags : stay[b] \in {bags[b], NoBag},
           NEW dead \in SUBSET Entities, NEW roll \in Rolls(dead),
           bags' = BagsAfter(stay, dead, roll), carried' = CarriedAfter(dead), purse' = purse
    PROVE  /\ NoneEmpty'
           /\ Wealth' \in 0..MaxWealth
           /\ Wealth' <= Wealth + SumFunction(roll)
           /\ \A x \in Pieces : Held(x) /\ ~ Held(x)' =>
                \E b \in Bags : InBag(x, b) /\ stay[b] = NoBag
  <1> DEFINE S == Dropping(dead, roll)
  <1>1. bags' \in [Bags -> LootBag \cup {NoBag}]
    BY DropSound DEF MoneySound
  <1>2. GoldGrows(bags, bags', roll)
    BY <1>1, DropGold
  <1>3. /\ Wealth = SumFunction(purse) + SumFunction(GoldIn(bags))
        /\ Wealth' = SumFunction(purse) + SumFunction(GoldIn(bags'))
    BY WealthIs, WealthIsNext
  <1>4. SumFunction(purse) \in Nat /\ SumFunction(GoldIn(bags)) \in Nat
    BY PurseIsNat, GoldIsNat DEF MoneySound, GoodsSound, GoodsTyped
  <1>5. SumFunction(roll) \in Nat /\ Wealth + SumFunction(roll) <= MaxWealth
    BY RollIsNat
  <1>6. Wealth' \in 0..MaxWealth /\ Wealth' <= Wealth + SumFunction(roll)
    <2> DEFINE p == SumFunction(purse)
               a == SumFunction(GoldIn(bags))
               b == SumFunction(GoldIn(bags'))
               r == SumFunction(roll)
    <2>1. /\ p \in Nat /\ a \in Nat /\ b \in Nat /\ r \in Nat /\ b <= a + r
          /\ (p + a) + r <= MaxWealth /\ Wealth = p + a /\ Wealth' = p + b
      BY <1>2, <1>3, <1>4, <1>5 DEF GoldGrows
    <2> HIDE DEF p, a, b, r
    <2>2. MaxWealth \in Nat
      BY MoneyBounds
    <2>3. p + b \in 0..MaxWealth /\ p + b <= (p + a) + r
      BY <2>1, <2>2
    <2> QED
      BY <2>1, <2>3 DEF r
  <1>7. PICK id \in Injection(S, Free) :
             /\ \A e \in S : bags'[id[e]] = Drops(e, roll)
             /\ \A b \in Bags : (\A e \in S : id[e] # b) => bags'[b] = stay[b]
    BY EachToItsBag
  <1>8. \A e \in S : id[e] \in Free
    BY <1>7 DEF Injection
  <1>9. NoneEmpty'
    <2>1. ASSUME NEW b \in Bags, bags'[b] # NoBag PROVE ~ IsEmpty(bags'[b])
      <3>1. CASE \E e \in S : id[e] = b
        BY <1>7, <3>1 DEF Dropping
      <3>2. CASE \A e \in S : id[e] # b
        BY <1>7, <2>1, <3>2 DEF MoneySound, NoneEmpty
      <3> QED
        BY <3>1, <3>2
    <2> QED
      BY <2>1 DEF NoneEmpty, IsEmpty
  <1>10. ASSUME NEW x \in Pieces, Held(x), ~ Held(x)'
         PROVE  \E b \in Bags : InBag(x, b) /\ stay[b] = NoBag
    <2>1. ASSUME NEW p \in Players, x \in carried[p] PROVE FALSE
      <3>1. p \in dead
        BY <1>10, <2>1 DEF CarriedAfter, Held
      <3>2. Drops(p, roll).items = carried[p]
        BY DEF Drops
      <3>3. p \in S
        BY <2>1, <3>1, <3>2 DEF Dropping, IsEmpty
      <3>4. bags'[id[p]] = Drops(p, roll) /\ id[p] \in Bags
        BY <1>7, <1>8, <3>3 DEF Free
      <3>5. Drops(p, roll) # NoBag
        <4>1. Drops(p, roll) \in LootBag
          <5>1. p \notin Creatures
            BY MoneyBounds
          <5>2. carried[p] \in SUBSET Pieces
            BY DEF MoneySound, GoodsSound, GoodsTyped
          <5>3. Drops(p, roll) = [gold |-> 0, items |-> carried[p], due |-> FALSE]
            BY <5>1 DEF Drops
          <5> QED
            BY <5>2, <5>3, MoneyBounds DEF LootBag
        <4> QED
          BY <4>1, NoBagIsNoLootBag
      <3>6. x \in bags'[id[p]].items /\ bags'[id[p]] # NoBag
        BY <2>1, <3>2, <3>4, <3>5
      <3> QED
        BY <1>10, <3>4, <3>6 DEF Held
    <2>2. PICK b \in Bags : bags[b] # NoBag /\ x \in bags[b].items
      BY <1>10, <2>1 DEF Held
    <2>3. \A e \in S : id[e] # b
      BY <1>8, <2>2 DEF Free
    <2>4. bags'[b] = stay[b]
      BY <1>7, <2>3
    <2>5. bags'[b] = NoBag
      BY <1>10, <2>2, <2>4 DEF Held
    <2> QED
      BY <2>2, <2>4, <2>5 DEF InBag
  <1> QED
    BY <1>6, <1>9, <1>10

-----------------------------------------------------------------------------
(* What each step does to the gold, and to who holds what.                 *)

(* Who died in this step.                                                  *)
Killed == {c \in Creatures : vitals[c].state # "Dead" /\ vitals'[c].state = "Dead"}

(* What the three properties of gold and pieces ask of a step.             *)
GoldPaid == Wealth' <= Wealth + MaxRoll * Cardinality(Killed)

OnlyCrumbled ==
    \A x \in Pieces : Held(x) /\ ~ Held(x)' =>
        \E b \in Bags : bags[b] # NoBag /\ bags[b].due /\ x \in bags[b].items

Settled == NoneEmpty' /\ Wealth' \in 0..MaxWealth /\ GoldPaid /\ OnlyCrumbled

LEMMA KilledAreFew ==
    /\ IsFiniteSet(Killed) /\ Cardinality(Killed) \in Nat
    /\ MaxRoll * Cardinality(Killed) \in Nat
  <1>1. Killed \in SUBSET Creatures
    BY DEF Killed
  <1>2. IsFiniteSet(Killed)
    BY <1>1, MoneyBounds, FS_Subset
  <1>3. Cardinality(Killed) \in Nat
    BY <1>2, FS_CardinalityType
  <1> DEFINE n == Cardinality(Killed)
  <1> HIDE DEF n
  <1>4. n \in Nat => MaxRoll * n \in Nat
    BY MoneyBounds
  <1> QED
    BY <1>2, <1>3, <1>4 DEF n

(* More dead, more gold.                                                   *)
LEMMA TimesGrows ==
    ASSUME NEW k \in Nat, NEW m \in Nat, NEW n \in Nat, m <= n
    PROVE  k * m <= k * n
  <1>1. PICK d \in Nat : n = m + d
    <2>1. n - m \in Nat /\ n = m + (n - m)
      OBVIOUS
    <2> QED
      BY <2>1
  <1>2. k * (m + d) = k * m + k * d /\ k * d \in Nat /\ k * m \in Nat
    OBVIOUS
  <1> QED
    BY <1>1, <1>2

(* Nothing is paid and nothing lost where gold and holders stay.           *)
LEMMA NothingPaid ==
    ASSUME MoneySound, NoneEmpty', Wealth' = Wealth, \A x \in Pieces : Held(x) => Held(x)'
    PROVE  Settled
  <1>1. Wealth \in Nat /\ Wealth \in 0..MaxWealth
    BY MoneyBounds DEF MoneySound
  <1>2. GoldPaid
    <2> DEFINE n == MaxRoll * Cardinality(Killed)
               w == Wealth
               v == Wealth'
    <2>1. n \in Nat /\ w \in Nat /\ v = w
      BY <1>1, KilledAreFew
    <2> HIDE DEF n, w, v
    <2>2. v <= w + n
      BY <2>1
    <2> QED
      BY <2>2 DEF GoldPaid, n, w, v
  <1> QED
    BY <1>1, <1>2 DEF Settled, OnlyCrumbled

(* A drop pays what the dead creatures rolled, if they died in this step.  *)
LEMMA DropSettles ==
    ASSUME MoneySound, NEW stay \in [Bags -> LootBag \cup {NoBag}],
           \A b \in Bags : stay[b] \in {bags[b], NoBag},
           \A b \in Bags : bags[b] # NoBag /\ stay[b] = NoBag => bags[b].due,
           NEW dead \in SUBSET Entities, NEW roll \in Rolls(dead),
           bags' = BagsAfter(stay, dead, roll), carried' = CarriedAfter(dead), purse' = purse,
           dead \cap Creatures \subseteq Killed
    PROVE  Settled
  <1>1. /\ NoneEmpty' /\ Wealth' \in 0..MaxWealth
        /\ Wealth' <= Wealth + SumFunction(roll)
        /\ \A x \in Pieces : Held(x) /\ ~ Held(x)' =>
             \E b \in Bags : InBag(x, b) /\ stay[b] = NoBag
    BY DropMoney
  <1>2. OnlyCrumbled
    BY <1>1 DEF OnlyCrumbled, InBag
  <1>3. /\ SumFunction(roll) \in Nat
        /\ SumFunction(roll) <= MaxRoll * Cardinality(dead \cap Creatures)
        /\ IsFiniteSet(dead \cap Creatures)
    BY RollIsNat
  <1>4. Cardinality(dead \cap Creatures) \in Nat
        /\ Cardinality(dead \cap Creatures) <= Cardinality(Killed)
    BY <1>3, KilledAreFew, FS_Subset, FS_CardinalityType
  <1>5. MaxRoll * Cardinality(dead \cap Creatures) <= MaxRoll * Cardinality(Killed)
    BY <1>4, KilledAreFew, TimesGrows, MoneyBounds
  <1>6. MaxRoll * Cardinality(dead \cap Creatures) \in Nat
    <2> DEFINE n == Cardinality(dead \cap Creatures)
    <2> HIDE DEF n
    <2>1. n \in Nat => MaxRoll * n \in Nat
      BY MoneyBounds
    <2> QED
      BY <1>4, <2>1 DEF n
  <1>7. GoldPaid
    <2> DEFINE n == MaxRoll * Cardinality(dead \cap Creatures)
               m == MaxRoll * Cardinality(Killed)
               r == SumFunction(roll)
               w == Wealth
               v == Wealth'
    <2>1. n \in Nat /\ m \in Nat /\ n <= m /\ r \in Nat /\ r <= n /\ v <= w + r
      BY <1>1, <1>3, <1>5, <1>6, KilledAreFew
    <2>2. v \in Int /\ w \in Int
      BY <1>1, MoneyBounds DEF MoneySound
    <2> HIDE DEF n, m, r, w, v
    <2>3. v <= w + m
      BY <2>1, <2>2
    <2> QED
      BY <2>3 DEF GoldPaid, m, w, v
  <1> QED
    BY <1>1, <1>2, <1>7 DEF Settled

(* A creature that dies in a tick does not come back in it.                *)
LEMMA FreshCorpse ==
    ASSUME NEW e \in Creatures, NEW v \in SoundRow, v.state # "Dead", NEW fires \in Due,
           NEW reaped, reaped = reap_the_dead(e, tick_periodic_effects(e, v, fires)),
           reaped.state = "Dead"
    PROVE  /\ tick_respawns(e, reaped).state = "Dead"
           /\ expire_stale_presence(tick_respawns(e, reaped)).state = "Dead"
  <1> DEFINE burnt == tick_periodic_effects(e, v, fires)
             back == tick_respawns(e, reaped)
  <1>1. ASSUME NEW w \in EntityRow
        PROVE  kill(e, w).respawnIn = RespawnTicks /\ kill(e, w) \in EntityRow
    <2> DEFINE pace == IF e \in Players /\ carried[e] # {} THEN Derived(w) ELSE w.speed
    <2>1. kill(e, w) = [w EXCEPT !.state = "Dead", !.walking = FALSE,
                                 !.respawnIn = RespawnTicks, !.speed = pace]
      BY DEF kill
    <2>2. pace \in {"full", "halved"}
      BY DEF Derived, EntityRow
    <2> HIDE DEF pace
    <2>3. RespawnTicks \in 0..RespawnTicks
      BY Bounds
    <2> QED
      BY <2>1, <2>2, <2>3 DEF EntityRow
  <1>2. v \in EntityRow /\ v.health \in 0..MaxHealth
    BY DEF SoundRow, EntityRow
  <1> DEFINE Fresh(w) == w \in EntityRow /\ (w.state = "Dead" => w.respawnIn = RespawnTicks)
  <1>3. Fresh(burnt)
    <2>1. ASSUME NEW w, Fresh(w), NEW effect
          PROVE  Fresh(fire(e, w, effect))
      <3>1. CASE w.state = "Dead" \/ fire(e, w, effect) = w
        BY <2>1, <3>1 DEF fire, apply_damage, apply_healing
      <3>2. CASE w.state # "Dead" /\ fire(e, w, effect) = apply_damage(e, w, 1)
        <4> DEFINE left == IF w.health > 1 THEN w.health - 1 ELSE 0
                   hurt == [w EXCEPT !.health = left]
        <4>1. fire(e, w, effect) = IF left = 0 THEN kill(e, hurt) ELSE hurt
          BY <3>2 DEF apply_damage
        <4>2. left \in 0..MaxHealth
          <5>1. w.health \in 0..MaxHealth
            BY <2>1 DEF EntityRow
          <5> QED
            BY <5>1, Bounds
        <4> HIDE DEF left
        <4>3. hurt \in EntityRow /\ hurt.state = w.state
          BY <2>1, <4>2 DEF EntityRow
        <4> HIDE DEF hurt
        <4> QED
          BY <1>1, <3>2, <4>1, <4>3
      <3>3. CASE w.state # "Dead" /\ fire(e, w, effect) = apply_healing(w, 1)
        <4> DEFINE more == IF w.health + 1 < MaxHealth THEN w.health + 1 ELSE MaxHealth
        <4>1. fire(e, w, effect) = [w EXCEPT !.health = more]
          BY <3>3 DEF apply_healing
        <4>2. more \in 0..MaxHealth
          <5>1. w.health \in 0..MaxHealth
            BY <2>1 DEF EntityRow
          <5> QED
            BY <5>1, Bounds
        <4> HIDE DEF more
        <4> QED
          BY <2>1, <3>3, <4>1, <4>2 DEF EntityRow
      <3> QED
        BY <3>1, <3>2, <3>3 DEF fire
    <2>2. Fresh(v)
      BY <1>2
    <2> HIDE DEF Fresh
    <2> QED
      BY <2>1, <2>2 DEF tick_periodic_effects
  <1> HIDE DEF burnt
  <1>4. reaped \in EntityRow /\ reaped.respawnIn = RespawnTicks
    <2>1. reaped = IF burnt.state # "Dead" /\ burnt.health = 0 THEN kill(e, burnt) ELSE burnt
      BY DEF reap_the_dead, burnt
    <2> QED
      BY <1>1, <1>3, <2>1
  <1>5. reaped.respawnIn > 1 /\ e \notin Players
    BY <1>4, Bounds
  <1>6. back = [reaped EXCEPT !.respawnIn = @ - 1]
    BY <1>5 DEF tick_respawns
  <1>7. back.state = "Dead"
    BY <1>4, <1>6 DEF EntityRow
  <1>8. back = [reaped EXCEPT !.respawnIn = reaped.respawnIn - 1]
    BY <1>6
  <1>9. expire_stale_presence(back).state = "Dead"
    BY <1>4, <1>7, <1>8 DEF expire_stale_presence, EntityRow
  <1> QED
    BY <1>7, <1>9

LEMMA TickSettlesMoney ==
    ASSUME RowsSound, MoneySound, game_tick
    PROVE  Settled
  <1>1. PICK outcome \in [{p \in Players : vitals[p].walking} -> Outcomes],
             due \in [{d \in Entities : vitals[d].burn > 1 \/ vitals[d].mend > 1} -> Due],
             stale \in SUBSET Players :
           LET effects(d) == IF d \in DOMAIN due THEN due[d] ELSE <<"none", "none">>
               walked(d) == IF d \in DOMAIN outcome
                            THEN movement_step(status_step(vitals[d]), outcome[d])
                            ELSE status_step(vitals[d])
               reaped == [d \in Entities |->
                   reap_the_dead(d, tick_periodic_effects(d, walked(d), effects(d)))]
               dead == {e \in Entities : vitals[e].state # "Dead" /\ reaped[e].state = "Dead"}
           IN  /\ vitals' = [d \in Entities |->
                    IF d \in stale THEN expire_stale_presence(tick_respawns(d, reaped[d]))
                    ELSE tick_respawns(d, reaped[d])]
               /\ \E roll \in Rolls(dead) : bags' = BagsAfter(loot_step, dead, roll)
               /\ carried' = CarriedAfter(dead)
    BY ZenonT(60) DEF game_tick
  <1> DEFINE effects(d) == IF d \in DOMAIN due THEN due[d] ELSE <<"none", "none">>
             walked(d) == IF d \in DOMAIN outcome
                          THEN movement_step(status_step(vitals[d]), outcome[d])
                          ELSE status_step(vitals[d])
             row(d) == reap_the_dead(d, tick_periodic_effects(d, walked(d), effects(d)))
             reaped == [d \in Entities |-> row(d)]
             dead == {e \in Entities : vitals[e].state # "Dead" /\ reaped[e].state = "Dead"}
  <1>2. purse' = purse
    BY DEF game_tick
  <1>3. dead \cap Creatures \subseteq Killed
    <2>1. SUFFICES ASSUME NEW c \in Creatures, c \in dead PROVE c \in Killed
      OBVIOUS
    <2>2. c \in Entities /\ vitals[c].state # "Dead" /\ row(c).state = "Dead"
      BY <2>1
    <2>3. walked(c) \in SoundRow /\ walked(c).state = vitals[c].state
      <3>1. vitals[c] \in SoundRow
        BY <2>2 DEF RowsSound
      <3>2. c \in DOMAIN outcome => outcome[c] \in Outcomes
        BY <1>1
      <3> QED
        BY <3>1, <3>2, StatusStepSound, MovementSound
    <2>4. vitals'[c] = IF c \in stale THEN expire_stale_presence(tick_respawns(c, row(c)))
                       ELSE tick_respawns(c, row(c))
      BY <1>1, <2>2
    <2> DEFINE w == walked(c)
               r == row(c)
               fires == effects(c)
    <2>5. fires \in Due /\ r = reap_the_dead(c, tick_periodic_effects(c, w, fires))
      BY DEF Due
    <2>6. w \in SoundRow /\ w.state # "Dead" /\ r.state = "Dead"
      BY <2>2, <2>3
    <2> HIDE DEF w, r, fires
    <2>7. /\ tick_respawns(c, r).state = "Dead"
          /\ expire_stale_presence(tick_respawns(c, r)).state = "Dead"
      BY <2>5, <2>6, FreshCorpse
    <2>8. vitals'[c].state = "Dead"
      BY <2>4, <2>7 DEF r
    <2> QED
      BY <2>2, <2>8 DEF Killed
  <1>4. /\ loot_step \in [Bags -> LootBag \cup {NoBag}]
        /\ \A b \in Bags : loot_step[b] \in {bags[b], NoBag}
        /\ \A b \in Bags : bags[b] # NoBag /\ loot_step[b] = NoBag => bags[b].due
    BY DEF loot_step, MoneySound, GoodsSound, GoodsTyped
  <1>5. /\ \E roll \in Rolls(dead) : bags' = BagsAfter(loot_step, dead, roll)
        /\ carried' = CarriedAfter(dead)
    BY <1>1
  <1>6. dead \in SUBSET Entities
    OBVIOUS
  <1> DEFINE stay == loot_step
  <1>7. /\ stay \in [Bags -> LootBag \cup {NoBag}]
        /\ \A b \in Bags : stay[b] \in {bags[b], NoBag}
        /\ \A b \in Bags : bags[b] # NoBag /\ stay[b] = NoBag => bags[b].due
    BY <1>4
  <1> HIDE DEF dead
  <1>8. PICK roll \in Rolls(dead) : bags' = BagsAfter(stay, dead, roll)
    BY <1>5
  <1> HIDE DEF stay
  <1> QED
    BY <1>2, <1>3, <1>5, <1>6, <1>7, <1>8, DropSettles

LEMMA ResolveSettlesMoney ==
    ASSUME RowsSound, MoneySound, NEW e \in Entities, NEW bundle, resolve_bundle(e, bundle)
    PROVE  Settled
  <1> DEFINE hit == Hit(e, vitals[e], bundle)
             dead == {e} \cap {d \in Entities : hit.state = "Dead"}
  <1>1. /\ IsAlive(vitals[e]) /\ vitals' = [vitals EXCEPT ![e] = hit]
        /\ \E roll \in Rolls(dead) : bags' = BagsAfter(bags, dead, roll)
        /\ carried' = CarriedAfter(dead) /\ purse' = purse
    BY DEF resolve_bundle
  <1>2. dead \in SUBSET Entities
    OBVIOUS
  <1>3. dead \cap Creatures \subseteq Killed
    <2>1. SUFFICES ASSUME NEW c \in Creatures, c \in dead PROVE c \in Killed
      OBVIOUS
    <2>2. c = e /\ hit.state = "Dead"
      BY <2>1
    <2>3. vitals'[e] = hit /\ vitals[e].state # "Dead"
      BY <1>1 DEF RowsSound, IsAlive
    <2> QED
      BY <2>2, <2>3 DEF Killed
  <1>4. bags \in [Bags -> LootBag \cup {NoBag}]
    BY DEF MoneySound, GoodsSound, GoodsTyped
  <1> HIDE DEF dead
  <1>5. PICK roll \in Rolls(dead) : bags' = BagsAfter(bags, dead, roll)
    BY <1>1
  <1> QED
    BY <1>1, <1>2, <1>3, <1>4, <1>5, DropSettles

(* What is left of a bag counts what it counts, gone if that is nothing.   *)
LEMMA DespawnCounts ==
    ASSUME NEW left \in LootBag
    PROVE  /\ GoldOf(maybe_despawn(left)) = left.gold
           /\ maybe_despawn(left) # NoBag => ~ IsEmpty(maybe_despawn(left))
           /\ left.items # {} => maybe_despawn(left) = left /\ left # NoBag
  <1>1. left # NoBag
    BY NoBagIsNoLootBag
  <1>2. CASE IsEmpty(left)
    BY <1>2 DEF maybe_despawn, GoldOf, IsEmpty
  <1>3. CASE ~ IsEmpty(left)
    <2>1. maybe_despawn(left) = left
      BY <1>3 DEF maybe_despawn
    <2> QED
      BY <1>1, <1>3, <2>1 DEF GoldOf
  <1> QED
    BY <1>2, <1>3

(* A player takes n pieces of gold and some pieces out of a bag: what goes *)
(* out of the bag is what comes in.                                        *)
Taken(p, b, n, taken, left) ==
    /\ bags[b] # NoBag /\ n \in Nat /\ left \in LootBag
    /\ left.gold + n = bags[b].gold /\ left.items = bags[b].items \ taken
    /\ purse[p] + n <= MaxGold
    /\ purse' = [purse EXCEPT ![p] = purse[p] + n]
    /\ carried' = [carried EXCEPT ![p] = carried[p] \cup taken]
    /\ bags' = [bags EXCEPT ![b] = maybe_despawn(left)]

LEMMA TakeSettles ==
    ASSUME MoneySound, NEW p \in Players, NEW b \in Bags, NEW n, NEW taken, NEW left,
           Taken(p, b, n, taken, left)
    PROVE  Settled
  <1> DEFINE bag == maybe_despawn(left)
             old == GoldIn(bags)
             new == GoldIn(bags')
  <1>0. /\ bags[b] # NoBag /\ n \in Nat /\ left \in LootBag
        /\ left.gold + n = bags[b].gold /\ left.items = bags[b].items \ taken
        /\ purse[p] + n <= MaxGold
        /\ purse' = [purse EXCEPT ![p] = purse[p] + n]
        /\ carried' = [carried EXCEPT ![p] = carried[p] \cup taken]
        /\ bags' = [bags EXCEPT ![b] = bag]
    BY DEF Taken
  <1>1. /\ bags \in [Bags -> LootBag \cup {NoBag}] /\ bags[b] \in LootBag
        /\ purse \in [Players -> 0..MaxGold] /\ carried \in [Players -> SUBSET Pieces]
    BY <1>0 DEF MoneySound, GoodsSound, GoodsTyped
  <1>2. bag \in LootBag \cup {NoBag}
    BY <1>0, DespawnSound
  <1>3. /\ GoldOf(bag) = left.gold
        /\ bag # NoBag => ~ IsEmpty(bag)
        /\ left.items # {} => bag = left /\ left # NoBag
    BY <1>0, DespawnCounts
  <1> HIDE DEF bag
  <1>4. /\ bags' \in [Bags -> LootBag \cup {NoBag}]
        /\ bags'[b] = bag /\ \A c \in Bags \ {b} : bags'[c] = bags[c]
    BY <1>0, <1>1, <1>2
  <1>5. NoneEmpty'
    <2>1. ASSUME NEW c \in Bags, bags'[c] # NoBag PROVE ~ IsEmpty(bags'[c])
      BY <1>3, <1>4, <2>1 DEF MoneySound, NoneEmpty
    <2> QED
      BY <2>1 DEF NoneEmpty, IsEmpty
  <1>6. /\ old \in [Bags -> Nat] /\ \A c \in Bags : old[c] = GoldOf(bags[c])
        /\ SumFunction(old) = SumFunctionOnSet(old, Bags) /\ SumFunction(old) \in Nat
    BY <1>1, GoldIsNat
  <1>7. /\ new \in [Bags -> Nat] /\ \A c \in Bags : new[c] = GoldOf(bags'[c])
        /\ SumFunction(new) = SumFunctionOnSet(new, Bags) /\ SumFunction(new) \in Nat
    BY <1>4, GoldIsNat
  <1>8. old[b] = new[b] + n
    <2>1. old[b] = bags[b].gold
      BY <1>0, <1>6 DEF GoldOf
    <2>2. new[b] = left.gold
      BY <1>3, <1>4, <1>7
    <2> QED
      BY <1>0, <2>1, <2>2
  <1>9. DifferAt(b, old, new, Bags)
    <2>1. \A c \in Bags : old[c] \in Int /\ new[c] \in Int
      BY <1>6, <1>7
    <2>2. \A c \in Bags \ {b} : old[c] = new[c]
      BY <1>4, <1>6, <1>7
    <2> HIDE DEF old, new
    <2> QED
      BY <2>1, <2>2 DEF DifferAt
  <1> HIDE DEF old, new
  <1>10. SumFunction(new) = SumFunction(old) - old[b] + new[b]
    BY <1>6, <1>7, <1>9, SumOneChanged, MoneyBounds DEF SumsDifferAt
  <1>11. purse' \in [Players -> 0..MaxGold] /\ purse'[p] = purse[p] + n
         /\ \A q \in Players \ {p} : purse'[q] = purse[q]
    <2>1. purse[p] + n \in 0..MaxGold
      BY <1>0, <1>1, MoneyBounds
    <2> QED
      BY <1>0, <1>1, <2>1
  <1>12. SumFunction(purse') = SumFunction(purse) - purse[p] + purse'[p]
    <2>1. DifferAt(p, purse, purse', Players)
      BY <1>1, <1>11, MoneyBounds DEF DifferAt
    <2>2. SumsDifferAt(p, purse, purse', Players)
      BY <2>1, SumOneChanged, MoneyBounds
    <2>3. /\ SumFunction(purse) = SumFunctionOnSet(purse, Players)
          /\ SumFunction(purse') = SumFunctionOnSet(purse', Players)
      BY <1>1, <1>11, PurseIsNat
    <2> QED
      BY <2>2, <2>3 DEF SumsDifferAt
  <1>13. Wealth' = Wealth
    <2> DEFINE u == SumFunction(purse)
               v == SumFunction(purse')
               s == SumFunction(old)
               t == SumFunction(new)
    <2>1. Wealth = u + s /\ Wealth' = v + t
      BY WealthIs, WealthIsNext DEF old, new
    <2>2. u \in Nat /\ s \in Nat /\ purse[p] \in Nat /\ old[b] \in Nat /\ new[b] \in Nat
      BY <1>1, <1>6, <1>7, PurseIsNat, MoneyBounds
    <2>3. v = u - purse[p] + (purse[p] + n) /\ t = s - old[b] + new[b] /\ old[b] = new[b] + n
      BY <1>8, <1>10, <1>11, <1>12
    <2> DEFINE h == purse[p]
               i == old[b]
               j == new[b]
    <2>5. /\ u \in Nat /\ s \in Nat /\ h \in Nat /\ i \in Nat /\ j \in Nat /\ n \in Nat
          /\ v = u - h + (h + n) /\ t = s - i + j /\ i = j + n
      BY <1>0, <2>2, <2>3
    <2> HIDE DEF u, v, s, t, h, i, j
    <2>4. v + t = u + s
      BY <2>5
    <2> QED
      BY <2>1, <2>4
  <1>14. ASSUME NEW x \in Pieces, Held(x) PROVE Held(x)'
    <2>1. CASE \E q \in Players : x \in carried[q]
      BY <1>0, <1>1, <2>1 DEF Held
    <2>2. CASE \E c \in Bags \ {b} : bags[c] # NoBag /\ x \in bags[c].items
      BY <1>4, <2>2 DEF Held
    <2>3. CASE x \in bags[b].items /\ x \in taken
      BY <1>0, <1>1, <2>3 DEF Held
    <2>4. CASE x \in bags[b].items /\ x \notin taken
      <3>1. x \in left.items
        BY <1>0, <2>4
      <3>2. bags'[b] = left /\ left # NoBag
        BY <1>3, <1>4, <3>1
      <3> QED
        BY <3>1, <3>2 DEF Held
    <2> QED
      BY <1>14, <2>1, <2>2, <2>3, <2>4 DEF Held
  <1> QED
    BY <1>5, <1>13, <1>14, NothingPaid

LEMMA LootTakeSettles ==
    ASSUME MoneySound, NEW p \in Players, NEW b \in Bags, NEW x \in Pieces, loot_take(p, b, x)
    PROVE  Settled
  <1> DEFINE left == [bags[b] EXCEPT !.items = @ \ {x}]
  <1>1. /\ bags[b] # NoBag
        /\ carried' = [carried EXCEPT ![p] = @ \cup {x}]
        /\ bags' = [bags EXCEPT ![b] = maybe_despawn(left)] /\ purse' = purse
    BY DEF loot_take, require_open_bag
  <1>2. /\ bags[b] \in LootBag /\ bags \in [Bags -> LootBag \cup {NoBag}]
        /\ purse \in [Players -> 0..MaxGold] /\ carried \in [Players -> SUBSET Pieces]
    BY <1>1 DEF MoneySound, GoodsSound, GoodsTyped
  <1>3. left \in LootBag /\ left.items = bags[b].items \ {x} /\ left.gold + 0 = bags[b].gold
    BY <1>2, MoneyBounds DEF LootBag
  <1>4. purse' = [purse EXCEPT ![p] = purse[p] + 0] /\ purse[p] + 0 <= MaxGold /\ 0 \in Nat
    <2>1. purse[p] \in 0..MaxGold
      BY <1>2
    <2>2. purse[p] + 0 = purse[p] /\ purse[p] <= MaxGold
      BY <2>1, MoneyBounds
    <2> QED
      BY <1>1, <1>2, <2>2
  <1>5. /\ carried' = [carried EXCEPT ![p] = carried[p] \cup {x}]
        /\ bags' = [bags EXCEPT ![b] = maybe_despawn(left)]
    BY <1>1, <1>2
  <1> HIDE DEF left
  <1>6. Taken(p, b, 0, {x}, left)
    BY <1>1, <1>3, <1>4, <1>5 DEF Taken
  <1> QED
    BY <1>6, TakeSettles

LEMMA LootTakeGoldSettles ==
    ASSUME MoneySound, NEW p \in Players, NEW b \in Bags, loot_take_gold(p, b)
    PROVE  Settled
  <1> DEFINE left == [bags[b] EXCEPT !.gold = 0]
             n == bags[b].gold
  <1>1. /\ bags[b] # NoBag /\ purse[p] + n <= MaxGold
        /\ purse' = [purse EXCEPT ![p] = @ + n]
        /\ bags' = [bags EXCEPT ![b] = maybe_despawn(left)] /\ carried' = carried
    BY DEF loot_take_gold, require_open_bag
  <1>2. /\ bags[b] \in LootBag /\ bags \in [Bags -> LootBag \cup {NoBag}]
        /\ purse \in [Players -> 0..MaxGold] /\ carried \in [Players -> SUBSET Pieces]
    BY <1>1 DEF MoneySound, GoodsSound, GoodsTyped
  <1>3. n \in Nat /\ left \in LootBag /\ left.items = bags[b].items \ {} /\ left.gold + n = bags[b].gold
    BY <1>2, MoneyBounds DEF LootBag
  <1>4. /\ purse' = [purse EXCEPT ![p] = purse[p] + n]
        /\ carried' = [carried EXCEPT ![p] = carried[p] \cup {}]
        /\ bags' = [bags EXCEPT ![b] = maybe_despawn(left)]
    BY <1>1, <1>2
  <1> HIDE DEF left, n
  <1>5. Taken(p, b, n, {}, left)
    <2>1. left.gold + n = bags[b].gold /\ left.items = bags[b].items \ {}
      BY <1>3
    <2> QED
      BY <1>1, <1>3, <1>4, <2>1 DEF Taken
  <1> QED
    BY <1>5, TakeSettles

LEMMA LootTakeAllSettles ==
    ASSUME MoneySound, NEW p \in Players, NEW b \in Bags, loot_take_all(p, b)
    PROVE  Settled
  <1> DEFINE n == bags[b].gold
  <1>1. PICK taken \in SUBSET bags[b].items :
            /\ carried' = [carried EXCEPT ![p] = @ \cup taken]
            /\ bags' = [bags EXCEPT ![b] =
                            maybe_despawn([bags[b] EXCEPT !.gold = 0, !.items = @ \ taken])]
    BY DEF loot_take_all
  <1> DEFINE left == [bags[b] EXCEPT !.gold = 0, !.items = @ \ taken]
  <1>2. /\ bags[b] # NoBag /\ purse[p] + n <= MaxGold
        /\ purse' = [purse EXCEPT ![p] = @ + n]
    BY DEF loot_take_all, require_open_bag
  <1>3. /\ bags[b] \in LootBag /\ bags \in [Bags -> LootBag \cup {NoBag}]
        /\ purse \in [Players -> 0..MaxGold] /\ carried \in [Players -> SUBSET Pieces]
    BY <1>2 DEF MoneySound, GoodsSound, GoodsTyped
  <1>4. n \in Nat /\ left \in LootBag /\ left.items = bags[b].items \ taken /\ left.gold + n = bags[b].gold
    <2>1. bags[b] = [bags[b] EXCEPT !.gold = n] /\ n \in Nat /\ 0 \in 0..MaxRoll
          /\ bags[b].items \ taken \in SUBSET Pieces
      BY <1>3, MoneyBounds DEF LootBag
    <2>2. left.gold = 0 /\ left.items = bags[b].items \ taken /\ left \in LootBag
      BY <1>3, <2>1 DEF LootBag
    <2> HIDE DEF left
    <2> QED
      BY <2>1, <2>2
  <1>5. /\ purse' = [purse EXCEPT ![p] = purse[p] + n]
        /\ carried' = [carried EXCEPT ![p] = carried[p] \cup taken]
        /\ bags' = [bags EXCEPT ![b] = maybe_despawn(left)]
    BY <1>1, <1>2, <1>3
  <1> HIDE DEF left, n
  <1>6. Taken(p, b, n, taken, left)
    BY <1>2, <1>4, <1>5 DEF Taken
  <1> QED
    BY <1>6, TakeSettles

LEMMA ElapseSettles ==
    ASSUME MoneySound, NEW b \in Bags, Elapse(b)
    PROVE  Settled
  <1> DEFINE late == [bags[b] EXCEPT !.due = TRUE]
  <1>1. /\ bags[b] # NoBag /\ bags' = [bags EXCEPT ![b].due = TRUE]
        /\ carried' = carried /\ purse' = purse
        /\ bags \in [Bags -> LootBag \cup {NoBag}]
    BY DEF Elapse, MoneySound, GoodsSound, GoodsTyped
  <1>2. /\ bags[b] \in LootBag /\ bags' = [bags EXCEPT ![b] = late]
        /\ late \in LootBag /\ late.items = bags[b].items /\ late.gold = bags[b].gold
    BY <1>1 DEF LootBag
  <1> HIDE DEF late
  <1>3. late # NoBag
    BY <1>2, NoBagIsNoLootBag
  <1>4. bags'[b] = late /\ \A c \in Bags \ {b} : bags'[c] = bags[c]
    BY <1>1, <1>2
  <1>5. GoldIn(bags') = GoldIn(bags)
    <2>1. \A c \in Bags : GoldOf(bags'[c]) = GoldOf(bags[c])
      BY <1>1, <1>2, <1>3, <1>4 DEF GoldOf
    <2> QED
      BY <2>1 DEF GoldIn
  <1>6. Wealth' = Wealth
    BY <1>1, <1>5, WealthIs, WealthIsNext
  <1>7. NoneEmpty'
    <2>1. ASSUME NEW c \in Bags, bags'[c] # NoBag PROVE ~ IsEmpty(bags'[c])
      BY <1>1, <1>2, <1>4, <2>1 DEF MoneySound, NoneEmpty, IsEmpty
    <2> QED
      BY <2>1 DEF NoneEmpty, IsEmpty
  <1>8. \A x \in Pieces : Held(x) => Held(x)'
    <2>1. \A c \in Bags : bags[c] # NoBag => bags'[c] # NoBag /\ bags'[c].items = bags[c].items
      BY <1>2, <1>3, <1>4
    <2> QED
      BY <1>1, <2>1 DEF Held
  <1> QED
    BY <1>6, <1>7, <1>8, NothingPaid

LEMMA UntouchedSettles ==
    ASSUME MoneySound, UNCHANGED <<carried, purse, bags>>
    PROVE  Settled
  <1>1. bags' = bags /\ purse' = purse /\ carried' = carried
    OBVIOUS
  <1>2. Wealth' = Wealth
    BY <1>1, WealthIs, WealthIsNext
  <1>3. NoneEmpty'
    BY <1>1 DEF MoneySound, NoneEmpty, IsEmpty
  <1>4. \A x \in Pieces : Held(x) => Held(x)'
    BY <1>1 DEF Held
  <1> QED
    BY <1>2, <1>3, <1>4, NothingPaid

LEMMA NextSettles ==
    ASSUME RowsSound, MoneySound, [Next]_vars
    PROVE  Settled
  <1>1. CASE game_tick
    BY <1>1, TickSettlesMoney
  <1>2. ASSUME NEW e \in Entities, NEW bundle \in Bundles, resolve_bundle(e, bundle)
        PROVE  Settled
    BY <1>2, ResolveSettlesMoney
  <1>3. ASSUME NEW p \in Players,
               move_to(p) \/ stop(p) \/ respawn(p) \/ leave(p) \/ join(p)
        PROVE  Settled
    <2>1. UNCHANGED <<carried, purse, bags>>
      BY <1>3 DEF move_to, stop, respawn, leave, join, SetRow
    <2> QED
      BY <2>1, UntouchedSettles
  <1>4. ASSUME NEW p \in Players, NEW b \in Bags,
               \/ \E x \in Pieces : loot_take(p, b, x)
               \/ loot_take_gold(p, b)
               \/ loot_take_all(p, b)
        PROVE  Settled
    BY <1>4, LootTakeSettles, LootTakeGoldSettles, LootTakeAllSettles
  <1>5. ASSUME NEW b \in Bags, Elapse(b)
        PROVE  Settled
    BY <1>5, ElapseSettles
  <1>6. CASE UNCHANGED vars
    <2>1. UNCHANGED <<carried, purse, bags>>
      BY <1>6 DEF vars
    <2> QED
      BY <2>1, UntouchedSettles
  <1> QED
    BY <1>1, <1>2, <1>3, <1>4, <1>5, <1>6 DEF Next

LEMMA InitMoney == Init => MoneySound
  <1> SUFFICES ASSUME Init PROVE MoneySound
    OBVIOUS
  <1>1. GoodsSound
    BY InitGoods
  <1>2. purse = [p \in Players |-> 0] /\ bags = [b \in Bags |-> NoBag]
    BY DEF Init
  <1>3. NoneEmpty
    BY <1>2 DEF NoneEmpty
  <1>4. \A b \in Bags : GoldIn(bags)[b] = 0
    BY <1>2 DEF GoldIn, GoldOf
  <1>5. SumFunction(GoldIn(bags)) = 0
    <2> DEFINE g == GoldIn(bags)
    <2>1. SumFunction(g) = SumFunctionOnSet(g, Bags)
      BY <1>1, GoldIsNat DEF GoodsSound, GoodsTyped
    <2>2. \A b \in Bags : g[b] = 0
      BY <1>4
    <2> HIDE DEF g
    <2> QED
      BY <2>1, <2>2, SumZero, MoneyBounds DEF g
  <1>6. SumFunction(purse) = 0
    <2>1. \A p \in Players : purse[p] = 0
      BY <1>2
    <2>2. SumFunction(purse) = SumFunctionOnSet(purse, Players)
      BY <1>1, PurseIsNat DEF GoodsSound, GoodsTyped
    <2> QED
      BY <2>1, <2>2, SumZero, MoneyBounds
  <1>7. Wealth \in 0..MaxWealth
    BY <1>5, <1>6, WealthIs, MoneyBounds
  <1> QED
    BY <1>1, <1>3, <1>7 DEF MoneySound

LEMMA NextMoney ==
    ASSUME RowsSound, MoneySound, [Next]_vars
    PROVE  MoneySound'
  <1>1. GoodsSound'
    BY NextGoods DEF MoneySound
  <1> QED
    BY <1>1, NextSettles DEF Settled, MoneySound

-----------------------------------------------------------------------------
(* Every row keeps its type, and a corpse no health.                       *)
THEOREM RowsAlwaysSound == Spec => []RowsSound
  BY InitSound, NextSound, PTL DEF Spec

(* A corpse never has health, whatever hits, heals, ticks, departures and  *)
(* respawns came in what order (combat.rs apply_healing).                  *)
THEOREM CorpsesNeverHeal == Spec => []CorpsesHaveNoHealth
  <1>1. RowsSound => CorpsesHaveNoHealth
    BY DEF RowsSound, CorpsesHaveNoHealth, SoundRow
  <1> QED
    BY <1>1, RowsAlwaysSound, PTL

(* State and health agree after every tick (combat.rs reap_the_dead).      *)
THEOREM EveryTickSettles == Spec => TickSettles
  <1>1. RowsSound /\ [Next]_vars =>
          [\/ \A e \in Entities : vitals'[e].state = "Dead" <=> vitals'[e].health = 0
           \/ ~ game_tick]_vars
    BY TickSound
  <1> QED
    BY <1>1, RowsAlwaysSound, PTL DEF Spec, TickSettles

(* Nothing but a full resurrection ends a death (combat.rs resurrect).     *)
THEOREM TheDeadComeBackWhole == Spec => BackWhole
  <1>1. RowsSound /\ [Next]_vars =>
          [\A e \in Entities :
             vitals[e].state = "Dead" /\ IsAlive(vitals'[e]) =>
                 vitals'[e] = [Rested EXCEPT !.speed = vitals'[e].speed]]_vars
    BY NextReturnsWhole DEF Whole
  <1> QED
    BY <1>1, RowsAlwaysSound, PTL DEF Spec, BackWhole

(* Whoever carries what and whichever bag lies where, the goods stay       *)
(* typed and apart.                                                        *)
THEOREM GoodsAlwaysSound == Spec => []GoodsSound
  BY InitGoods, NextGoods, PTL DEF Spec

(* A piece is in one place: no order of deaths, takes and despawns copies  *)
(* it (loot.rs drop_player, loot_take).                                    *)
THEOREM PiecesAreNeverCopied == Spec => []PieceOnce
  <1>1. GoodsSound => PieceOnce
    BY ApartIsOnce DEF GoodsSound
  <1> QED
    BY <1>1, GoodsAlwaysSound, PTL

(* Every variable keeps its type, and nobody carries more than its slots   *)
(* hold (loot.rs loot_take_all).                                           *)
THEOREM TypesHold == Spec => []TypeOK
  <1>1. RowsSound /\ GoodsSound => TypeOK
    BY DEF RowsSound, SoundRow, GoodsSound, GoodsTyped, TypeOK
  <1> QED
    BY <1>1, RowsAlwaysSound, GoodsAlwaysSound, PTL

(* Every bag that lies about holds something, and the gold of the world    *)
(* stays within the bound.                                                 *)
THEOREM MoneyAlwaysSound == Spec => []MoneySound
  <1>1. Init => RowsSound /\ MoneySound
    BY InitSound, InitMoney
  <1>2. RowsSound /\ MoneySound /\ [Next]_vars => (RowsSound /\ MoneySound)'
    BY NextSound, NextMoney
  <1> QED
    BY <1>1, <1>2, PTL DEF Spec

(* However many die in one tick, and whoever takes what from which bag:    *)
(* a piece is lost only with a bag past its deadline (loot.rs step).       *)
THEOREM PiecesCrumbleOnly == Spec => OnlyCrumbledPiecesVanish
  <1>1. RowsSound /\ MoneySound /\ [Next]_vars =>
          [\A x \in Pieces : Held(x) /\ ~ Held(x)' =>
             \E b \in Bags : bags[b] # NoBag /\ bags[b].due /\ x \in bags[b].items]_vars
    BY NextSettles DEF Settled, OnlyCrumbled
  <1> QED
    BY <1>1, RowsAlwaysSound, MoneyAlwaysSound, PTL DEF Spec, OnlyCrumbledPiecesVanish

(* Gold enters the world with the death of a creature, at most one roll    *)
(* for each (loot.rs roll_loot, on_death).                                 *)
THEOREM GoldIsPaidForKills == Spec => GoldFromKills
  <1>1. RowsSound /\ MoneySound /\ [Next]_vars =>
          [Wealth' <= Wealth + MaxRoll * Cardinality(
             {c \in Creatures : vitals[c].state # "Dead" /\ vitals'[c].state = "Dead"})]_vars
    BY NextSettles DEF Settled, GoldPaid, Killed
  <1> QED
    BY <1>1, RowsAlwaysSound, MoneyAlwaysSound, PTL DEF Spec, GoldFromKills

=============================================================================
