--------------------------- MODULE EncounterProofs --------------------------
(***************************************************************************)
(* That the rows of the mobs agree with each other, and that a fight runs  *)
(* forward, for any players, enemies, policies and numbers.                *)
(*                                                                         *)
(* Every part of Encounter's IInv is about one row, so that the proof goes *)
(* row by row: RowOK is what IInv says of the row v of the mob m, and each *)
(* operator the tick is made of takes a row that is RowOK to rows that are.*)
(* The same operators either carry a fight Forward or, in tick_respawns,   *)
(* begin it anew.                                                          *)
(***************************************************************************)
EXTENDS Encounter, TLAPS

Actions == {"moving", "casting"}

GrudgeOK(m, v) ==
    m \in Enemies =>
        /\ Policy[m] = "Nearest" => v.threat = {}
        /\ Policy[m] = "Sticky" => \A x, y \in v.threat : x = y

FightOK(m, v) ==
    /\ v.engaged <=> v.phase # "Idle"
    /\ ~ v.engaged => v.engagedTicks = 0
    /\ v.engaged => m \in Bosses
    /\ v.phase = "PhaseOne" => v.engagedTicks < BerserkTicks
    /\ v.phase = "PhaseTwo" => v.engagedTicks <= BerserkTicks
    /\ v.engagedTicks <= BerserkTicks + 1

BodyOK(m, v) ==
    /\ v.health <= MaxHealth[m]
    /\ v.dead <=> v.health = 0
    /\ v.dead => ~ v.walking
    /\ v.casting => ~ v.walking /\ v.blocked["casting"] = 0
    /\ v.blocked["moving"] > 0 => ~ v.walking

RowOK(m, v) ==
    /\ v \in Row
    /\ BodyOK(m, v)
    /\ GrudgeOK(m, v)
    /\ FightOK(m, v)

-----------------------------------------------------------------------------
(* IInv is RowOK of every row.                                             *)
LEMMA ByRows == IInv <=> mob \in [Mobs -> Row] /\ \A m \in Mobs : RowOK(m, mob[m])
<1> USE DEF RowOK, BodyOK, GrudgeOK, FightOK
<1>1. ASSUME IInv PROVE mob \in [Mobs -> Row] /\ \A m \in Mobs : RowOK(m, mob[m])
    BY <1>1 DEF IInv, TypeOK, CorpsesLieStill, CastsStandStill, OneGrudge, FightsAreOn
<1>2. ASSUME mob \in [Mobs -> Row], \A m \in Mobs : RowOK(m, mob[m]) PROVE IInv
    BY <1>2 DEF IInv, TypeOK, CorpsesLieStill, CastsStandStill, OneGrudge, FightsAreOn, Mobs
<1> QED BY <1>1, <1>2

LEMMA SeededOK == ASSUME NEW m \in Mobs PROVE RowOK(m, Seeded(m))
BY EncounterAssumption
   DEF RowOK, BodyOK, GrudgeOK, FightOK, Seeded, Row, Phases

(* A control that lands or runs leaves the row in order.                   *)
LEMMA EnforceOK ==
    ASSUME NEW m \in Mobs, NEW v, RowOK(m, v), NEW what \in SUBSET Actions
    PROVE  /\ RowOK(m, Enforce(v, what))
           /\ "moving" \in what => ~ Enforce(v, what).walking
           /\ "casting" \in what => ~ Enforce(v, what).casting
BY DEF RowOK, BodyOK, GrudgeOK, FightOK, Enforce, Row

LEMMA MaterializeOK ==
    ASSUME NEW m \in Mobs, NEW v, RowOK(m, v), NEW what \in Controls
    PROVE  RowOK(m, materialize(v, what))
<1>1. what \subseteq Actions /\ ControlTicks \in Nat \ {0}
    BY EncounterAssumption DEF Actions
<1> DEFINE b == [a \in DOMAIN v.blocked |-> IF a \in what THEN ControlTicks ELSE v.blocked[a]]
<1>2. b \in [Actions -> 0..ControlTicks] /\ v.blocked \in [Actions -> 0..ControlTicks]
    BY <1>1 DEF RowOK, Row, Actions
<1>3. /\ "moving" \notin what => b["moving"] = v.blocked["moving"]
      /\ "casting" \notin what => b["casting"] = v.blocked["casting"]
    BY <1>2 DEF Actions
<1> HIDE DEF b
<1>4. materialize(v, what) =
          [[v EXCEPT !.blocked = b] EXCEPT !.walking = @ /\ "moving" \notin what,
                                           !.casting = @ /\ "casting" \notin what]
    BY DEF materialize, Enforce, b, RowOK, Row
<1> QED BY <1>2, <1>3, <1>4 DEF RowOK, BodyOK, GrudgeOK, FightOK, Row, Actions

-----------------------------------------------------------------------------
(* What a fight keeps from the row v to the row w.                         *)
Forward(v, w) ==
    /\ v.dead => w.dead
    /\ v.engaged => w.engaged
    /\ w.phase \in Later[v.phase]
    /\ w.engagedTicks >= v.engagedTicks
    /\ v.threat \subseteq w.threat

(* The same fight: what Forward looks at, but for who is dead.             *)
SameFight(v, w) ==
    /\ w.engaged = v.engaged /\ w.phase = v.phase /\ w.engagedTicks = v.engagedTicks

(* Who died between v and w has its whole delay before it.                 *)
FreshCorpse(m, v, w) ==
    IF v.dead THEN w.dead /\ w.respawnIn = v.respawnIn
    ELSE w.dead => w.respawnIn = RespawnTicks[m]

LEMMA ForwardIsTransitive ==
    ASSUME NEW u \in Row, NEW v \in Row, NEW w \in Row, Forward(u, v), Forward(v, w)
    PROVE  Forward(u, w)
<1>1. w.phase \in Later[u.phase]
    BY DEF Forward, Later, Row, Phases
<1> QED BY <1>1 DEF Forward, Row

LEMMA SameFightIsForward ==
    ASSUME NEW v \in Row, NEW w, SameFight(v, w), v.dead => w.dead, v.threat \subseteq w.threat
    PROVE  Forward(v, w)
<1>1. v.phase \in Later[v.phase]
    BY DEF Later, Row, Phases
<1> QED BY <1>1 DEF SameFight, Forward, Row

LEMMA EnforceFights ==
    ASSUME NEW v \in Row, NEW what \in SUBSET Actions
    PROVE  /\ SameFight(v, Enforce(v, what))
           /\ Enforce(v, what).dead = v.dead /\ Enforce(v, what).threat = v.threat
           /\ Enforce(v, what).respawnIn = v.respawnIn
BY DEF Enforce, Row, SameFight

LEMMA MaterializeFights ==
    ASSUME NEW v \in Row, NEW what \in Controls
    PROVE  /\ SameFight(v, materialize(v, what))
           /\ materialize(v, what).dead = v.dead /\ materialize(v, what).threat = v.threat
           /\ materialize(v, what).respawnIn = v.respawnIn
BY DEF materialize, Enforce, Row, SameFight

LEMMA AccrueOK ==
    ASSUME NEW m \in Mobs, NEW v, RowOK(m, v), NEW source \in Players \cup Mobs
    PROVE  LET w == accrue_threat(m, v, source)
           IN  /\ RowOK(m, w)
               /\ SameFight(v, w) /\ w.dead = v.dead /\ w.respawnIn = v.respawnIn
               /\ m \in Bosses => v.threat \subseteq w.threat
<1> DEFINE w == accrue_threat(m, v, source)
<1>1. PICK t \in SUBSET (Players \cup Mobs) :
          /\ w = [v EXCEPT !.threat = t]
          /\ m \in Bosses => v.threat \subseteq t
          /\ m \in Enemies /\ Policy[m] = "Nearest" => t = v.threat
          /\ m \in Enemies /\ Policy[m] = "Sticky" => t = v.threat \/ t = {source}
    <2> v \in Row /\ v = [v EXCEPT !.threat = v.threat] /\ v.threat \subseteq Players \cup Mobs
        BY DEF RowOK, Row
    <2>1. CASE m \in Bosses
        <3>1. w = [v EXCEPT !.threat = v.threat \cup {source}]
            BY <2>1 DEF accrue_threat, threat_policy_for
        <3>2. v.threat \cup {source} \in SUBSET (Players \cup Mobs) /\ m \notin Enemies
            BY <2>1, EncounterAssumption
        <3> HIDE DEF w
        <3> QED BY <2>1, <3>1, <3>2
    <2>2. CASE m \notin Bosses /\ Policy[m] = "Nearest"
        BY <2>2 DEF accrue_threat, threat_policy_for
    <2>3. CASE m \notin Bosses /\ Policy[m] = "Sticky"
        <3>1. w = [v EXCEPT !.threat = IF v.threat = {} THEN {source} ELSE v.threat]
            BY <2>3 DEF accrue_threat, threat_policy_for
        <3> QED BY <2>3, <3>1
    <2>4. CASE m \notin Bosses /\ Policy[m] = "Table"
        <3>1. w = [v EXCEPT !.threat = v.threat \cup {source}]
            BY <2>4 DEF accrue_threat, threat_policy_for
        <3>2. v.threat \cup {source} \in SUBSET (Players \cup Mobs)
            OBVIOUS
        <3> HIDE DEF w
        <3> QED BY <2>4, <3>1, <3>2
    <2> QED BY <2>1, <2>2, <2>3, <2>4, EncounterAssumption DEF Mobs
<1> HIDE DEF w
<1>2. RowOK(m, w)
    BY <1>1 DEF RowOK, BodyOK, GrudgeOK, FightOK, Row
<1>3. SameFight(v, w) /\ w.dead = v.dead /\ w.respawnIn = v.respawnIn /\ w.threat = t
    BY <1>1 DEF SameFight, RowOK, Row
<1> QED BY <1>1, <1>2, <1>3 DEF w

LEMMA DamageOK ==
    ASSUME NEW m \in Mobs, NEW v, RowOK(m, v), NEW source \in Players \cup Mobs,
           NEW amount \in Nat
    PROVE  LET w == apply_damage(m, v, source, amount)
           IN  /\ RowOK(m, w) /\ SameFight(v, w) /\ FreshCorpse(m, v, w)
               /\ m \in Bosses => v.threat \subseteq w.threat
<1>1. CASE v.dead
    BY <1>1 DEF apply_damage, SameFight, FreshCorpse
<1>2. CASE ~ v.dead
    <2> DEFINE left == IF v.health > amount THEN v.health - amount ELSE 0
               hurt == [v EXCEPT !.health = left]
               down == IF left = 0 THEN kill(m, hurt) ELSE hurt
    <2>1. left \in Nat /\ left <= v.health /\ v.health <= MaxHealth[m] /\ left <= MaxHealth[m]
        BY EncounterAssumption DEF RowOK, BodyOK, Row
    <2>2. apply_damage(m, v, source, amount) = accrue_threat(m, down, source)
        BY <1>2 DEF apply_damage, RowOK, Row
    <2> HIDE DEF left
    <2>3. RowOK(m, down)
        BY <1>2, <2>1, EncounterAssumption DEF kill, RowOK, BodyOK, GrudgeOK, FightOK, Row
    <2>4. SameFight(v, down) /\ down.threat = v.threat
          /\ (down.dead => down.respawnIn = RespawnTicks[m])
        BY <1>2 DEF kill, SameFight, RowOK, Row
    <2> HIDE DEF down
    <2> QED BY <1>2, <2>2, <2>3, <2>4, AccrueOK DEF SameFight, FreshCorpse
<1> QED BY <1>1, <1>2

LEMMA StruckOK ==
    ASSUME NEW m \in Mobs, NEW v, RowOK(m, v), NEW source \in Players \cup Mobs,
           NEW amount \in Nat, NEW what \in Controls
    PROVE  LET w == Struck(m, v, source, amount, what)
           IN  /\ RowOK(m, w) /\ SameFight(v, w) /\ FreshCorpse(m, v, w)
               /\ m \in Bosses => v.threat \subseteq w.threat
<1> DEFINE u == apply_damage(m, v, source, amount)
           w == materialize(u, what)
<1>1. RowOK(m, u) /\ SameFight(v, u) /\ FreshCorpse(m, v, u)
      /\ (m \in Bosses => v.threat \subseteq u.threat)
    BY DamageOK
<1> HIDE DEF u
<1>2. RowOK(m, w) /\ u \in Row
    BY <1>1, MaterializeOK DEF RowOK
<1>3. /\ SameFight(u, w) /\ w.dead = u.dead /\ w.threat = u.threat
      /\ w.respawnIn = u.respawnIn
    BY <1>2, MaterializeFights
<1> HIDE DEF w
<1>4. RowOK(m, w) /\ SameFight(v, w) /\ FreshCorpse(m, v, w)
      /\ (m \in Bosses => v.threat \subseteq w.threat)
    BY <1>1, <1>2, <1>3 DEF SameFight, FreshCorpse
<1> QED BY <1>4 DEF w, u, Struck

-----------------------------------------------------------------------------
(* The steps before the AI.                                                *)
LEMMA StatusStepOK ==
    ASSUME NEW m \in Mobs, NEW v, RowOK(m, v)
    PROVE  LET w == status_step(v)
           IN  /\ RowOK(m, w) /\ SameFight(v, w)
               /\ w.dead = v.dead /\ w.threat = v.threat /\ w.respawnIn = v.respawnIn
<1> DEFINE b == [a \in DOMAIN v.blocked |-> IF v.blocked[a] > 0 THEN v.blocked[a] - 1 ELSE 0]
<1>1. b \in [Actions -> 0..ControlTicks] /\ v.blocked \in [Actions -> 0..ControlTicks]
    BY EncounterAssumption DEF RowOK, Row, Actions
<1>2. b["moving"] <= v.blocked["moving"] /\ b["casting"] <= v.blocked["casting"]
    BY <1>1 DEF Actions
<1>3. status_step(v) = [v EXCEPT !.blocked = b]
    BY DEF status_step, RowOK, Row
<1> HIDE DEF b
<1>4. RowOK(m, status_step(v))
    BY <1>1, <1>2, <1>3 DEF RowOK, BodyOK, GrudgeOK, FightOK, Row, Actions
<1>5. /\ SameFight(v, status_step(v)) /\ status_step(v).dead = v.dead
      /\ status_step(v).threat = v.threat /\ status_step(v).respawnIn = v.respawnIn
    BY <1>3 DEF SameFight, RowOK, Row
<1> QED BY <1>4, <1>5

LEMMA ControlStepOK ==
    ASSUME NEW m \in Mobs, NEW v, RowOK(m, v)
    PROVE  LET w == crowd_control_step(v)
           IN  /\ RowOK(m, w) /\ SameFight(v, w)
               /\ w.dead = v.dead /\ w.threat = v.threat /\ w.respawnIn = v.respawnIn
<1>1. {a \in DOMAIN v.blocked : v.blocked[a] > 0} \in SUBSET Actions /\ v \in Row
    BY DEF RowOK, Row, Actions
<1> QED BY <1>1, EnforceOK, EnforceFights DEF crowd_control_step

LEMMA MovementStepOK ==
    ASSUME NEW m \in Mobs, NEW v, RowOK(m, v), NEW w \in movement_step(v)
    PROVE  /\ RowOK(m, w) /\ SameFight(v, w)
           /\ w.dead = v.dead /\ w.threat = v.threat /\ w.respawnIn = v.respawnIn
<1>1. w = v \/ w = [v EXCEPT !.walking = FALSE]
    BY DEF movement_step
<1> QED BY <1>1 DEF RowOK, BodyOK, GrudgeOK, FightOK, Row, SameFight

LEMMA AdvanceCastsOK ==
    ASSUME NEW m \in Mobs, NEW v, RowOK(m, v), NEW w \in advance_casts(v)
    PROVE  /\ RowOK(m, w) /\ SameFight(v, w)
           /\ w.dead = v.dead /\ w.threat = v.threat /\ w.respawnIn = v.respawnIn
<1>1. w = v \/ w = [v EXCEPT !.casting = FALSE]
    BY DEF advance_casts
<1> QED BY <1>1 DEF RowOK, BodyOK, GrudgeOK, FightOK, Row, SameFight

LEMMA CombatStepOK ==
    ASSUME NEW m \in Mobs, NEW v, RowOK(m, v), NEW w \in combat_step(m, v)
    PROVE  /\ RowOK(m, w) /\ SameFight(v, w) /\ FreshCorpse(m, v, w)
           /\ m \in Bosses => v.threat \subseteq w.threat
<1>1. CASE w = v
    <2>1. v.dead => w.respawnIn = v.respawnIn
        BY <1>1
    <2> QED BY <1>1 DEF SameFight, FreshCorpse
<1>2. CASE w # v
    <2>1. PICK source \in (Players \cup Mobs) \ {m}, what \in Controls :
              w = Struck(m, v, source, 1, what)
        BY <1>2 DEF combat_step
    <2> QED BY <2>1, StruckOK
<1> QED BY <1>1, <1>2

(* A mob back from the dead; a boss with no fight and no grudge.           *)
Reborn(m, v) ==
    /\ v.health = MaxHealth[m] /\ ~ v.dead
    /\ m \in Bosses => v.phase = "Idle" /\ ~ v.engaged /\ v.engagedTicks = 0 /\ v.threat = {}

LEMMA RespawnOK ==
    ASSUME NEW m \in Mobs, NEW v, RowOK(m, v)
    PROVE  LET w == tick_respawns(m, v)
           IN  /\ RowOK(m, w)
               /\ IF v.dead /\ v.respawnIn <= 1 THEN Reborn(m, w)
                  ELSE SameFight(v, w) /\ w.dead = v.dead /\ w.threat = v.threat
<1>1. CASE ~ v.dead
    BY <1>1 DEF tick_respawns, SameFight
<1>2. CASE v.dead /\ v.respawnIn > 1
    <2>1. tick_respawns(m, v) = [v EXCEPT !.respawnIn = v.respawnIn - 1]
        BY <1>2 DEF tick_respawns, RowOK, Row
    <2>2. v.respawnIn - 1 \in Nat /\ ~ (v.respawnIn <= 1)
        BY <1>2 DEF RowOK, Row
    <2>3. RowOK(m, tick_respawns(m, v))
        BY <2>1, <2>2 DEF RowOK, BodyOK, GrudgeOK, FightOK, Row
    <2>4. SameFight(v, tick_respawns(m, v)) /\ tick_respawns(m, v).dead = v.dead
          /\ tick_respawns(m, v).threat = v.threat
        BY <2>1 DEF RowOK, SameFight, Row
    <2> QED BY <2>2, <2>3, <2>4
<1>3. CASE v.dead /\ ~ (v.respawnIn > 1)
    <2> DEFINE u == reset_boss_encounter(m, v)
               b == [a \in DOMAIN u.blocked |-> 0]
    <2>1. /\ RowOK(m, u)
          /\ m \in Bosses => u.phase = "Idle" /\ ~ u.engaged /\ u.engagedTicks = 0
                             /\ u.threat = {}
        <3>1. CASE m \in Bosses
            <4>1. u = [v EXCEPT !.phase = "Idle", !.engaged = FALSE, !.engagedTicks = 0,
                                !.threat = {}]
                BY <3>1 DEF reset_boss_encounter
            <4>2. BerserkTicks \in Nat
                BY EncounterAssumption
            <4> HIDE DEF u
            <4>3. u \in Row /\ BodyOK(m, u)
                BY <4>1 DEF RowOK, BodyOK, Row, Phases
            <4>4. u.phase = "Idle" /\ ~ u.engaged /\ u.engagedTicks = 0 /\ u.threat = {}
                BY <4>1 DEF RowOK, Row
            <4> QED BY <4>2, <4>3, <4>4 DEF RowOK, GrudgeOK, FightOK
        <3>2. CASE m \notin Bosses
            BY <3>2 DEF reset_boss_encounter
        <3> QED BY <3>1, <3>2
    <2>2. tick_respawns(m, v) =
              [u EXCEPT !.dead = FALSE, !.health = MaxHealth[m], !.respawnIn = 0,
                        !.walking = FALSE, !.blocked = b]
        BY <1>3 DEF tick_respawns, resurrect, reset_boss_encounter, RowOK, Row
    <2>3. b \in [Actions -> 0..ControlTicks] /\ b["moving"] = 0 /\ b["casting"] = 0
        BY <2>1, EncounterAssumption DEF RowOK, Row, Actions
    <2>4. MaxHealth[m] \in Nat \ {0}
        BY EncounterAssumption
    <2> HIDE DEF u, b
    <2>5. RowOK(m, tick_respawns(m, v))
        <3> DEFINE w == [u EXCEPT !.dead = FALSE, !.health = MaxHealth[m], !.respawnIn = 0,
                                  !.walking = FALSE, !.blocked = b]
        <3>1. w \in Row
            BY <2>1, <2>3, <2>4 DEF RowOK, Row, Actions
        <3>2. /\ ~ w.dead /\ w.health = MaxHealth[m] /\ ~ w.walking /\ w.blocked = b
              /\ w.threat = u.threat /\ SameFight(u, w)
            BY <2>1 DEF RowOK, Row, SameFight
        <3> HIDE DEF w
        <3>3. BodyOK(m, w)
            BY <2>3, <2>4, <3>2 DEF BodyOK
        <3>4. GrudgeOK(m, w) /\ FightOK(m, w)
            BY <2>1, <3>2 DEF RowOK, GrudgeOK, FightOK, SameFight
        <3>5. RowOK(m, w)
            BY <3>1, <3>3, <3>4 DEF RowOK
        <3> QED BY <2>2, <3>5 DEF w
    <2>6. Reborn(m, tick_respawns(m, v))
        BY <2>1, <2>2 DEF Reborn, RowOK, Row
    <2>7. v.respawnIn <= 1
        BY <1>3 DEF RowOK, Row
    <2> QED BY <1>3, <2>5, <2>6, <2>7
<1> QED BY <1>1, <1>2, <1>3

(* By the time of the AI, a boss has gone on with its fight or come back.   *)
LEMMA BeforeOK ==
    ASSUME NEW m \in Mobs, NEW v, RowOK(m, v), NEW w \in Before(m, v)
    PROVE  /\ RowOK(m, w)
           /\ m \in Bosses => Forward(v, w) \/ (v.dead /\ Reborn(m, w))
<1> DEFINE a == status_step(v)
           b == crowd_control_step(a)
<1>1. PICK d \in movement_step(b) :
          w \in UNION {{tick_respawns(m, s) : s \in combat_step(m, c)} : c \in advance_casts(d)}
    BY DEF Before
<1>2. PICK c \in advance_casts(d) : w \in {tick_respawns(m, s) : s \in combat_step(m, c)}
    BY <1>1
<1>3. PICK s \in combat_step(m, c) : w = tick_respawns(m, s)
    BY <1>2
<1>4. /\ RowOK(m, a) /\ SameFight(v, a)
      /\ a.dead = v.dead /\ a.threat = v.threat /\ a.respawnIn = v.respawnIn
    BY StatusStepOK
<1> HIDE DEF a
<1>5. /\ RowOK(m, b) /\ SameFight(a, b)
      /\ b.dead = a.dead /\ b.threat = a.threat /\ b.respawnIn = a.respawnIn
    BY <1>4, ControlStepOK
<1> HIDE DEF b
<1>6. /\ RowOK(m, d) /\ SameFight(b, d)
      /\ d.dead = b.dead /\ d.threat = b.threat /\ d.respawnIn = b.respawnIn
    BY <1>5, MovementStepOK
<1>7. /\ RowOK(m, c) /\ SameFight(d, c)
      /\ c.dead = d.dead /\ c.threat = d.threat /\ c.respawnIn = d.respawnIn
    BY <1>6, AdvanceCastsOK
<1>8. /\ RowOK(m, s) /\ SameFight(c, s) /\ FreshCorpse(m, c, s)
      /\ m \in Bosses => c.threat \subseteq s.threat
    BY <1>7, CombatStepOK
<1>9. /\ SameFight(v, s) /\ FreshCorpse(m, v, s)
      /\ m \in Bosses => v.threat \subseteq s.threat
    BY <1>4, <1>5, <1>6, <1>7, <1>8 DEF SameFight, FreshCorpse
<1>10. RespawnTicks[m] \in Nat \ {0, 1}
    BY EncounterAssumption
<1>11. v \in Row /\ s \in Row
    BY <1>8 DEF RowOK
<1>12. CASE s.dead /\ s.respawnIn <= 1
    <2>1. v.dead
        BY <1>9, <1>10, <1>11, <1>12 DEF FreshCorpse, Row
    <2> QED BY <1>3, <1>8, <1>12, <2>1, RespawnOK
<1>13. CASE ~ (s.dead /\ s.respawnIn <= 1)
    <2>1. RowOK(m, w) /\ SameFight(s, w) /\ w.dead = s.dead /\ w.threat = s.threat
        BY <1>3, <1>8, <1>13, RespawnOK
    <2>2. SameFight(v, w) /\ (v.dead => w.dead) /\ (m \in Bosses => v.threat \subseteq w.threat)
        BY <1>9, <2>1 DEF SameFight, FreshCorpse
    <2> QED BY <1>11, <2>1, <2>2, SameFightIsForward
<1> QED BY <1>12, <1>13

-----------------------------------------------------------------------------
(* The AI.                                                                 *)
LEMMA WritePoseOK ==
    ASSUME NEW m \in Mobs, NEW v, RowOK(m, v), ~ v.dead, NEW row, row.dead = v.dead,
           row.respawnIn = v.respawnIn, NEW walk \in BOOLEAN,
           walk => v.blocked["moving"] = 0 /\ ~ v.casting,
           NEW w \in write_pose(row, v, walk)
    PROVE  /\ RowOK(m, w) /\ SameFight(v, w)
           /\ ~ w.dead /\ w.threat = v.threat
<1>1. v \in Row
    BY DEF RowOK
<1>2. CASE w = v
    BY <1>2 DEF SameFight
<1>3. CASE w = [v EXCEPT !.dead = row.dead, !.respawnIn = row.respawnIn, !.walking = walk]
    <2>1. w = [v EXCEPT !.walking = walk]
        BY <1>1, <1>3 DEF Row
    <2> QED BY <2>1 DEF RowOK, BodyOK, GrudgeOK, FightOK, Row, SameFight
<1> QED BY <1>2, <1>3 DEF write_pose

LEMMA PosesOK ==
    ASSUME NEW m \in Mobs, NEW v, RowOK(m, v), ~ v.dead, NEW row, row.dead = v.dead,
           row.respawnIn = v.respawnIn, NEW w \in Poses(row, v)
    PROVE  /\ RowOK(m, w) /\ SameFight(v, w)
           /\ ~ w.dead /\ w.threat = v.threat
<1>1. PICK walk \in BOOLEAN : w \in write_pose(row, v, gate_movement(v, walk))
    BY DEF Poses
<1>2. /\ gate_movement(v, walk) \in BOOLEAN
      /\ gate_movement(v, walk) => v.blocked["moving"] = 0 /\ ~ v.casting
    BY DEF gate_movement
<1> QED BY <1>1, <1>2, WritePoseOK

LEMMA TryAttackOK ==
    ASSUME NEW m \in Mobs, NEW v, RowOK(m, v), NEW w \in try_attack(v)
    PROVE  RowOK(m, w)
<1>1. w = v \/ (v.blocked["casting"] = 0 /\ w = [v EXCEPT !.walking = FALSE, !.casting = TRUE])
    BY DEF try_attack, can_start_cast
<1> QED BY <1>1 DEF RowOK, BodyOK, GrudgeOK, FightOK, Row

(* An enemy's new record: nobody, or the one it chose.                     *)
LEMMA SelectOK ==
    ASSUME NEW m \in Enemies, NEW v, RowOK(m, v), NEW living \in SUBSET Players,
           NEW target \in Targets(m, v, living)
    PROVE  LET w == select_enemy_target(m, v, target)
           IN  RowOK(m, w) /\ w.dead = v.dead /\ w.respawnIn = v.respawnIn
<1>1. target = None \/ target \in Players
    BY DEF Targets
<1>2. PICK t \in SUBSET (Players \cup Mobs) :
          /\ select_enemy_target(m, v, target) = [v EXCEPT !.threat = t]
          /\ t = v.threat \/ (Policy[m] = "Sticky" /\ \A x, y \in t : x = y)
    <2>1. CASE Policy[m] # "Sticky"
        BY <2>1 DEF select_enemy_target, RowOK, Row
    <2>2. CASE Policy[m] = "Sticky"
        <3> DEFINE t == IF target = None THEN {} ELSE {target}
        <3>1. select_enemy_target(m, v, target) = [v EXCEPT !.threat = t]
            BY <2>2 DEF select_enemy_target
        <3>2. t \in SUBSET (Players \cup Mobs) /\ \A x, y \in t : x = y
            BY <1>1
        <3> HIDE DEF t
        <3> QED BY <2>2, <3>1, <3>2
    <2> QED BY <2>1, <2>2
<1> QED BY <1>2 DEF RowOK, BodyOK, GrudgeOK, FightOK, Row

LEMMA EnemyTurnOK ==
    ASSUME NEW m \in Enemies, NEW row, RowOK(m, row), NEW living \in SUBSET Players,
           NEW by \in {None} \cup Bosses, NEW w \in EnemyTurn(m, row, living, by)
    PROVE  RowOK(m, w)
<1> m \in Mobs
    BY DEF Mobs
<1>1. PICK v \in step_enemy(m, row, row, living) : w = Bitten(m, v, by)
    BY DEF EnemyTurn
<1>2. RowOK(m, v)
    <2>1. CASE row.dead
        BY <1>1, <2>1 DEF step_enemy
    <2>2. CASE ~ row.dead /\ v \in Poses(row, [row EXCEPT !.threat = {}])
        <3> DEFINE home == [row EXCEPT !.threat = {}]
        <3>1. RowOK(m, home) /\ home.dead = row.dead /\ home.respawnIn = row.respawnIn
            BY DEF RowOK, BodyOK, GrudgeOK, FightOK, Row
        <3> HIDE DEF home
        <3> QED BY <2>2, <3>1, PosesOK DEF home
    <2>3. ASSUME ~ row.dead, NEW target \in Targets(m, row, living),
                 NEW p \in Poses(row, select_enemy_target(m, row, target)),
                 v = p \/ v \in try_attack(p)
          PROVE  RowOK(m, v)
        <3> DEFINE chosen == select_enemy_target(m, row, target)
        <3>1. RowOK(m, chosen) /\ chosen.dead = row.dead /\ chosen.respawnIn = row.respawnIn
            BY SelectOK
        <3>2. p \in Poses(row, chosen)
            OBVIOUS
        <3> HIDE DEF chosen
        <3>3. RowOK(m, p)
            BY <2>3, <3>1, <3>2, PosesOK
        <3> QED BY <2>3, <3>3, TryAttackOK
    <2> QED BY <1>1, <2>1, <2>2, <2>3 DEF step_enemy
<1>3. CASE by = None
    BY <1>1, <1>2, <1>3 DEF Bitten
<1>4. CASE by # None
    <2>1. by \in Players \cup Mobs /\ 1 \in Nat /\ w = apply_damage(m, v, by, 1)
        BY <1>1, <1>4 DEF Bitten, Mobs
    <2> QED BY <1>2, <2>1, DamageOK
<1> QED BY <1>3, <1>4

LEMMA EngageOK ==
    ASSUME NEW m \in Bosses, NEW v, RowOK(m, v), ~ v.dead
    PROVE  LET w == engage(v)
           IN  /\ RowOK(m, w) /\ Forward(v, w)
               /\ ~ w.dead /\ w.respawnIn = v.respawnIn /\ w.threat = v.threat
               /\ w.health = v.health
               /\ Reborn(m, v) => w.phase = "PhaseOne" /\ w.engagedTicks = 0
<1>1. v \in Row /\ v.phase \in Later[v.phase]
    BY DEF RowOK, Row, Later, Phases
<1>2. CASE v.engaged
    <2>1. engage(v) = v /\ ~ Reborn(m, v)
        BY <1>2 DEF engage, Reborn
    <2> QED BY <1>1, <2>1 DEF Forward, Row
<1>3. CASE ~ v.engaged
    <2> DEFINE w == [v EXCEPT !.engaged = TRUE, !.phase = "PhaseOne", !.engagedTicks = 0]
    <2>1. engage(v) = w
        BY <1>3 DEF engage
    <2>2. /\ w \in Row
          /\ w.engaged /\ w.phase = "PhaseOne" /\ w.engagedTicks = 0
          /\ w.dead = v.dead /\ w.health = v.health /\ w.respawnIn = v.respawnIn
          /\ w.threat = v.threat /\ w.walking = v.walking /\ w.casting = v.casting
          /\ w.blocked = v.blocked
        BY <1>1 DEF Row, Phases
    <2> HIDE DEF w
    <2>3. v.phase = "Idle" /\ v.engagedTicks = 0 /\ "PhaseOne" \in Later["Idle"]
        BY <1>3 DEF RowOK, FightOK, Later, Phases
    <2>4. RowOK(m, w)
        BY <2>2, EncounterAssumption DEF RowOK, BodyOK, GrudgeOK, FightOK
    <2>5. Forward(v, w)
        BY <1>3, <2>2, <2>3 DEF Forward
    <2> QED BY <2>1, <2>2, <2>4, <2>5
<1> QED BY <1>2, <1>3

LEMMA AdvancePhaseOK ==
    ASSUME NEW m \in Bosses, NEW v, RowOK(m, v), ~ v.dead
    PROVE  LET w == advance_phase(v)
           IN  /\ RowOK(m, w) /\ Forward(v, w)
               /\ ~ w.dead /\ w.respawnIn = v.respawnIn /\ w.threat = v.threat
               /\ (v.health = MaxHealth[m] /\ v.engagedTicks = 0
                    /\ v.phase \in {"Idle", "PhaseOne"})
                  => w.phase = v.phase /\ w.engagedTicks <= 1
<1> DEFINE fighting == v.phase \in {"PhaseOne", "PhaseTwo"}
           ticks == IF fighting THEN v.engagedTicks + 1 ELSE v.engagedTicks
           ph == IF fighting /\ v.health <= BerserkHealth THEN "Enraged"
                 ELSE IF v.phase = "PhaseOne" /\ v.health <= AerialHealth THEN "PhaseTwo"
                 ELSE IF fighting /\ ticks >= BerserkTicks THEN "Enraged"
                 ELSE v.phase
           w == [v EXCEPT !.engagedTicks = ticks, !.phase = ph]
<1>1. v \in Row /\ v.phase \in Phases /\ v.engagedTicks \in Nat /\ v.health \in Nat
    BY DEF RowOK, Row
<1>2. /\ BerserkTicks \in Nat \ {0, 1} /\ MaxHealth[m] \in Nat
      /\ AerialHealth \in Nat /\ BerserkHealth \in Nat
      /\ BerserkHealth <= AerialHealth /\ AerialHealth < MaxHealth[m] /\ m \in Mobs
    BY EncounterAssumption DEF Mobs
<1>3. advance_phase(v) = w
    BY <1>1 DEF advance_phase
<1>4. ph \in Phases /\ ph \in Later[v.phase] /\ (ph = "Idle" <=> v.phase = "Idle")
    BY <1>1 DEF Phases, Later
<1>5. ticks \in Nat /\ ticks >= v.engagedTicks /\ (v.engagedTicks = 0 => ticks <= 1)
    BY <1>1
<1>6. /\ ph = "PhaseOne" => ticks < BerserkTicks
      /\ ph = "PhaseTwo" => ticks <= BerserkTicks
      /\ ticks <= BerserkTicks + 1
      /\ v.phase = "Idle" => ticks = v.engagedTicks
    BY <1>1, <1>2 DEF RowOK, FightOK, Phases
<1>7. (v.health = MaxHealth[m] /\ v.engagedTicks = 0 /\ v.phase \in {"Idle", "PhaseOne"})
      => ph = v.phase
    BY <1>1, <1>2
<1> HIDE DEF ph, ticks
<1>8. /\ w \in Row
      /\ w.engaged = v.engaged /\ w.phase = ph /\ w.engagedTicks = ticks
      /\ w.dead = v.dead /\ w.health = v.health /\ w.respawnIn = v.respawnIn
      /\ w.threat = v.threat /\ w.walking = v.walking /\ w.casting = v.casting
      /\ w.blocked = v.blocked
    BY <1>1, <1>4, <1>5 DEF Row
<1> HIDE DEF w
<1>9. RowOK(m, w)
    <2>1. BodyOK(m, w) /\ GrudgeOK(m, w)
        BY <1>8 DEF RowOK, BodyOK, GrudgeOK
    <2>2. FightOK(m, w)
        BY <1>4, <1>6, <1>8 DEF RowOK, FightOK
    <2> QED BY <1>8, <2>1, <2>2 DEF RowOK
<1>10. Forward(v, w)
    BY <1>4, <1>5, <1>8 DEF Forward
<1> QED BY <1>3, <1>5, <1>7, <1>8, <1>9, <1>10

(* The boss's turn: the fight goes on, or has just begun anew.             *)
LEMMA BossTurnOK ==
    ASSUME NEW m \in Bosses, NEW row, RowOK(m, row), NEW ring, NEW w \in step_boss(row, row, ring)
    PROVE  /\ RowOK(m, w) /\ Forward(row, w)
           /\ Reborn(m, row) =>
                /\ ~ w.dead /\ w.threat = {}
                /\ w.phase \in {"Idle", "PhaseOne"} /\ w.engagedTicks <= 1
<1> m \in Mobs /\ row \in Row
    BY DEF Mobs, RowOK
<1>1. CASE w = row
    <2>1. Forward(row, row)
        BY SameFightIsForward DEF SameFight
    <2> QED BY <1>1, <2>1 DEF Reborn
<1>2. CASE ~ row.dead /\ w = advance_phase(row)
    BY <1>2, AdvancePhaseOK DEF Reborn
<1>3. CASE ~ row.dead /\ w \in chase(row, advance_phase(engage(row)))
    <2> DEFINE e == engage(row)
               v == advance_phase(e)
    <2>1. /\ RowOK(m, e) /\ Forward(row, e)
          /\ ~ e.dead /\ e.respawnIn = row.respawnIn /\ e.threat = row.threat
          /\ Reborn(m, row) => /\ e.phase = "PhaseOne" /\ e.engagedTicks = 0
                               /\ e.health = MaxHealth[m]
        BY <1>3, EngageOK DEF Reborn
    <2> HIDE DEF e
    <2>2. /\ RowOK(m, v) /\ Forward(e, v)
          /\ ~ v.dead /\ v.respawnIn = e.respawnIn /\ v.threat = e.threat
          /\ Reborn(m, row) => v.phase = "PhaseOne" /\ v.engagedTicks <= 1
        BY <2>1, AdvancePhaseOK
    <2>3. w \in chase(row, v)
        BY <1>3 DEF e
    <2> HIDE DEF v
    <2>4. row.dead = v.dead
        BY <1>3, <2>2 DEF RowOK, Row
    <2>5. RowOK(m, w) /\ SameFight(v, w) /\ ~ w.dead /\ w.threat = v.threat
        <3>1. CASE w = v
            BY <2>2, <3>1 DEF SameFight
        <3>2. CASE w \in write_pose(row, v, FALSE)
            BY <2>1, <2>2, <2>4, <3>2, WritePoseOK
        <3>3. CASE w \in Poses(row, v)
            BY <2>1, <2>2, <2>4, <3>3, PosesOK
        <3> QED BY <2>3, <3>1, <3>2, <3>3 DEF chase
    <2>6. Forward(v, w)
        BY <2>2, <2>5, SameFightIsForward DEF RowOK
    <2>7. Forward(row, w)
        BY <2>1, <2>2, <2>5, <2>6, ForwardIsTransitive DEF RowOK
    <2> QED BY <2>1, <2>2, <2>5, <2>7 DEF SameFight, Reborn
<1> QED BY <1>1, <1>2, <1>3 DEF step_boss

-----------------------------------------------------------------------------
(* One tick, for one mob.                                                  *)
LEMMA TickOK ==
    ASSUME \A m \in Mobs : RowOK(m, mob[m]), game_tick, NEW m \in Mobs
    PROVE  /\ RowOK(m, mob'[m])
           /\ m \in Bosses => Forward(mob[m], mob'[m])
                              \/ (mob[m].dead /\ ~ mob'[m].dead /\ Fresh(m))
<1>1. PICK rows \in {Collected}, living \in SUBSET Players :
      \E ring \in SUBSET living :
      \E struck \in [Enemies -> {None} \cup IF ring = {} THEN {} ELSE Bosses] :
          <<m, mob'[m]>> \in Turns(rows, living, ring, struck)
    BY DEF game_tick
<1>2. PICK ring \in SUBSET living :
      \E struck \in [Enemies -> {None} \cup IF ring = {} THEN {} ELSE Bosses] :
          <<m, mob'[m]>> \in Turns(rows, living, ring, struck)
    BY <1>1
<1>3. PICK struck \in [Enemies -> {None} \cup IF ring = {} THEN {} ELSE Bosses] :
          <<m, mob'[m]>> \in Turns(rows, living, ring, struck)
    BY <1>2
<1>4. PICK mr \in Collected : <<m, mob'[m]>> \in
          {<<mr[1], v>> : v \in Turn(mr[1], mr[2], living, ring, struck)}
    BY <1>3 DEF Turns
<1>5. PICK n \in Mobs : mr \in {<<n, row>> : row \in Before(n, mob[n])}
    BY DEF Collected
<1>6. PICK row \in Before(m, mob[m]) : mob'[m] \in Turn(m, row, living, ring, struck)
    BY <1>4, <1>5
<1>7. /\ RowOK(m, row)
      /\ m \in Bosses => Forward(mob[m], row) \/ (mob[m].dead /\ Reborn(m, row))
    BY <1>6, BeforeOK
<1>8. CASE m \in Enemies
    <2>1. m \notin Bosses /\ struck[m] \in {None} \cup Bosses
        BY <1>8, EncounterAssumption
    <2>2. mob'[m] \in EnemyTurn(m, row, living, struck[m])
        BY <1>6, <1>8 DEF Turn
    <2> QED BY <1>7, <1>8, <2>1, <2>2, EnemyTurnOK
<1>9. CASE m \in Bosses
    <2>1. mob'[m] \in step_boss(row, row, ring)
        BY <1>6, <1>9, EncounterAssumption DEF Turn
    <2>2. /\ RowOK(m, mob'[m]) /\ Forward(row, mob'[m])
          /\ Reborn(m, row) => ~ mob'[m].dead /\ Fresh(m)
        BY <1>7, <1>9, <2>1, BossTurnOK DEF Fresh
    <2>3. Forward(mob[m], row) => Forward(mob[m], mob'[m])
        BY <1>7, <2>2, ForwardIsTransitive DEF RowOK
    <2> QED BY <1>7, <1>9, <2>2, <2>3
<1> QED BY <1>8, <1>9 DEF Mobs

LEMMA CastWeaponOK ==
    ASSUME mob \in [Mobs -> Row], \A m \in Mobs : RowOK(m, mob[m]), NEW p \in Players,
           NEW n \in Mobs, NEW what \in Controls, NEW amount \in 1..MaxHealth[n],
           cast_weapon(p, n, amount, what)
    PROVE  /\ mob' \in [Mobs -> Row]
           /\ \A m \in Mobs : RowOK(m, mob'[m])
           /\ \A b \in Bosses : Forward(mob[b], mob'[b])
<1> DEFINE hit == Struck(n, mob[n], p, amount, what)
<1>1. mob' = [mob EXCEPT ![n] = hit] /\ amount \in Nat
    BY EncounterAssumption DEF cast_weapon
<1>2. /\ RowOK(n, hit) /\ SameFight(mob[n], hit) /\ FreshCorpse(n, mob[n], hit)
      /\ n \in Bosses => mob[n].threat \subseteq hit.threat
    BY <1>1, StruckOK
<1> HIDE DEF hit
<1>3. n \in Bosses => Forward(mob[n], hit)
    BY <1>2, SameFightIsForward DEF FreshCorpse
<1>4. \A b \in Mobs : Forward(mob[b], mob[b])
    BY SameFightIsForward DEF SameFight
<1>5. mob' \in [Mobs -> Row] /\ \A m \in Mobs : RowOK(m, mob'[m])
    BY <1>1, <1>2 DEF RowOK
<1> QED BY <1>1, <1>3, <1>4, <1>5 DEF Mobs

LEMMA DeleteOK ==
    ASSUME mob \in [Mobs -> Row], \A m \in Mobs : RowOK(m, mob[m]), NEW p \in Players,
           delete_character(p), NEW m \in Mobs
    PROVE  /\ RowOK(m, mob'[m]) /\ SameFight(mob[m], mob'[m])
           /\ mob'[m].dead = mob[m].dead /\ mob'[m].threat = mob[m].threat \ {p}
<1>1. mob'[m] = [mob[m] EXCEPT !.threat = mob[m].threat \ {p}]
    BY DEF delete_character
<1>2. mob[m] \in Row /\ mob[m].threat \subseteq Players \cup Mobs
    BY DEF Row
<1>3. mob'[m].threat = mob[m].threat \ {p} /\ mob'[m] \in Row
    BY <1>1, <1>2 DEF Row
<1>4. /\ SameFight(mob[m], mob'[m]) /\ BodyOK(m, mob'[m]) /\ FightOK(m, mob'[m])
      /\ mob'[m].dead = mob[m].dead
    BY <1>1, <1>2 DEF RowOK, BodyOK, FightOK, SameFight, Row
<1>5. GrudgeOK(m, mob'[m])
    BY <1>3 DEF RowOK, GrudgeOK
<1> QED BY <1>3, <1>4, <1>5 DEF RowOK

LEMMA NextInv == IInv /\ [Next]_mob => IInv'
<1> SUFFICES ASSUME IInv, [Next]_mob PROVE IInv'
    OBVIOUS
<1>1. mob \in [Mobs -> Row] /\ \A m \in Mobs : RowOK(m, mob[m])
    BY ByRows
<1>2. mob' \in [Mobs -> Row] /\ \A m \in Mobs : RowOK(m, mob'[m])
    <2>1. CASE game_tick
        <3>1. \A m \in Mobs : RowOK(m, mob'[m])
            BY <1>1, <2>1, TickOK
        <3>2. mob' = [m \in Mobs |-> mob'[m]]
            BY <2>1 DEF game_tick
        <3> QED BY <3>1, <3>2 DEF RowOK
    <2>2. ASSUME NEW p \in Players, NEW n \in Mobs, NEW what \in Controls,
                 NEW amount \in 1..MaxHealth[n], cast_weapon(p, n, amount, what)
          PROVE  mob' \in [Mobs -> Row] /\ \A m \in Mobs : RowOK(m, mob'[m])
        BY <1>1, <2>2, CastWeaponOK
    <2>3. ASSUME NEW p \in Players, delete_character(p)
          PROVE  mob' \in [Mobs -> Row] /\ \A m \in Mobs : RowOK(m, mob'[m])
        <3>1. \A m \in Mobs : RowOK(m, mob'[m])
            BY <1>1, <2>3, DeleteOK
        <3>2. mob' = [m \in Mobs |-> mob'[m]]
            BY <2>3 DEF delete_character
        <3> QED BY <3>1, <3>2 DEF RowOK
    <2>4. CASE clear_runtime_state
        <3>1. \A m \in Mobs : RowOK(m, Seeded(m))
            BY SeededOK
        <3> QED BY <2>4, <3>1 DEF clear_runtime_state, RowOK
    <2>5. CASE UNCHANGED mob
        BY <1>1, <2>5
    <2> QED BY <2>1, <2>2, <2>3, <2>4, <2>5 DEF Next
<1>3. (IInv <=> mob \in [Mobs -> Row] /\ \A m \in Mobs : RowOK(m, mob[m]))'
    BY ByRows, PTL
<1> QED BY <1>2, <1>3

(* The rows of the mobs agree with each other between any two transactions,*)
(* whoever strikes whom in whatever order (ai.rs, combat.rs).              *)
THEOREM Invariance == Spec => []IInv
<1>1. Init => IInv
    <2>1. Init => mob \in [Mobs -> Row] /\ \A m \in Mobs : RowOK(m, mob[m])
        BY SeededOK DEF Init, RowOK
    <2> QED BY <2>1, ByRows
<1> QED BY <1>1, NextInv, PTL DEF Spec

(* Of any boss, in any step: its fight runs forward, or begins anew with   *)
(* its next life, or the world is cleared (ai.rs, combat.rs).              *)
THEOREM ForwardHolds == Spec => FightsRunForward
<1> DEFINE Step(b) ==
          \/ clear_runtime_state
          \/ mob[b].dead /\ ~ mob'[b].dead /\ Fresh(b)
          \/ /\ mob[b].dead => mob'[b].dead
             /\ mob[b].engaged => mob'[b].engaged
             /\ mob'[b].phase \in Later[mob[b].phase]
             /\ mob'[b].engagedTicks >= mob[b].engagedTicks
             /\ \A x \in mob[b].threat \ mob'[b].threat : x \in Players /\ delete_character(x)
<1>1. IInv /\ [Next]_mob => [\A b \in Bosses : Step(b)]_mob
    <2> SUFFICES ASSUME IInv, Next, NEW b \in Bosses PROVE Step(b)
        OBVIOUS
    <2>1. mob \in [Mobs -> Row] /\ (\A m \in Mobs : RowOK(m, mob[m])) /\ b \in Mobs
        BY ByRows DEF Mobs
    <2>2. Forward(mob[b], mob'[b]) => Step(b)
        BY DEF Forward
    <2>3. CASE game_tick
        BY <2>1, <2>2, <2>3, TickOK
    <2>4. ASSUME NEW p \in Players, NEW n \in Mobs, NEW what \in Controls,
                 NEW amount \in 1..MaxHealth[n], cast_weapon(p, n, amount, what)
          PROVE  Step(b)
        BY <2>1, <2>2, <2>4, CastWeaponOK
    <2>5. ASSUME NEW p \in Players, delete_character(p)
          PROVE  Step(b)
        <3>1. /\ SameFight(mob[b], mob'[b]) /\ mob'[b].dead = mob[b].dead
              /\ mob'[b].threat = mob[b].threat \ {p}
            BY <2>1, <2>5, DeleteOK
        <3>2. mob[b].phase \in Later[mob[b].phase] /\ mob[b].engagedTicks \in Nat
            BY <2>1 DEF Row, Later, Phases
        <3>3. \A x \in mob[b].threat \ mob'[b].threat : x \in Players /\ delete_character(x)
            BY <2>5, <3>1
        <3> QED BY <3>1, <3>2, <3>3 DEF SameFight
    <2>6. CASE clear_runtime_state
        BY <2>6
    <2> QED BY <2>3, <2>4, <2>5, <2>6 DEF Next
<1>2. FightsRunForward <=> [][\A b \in Bosses : Step(b)]_mob
    BY PTL DEF FightsRunForward
<1> QED BY <1>1, <1>2, Invariance, PTL DEF Spec

=============================================================================
