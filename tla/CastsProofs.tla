----------------------------- MODULE CastsProofs -----------------------------
(***************************************************************************)
(* For any entities, abilities, timers and loadouts: controls are obeyed,  *)
(* cooldowns are paid for what took effect and for nothing else, and the   *)
(* end of a cast is told as it was.                                        *)
(*                                                                         *)
(* A transaction works on a view of the tables and commits it.  Each       *)
(* operation is described by what it does to a view: whom it spares, what  *)
(* the struck suffer, what it leaves of the timers and the verdicts.  The  *)
(* loop over the casts of a tick is followed cast by cast: before its turn *)
(* an entity only suffers the blows of others; its turn finds its cast     *)
(* over or lets it go on; after it, it suffers again.  The turn is counted *)
(* by the position in the order, and what holds at every position is shown *)
(* by well-founded induction on the positions.                             *)
(*                                                                         *)
(* The invariant adds to the two that the runs check that a wind-up under  *)
(* way has not been paid for: without it a completed wind-up might not     *)
(* start the cooldown that CooldownIffFired asks for.                      *)
(***************************************************************************)
EXTENDS Casts, FiniteSetTheorems, SequenceTheorems, WellFoundedInduction, TLAPS

LEMMA Bounds ==
    /\ Characters \cap Creatures = {} /\ IsFiniteSet(Entities)
    /\ Kind \in [Abilities -> {"Instant", "CastTime", "Channeling"}]
    /\ Required \in [Abilities -> Nat \ {0}]
    /\ Interval \in [Abilities -> Nat \ {0}]
    /\ Cooldown \in [Abilities -> Nat \ {0}]
    /\ Control \in [Abilities -> Controls \cup {None}]
    /\ ControlTime \in [Controls -> Nat \ {0}]
    /\ Kit \subseteq Abilities /\ Loadouts \subseteq SUBSET Abilities
    /\ MaxStep \in Nat \ {0} /\ \A a \in Abilities : Cooldown[a] > MaxStep
    /\ None \notin BOOLEAN /\ None \notin CastState
  <1>1. IsFiniteSet(Entities)
    BY CastsAssumption, FS_Union DEF Entities
  <1> QED
    BY <1>1, CastsAssumption, NoneIsNoCast

-----------------------------------------------------------------------------
(* Views: what a transaction may make of the tables.                       *)

SoundRow == {r \in Row : \A k \in Controls : r.control[k] <= ControlTime[k]}

Underway ==
    {c \in CastState :
        /\ Kind[c.ability] # "Instant"
        /\ c.elapsed < Required[c.ability]
        /\ Kind[c.ability] = "Channeling" /\ c.elapsed > 0 => c.acc < Interval[c.ability]}

Timers == {t \in [Abilities -> Nat] : \A a \in Abilities : t[a] <= Cooldown[a]}

Rows == [Entities -> SoundRow]
CastTable == [Entities -> Underway \cup {None}]
Events == [Entities -> Seq(Ended)]
Cooldowns == [Entities -> Timers]
Verdicts == [Entities -> BOOLEAN \cup {None}]

View ==
    [entity : Rows, cast : CastTable, cooldown : Cooldowns,
     fired : SUBSET (Entities \X Abilities), told : Events, ending : Verdicts]

(* No control is disobeyed.                                                *)
Obeys(w, e) ==
    /\ casting_blocked(w, e) => w.cast[e] = None
    /\ is_movement_blocked(w, e) => ~ w.entity[e].walking

(* The same row, cast and events.                                          *)
Spared(w, x, e) ==
    x.entity[e] = w.entity[e] /\ x.cast[e] = w.cast[e] /\ x.told[e] = w.told[e]

(* The same timers, effects and verdicts.                                  *)
SameRest(w, x) ==
    x.cooldown = w.cooldown /\ x.fired = w.fired /\ x.ending = w.ending

Interrupted(w, x, e) ==
    /\ w.cast[e] # None /\ x.cast[e] = None
    /\ x.told[e] = Append(w.told[e], [ability |-> w.cast[e].ability, interrupted |-> TRUE])

(* What blows may do to an entity: if they take its cast they tell it, and *)
(* it is then under a control that forbids one.                            *)
Suffers(w, x, e) ==
    /\ casting_blocked(w, e) => casting_blocked(x, e)
    /\ \/ x.cast[e] = w.cast[e] /\ x.told[e] = w.told[e]
       \/ Interrupted(w, x, e) /\ casting_blocked(x, e)
    /\ Obeys(w, e) => Obeys(x, e)

LEMMA TablesAreAView ==
    ASSUME TypeOK
    PROVE  Tables \in View
  BY DEF TypeOK, Tables, View, Rows, CastTable, Events, Cooldowns, Verdicts, SoundRow, Underway, Timers

LEMMA CommitView ==
    ASSUME NEW w \in View, Commit(w)
    PROVE  TypeOK'
  BY DEF TypeOK, Commit, View, Rows, CastTable, Events, Cooldowns, SoundRow, Underway, Timers

(* A view with other rows, casts and events.                               *)
Rewrite(w, rows, casts, events) ==
    [w EXCEPT !.entity = rows, !.cast = casts, !.told = events]

LEMMA Rewritten ==
    ASSUME NEW w \in View,
           NEW rows \in Rows,
           NEW casts \in CastTable,
           NEW events \in Events,
           NEW x, x = Rewrite(w, rows, casts, events)
    PROVE  /\ x \in View /\ SameRest(w, x)
           /\ x.entity = rows /\ x.cast = casts /\ x.told = events
  BY DEF View, SameRest, Rewrite

Note(a, b) == [ability |-> a, interrupted |-> b]

LEMMA EndCastView ==
    ASSUME NEW w \in View, NEW e \in Entities, NEW a \in Abilities, NEW b \in BOOLEAN
    PROVE  LET x == end_cast(w, e, a, b)
           IN  /\ x \in View /\ SameRest(w, x) /\ x.entity = w.entity
               /\ \A u \in Entities : u # e => Spared(w, x, u)
               /\ x.cast[e] = None
               /\ x.told[e] = Append(w.told[e], Note(a, b))
  <1> DEFINE x == end_cast(w, e, a, b)
  <1>1. x = [w EXCEPT !.cast = [w.cast EXCEPT ![e] = None],
                      !.told = [w.told EXCEPT ![e] =
                                  Append(w.told[e], Note(a, b))]]
    BY DEF end_cast, Note
  <1>2. Note(a, b) \in Ended
    BY DEF Ended, Note
  <1>3. Append(w.told[e], Note(a, b)) \in Seq(Ended)
    BY <1>2 DEF View, Events
  <1> DEFINE casts == [w.cast EXCEPT ![e] = None]
             events == [w.told EXCEPT ![e] =
                           Append(w.told[e], Note(a, b))]
  <1> HIDE DEF x
  <1>4. /\ casts \in CastTable /\ events \in Events
        /\ w.entity \in Rows
        /\ w.cast \in CastTable /\ w.told \in Events
    BY <1>3 DEF View, Rows, CastTable, Events
  <1>5. x = Rewrite(w, w.entity, casts, events)
    BY <1>1 DEF View, Rewrite
  <1> HIDE DEF casts, events
  <1>6. /\ x \in View /\ SameRest(w, x)
        /\ x.entity = w.entity /\ x.cast = casts /\ x.told = events
    BY <1>4, <1>5, Rewritten
  <1> QED
    BY <1>4, <1>6 DEF Spared, casts, events, x, CastTable, Events

LEMMA CancelView ==
    ASSUME NEW w \in View, NEW e \in Entities
    PROVE  LET x == cancel_cast(w, e)
           IN  /\ x \in View /\ SameRest(w, x) /\ x.entity = w.entity
               /\ \A u \in Entities : u # e => Spared(w, x, u)
               /\ x.cast[e] = None
               /\ \/ w.cast[e] = None /\ x.told[e] = w.told[e]
                  \/ Interrupted(w, x, e)
  <1>1. CASE w.cast[e] = None
    BY <1>1 DEF cancel_cast, SameRest, Spared
  <1>2. CASE w.cast[e] # None
    <2>1. w.cast[e].ability \in Abilities
      BY <1>2 DEF View, CastTable, Underway, CastState
    <2> QED
      BY <1>2, <2>1, EndCastView DEF cancel_cast, Interrupted, Note
  <1> QED
    BY <1>1, <1>2

LEMMA FreezeView ==
    ASSUME NEW w \in View, NEW e \in Entities
    PROVE  LET x == freeze(w, e)
           IN  /\ x \in View /\ SameRest(w, x) /\ x.cast = w.cast /\ x.told = w.told
               /\ \A u \in Entities : u # e => Spared(w, x, u)
               /\ x.entity[e] = [w.entity[e] EXCEPT !.walking = FALSE]
  <1> DEFINE x == freeze(w, e)
             rows == [w.entity EXCEPT ![e] = [w.entity[e] EXCEPT !.walking = FALSE]]
  <1>1. /\ w.entity \in Rows
        /\ w.cast \in CastTable /\ w.told \in Events
    BY DEF View
  <1>2. [w.entity[e] EXCEPT !.walking = FALSE] \in SoundRow
    BY <1>1 DEF Rows, SoundRow, Row
  <1>3. rows \in Rows
    BY <1>1, <1>2 DEF Rows
  <1>4. x = Rewrite(w, rows, w.cast, w.told)
    BY DEF View, freeze, Rewrite
  <1> HIDE DEF rows, x
  <1>5. /\ x \in View /\ SameRest(w, x)
        /\ x.entity = rows /\ x.cast = w.cast /\ x.told = w.told
    BY <1>1, <1>3, <1>4, Rewritten
  <1> QED
    BY <1>1, <1>5 DEF Spared, rows, x, Rows

-----------------------------------------------------------------------------
(* What a blow does to a row.                                              *)

(* One entity's row is replaced.                                           *)
WithRow(w, e, r) == [w EXCEPT !.entity = [w.entity EXCEPT ![e] = r]]

LEMMA RowView ==
    ASSUME NEW w \in View, NEW e \in Entities, NEW r \in SoundRow,
           NEW x, x = WithRow(w, e, r)
    PROVE  /\ x \in View /\ SameRest(w, x) /\ x.cast = w.cast /\ x.told = w.told
           /\ \A u \in Entities : u # e => Spared(w, x, u)
           /\ x.entity[e] = r
  <1> DEFINE rows == [w.entity EXCEPT ![e] = r]
  <1>1. w.entity \in Rows /\ w.cast \in CastTable /\ w.told \in Events
    BY DEF View
  <1>2. rows \in Rows
    BY <1>1 DEF Rows
  <1>3. x = Rewrite(w, rows, w.cast, w.told)
    BY DEF View, Rewrite, WithRow
  <1> HIDE DEF rows
  <1>4. /\ x \in View /\ SameRest(w, x)
        /\ x.entity = rows /\ x.cast = w.cast /\ x.told = w.told
    BY <1>1, <1>2, <1>3, Rewritten
  <1> QED
    BY <1>1, <1>4 DEF Spared, rows, Rows

(* The gates look at the row only.                                         *)
LEMMA GatesOfSpared ==
    ASSUME NEW w, NEW x, NEW e, x.entity[e].control = w.entity[e].control
    PROVE  /\ casting_blocked(x, e) <=> casting_blocked(w, e)
           /\ is_movement_blocked(x, e) <=> is_movement_blocked(w, e)
  BY DEF casting_blocked, is_movement_blocked, Under

LEMMA SparedSuffers ==
    ASSUME NEW w, NEW x, NEW e, Spared(w, x, e)
    PROVE  Suffers(w, x, e)
  BY GatesOfSpared DEF Spared, Suffers, Obeys

LEMMA SuffersTransitive ==
    ASSUME NEW w, NEW x, NEW y, NEW e, Suffers(w, x, e), Suffers(x, y, e)
    PROVE  Suffers(w, y, e)
  BY DEF Suffers, Interrupted

(* Cancelling, or not, and then freezing, or not, an entity that a control *)
(* has just landed on.                                                     *)
LEMMA EnforceView ==
    ASSUME NEW w \in View, NEW e \in Entities, NEW kind \in Controls
    PROVE  LET x == Enforce(w, e, kind)
           IN  /\ x \in View /\ SameRest(w, x)
               /\ \A u \in Entities : u # e => Spared(w, x, u)
               /\ x.entity[e].control = w.entity[e].control
               /\ kind \in BlocksCasting => x.cast[e] = None
               /\ kind \in BlocksMovement => x.entity[e].walking = FALSE
               /\ w.entity[e].walking = FALSE => x.entity[e].walking = FALSE
               /\ \/ x.cast[e] = w.cast[e] /\ x.told[e] = w.told[e]
                  \/ kind \in BlocksCasting /\ Interrupted(w, x, e)
  <1> DEFINE gagged == IF kind \in BlocksCasting THEN cancel_cast(w, e) ELSE w
             x == Enforce(w, e, kind)
  <1>1. /\ gagged \in View /\ SameRest(w, gagged) /\ gagged.entity = w.entity
        /\ \A u \in Entities : u # e => Spared(w, gagged, u)
        /\ kind \in BlocksCasting => gagged.cast[e] = None
        /\ \/ gagged.cast[e] = w.cast[e] /\ gagged.told[e] = w.told[e]
           \/ kind \in BlocksCasting /\ Interrupted(w, gagged, e)
    BY CancelView DEF SameRest, Spared
  <1>2. x = IF kind \in BlocksMovement THEN freeze(gagged, e) ELSE gagged
    BY DEF Enforce
  <1> HIDE DEF gagged, x
  <1>3. CASE kind \notin BlocksMovement
    BY <1>1, <1>2, <1>3 DEF x
  <1>4. CASE kind \in BlocksMovement
    <2>1. /\ x \in View /\ SameRest(gagged, x) /\ x.cast = gagged.cast
          /\ x.told = gagged.told
          /\ \A u \in Entities : u # e => Spared(gagged, x, u)
          /\ x.entity[e] = [gagged.entity[e] EXCEPT !.walking = FALSE]
      BY <1>1, <1>2, <1>4, FreezeView
    <2>2. w.entity[e] \in Row
      BY DEF View, Rows, SoundRow
    <2>3. x.entity[e].control = w.entity[e].control /\ x.entity[e].walking = FALSE
      BY <1>1, <2>1, <2>2 DEF Row
    <2>4. SameRest(w, x) /\ \A u \in Entities : u # e => Spared(w, x, u)
      BY <1>1, <2>1 DEF SameRest, Spared
    <2> QED
      BY <1>1, <1>4, <2>1, <2>3, <2>4 DEF x, Interrupted
  <1> QED
    BY <1>3, <1>4

LEMMA MaterializeView ==
    ASSUME NEW w \in View, NEW e \in Entities, NEW kind \in Controls
    PROVE  LET x == materialize(w, e, kind)
           IN  /\ x \in View /\ SameRest(w, x)
               /\ \A u \in Entities : u # e => Spared(w, x, u)
               /\ Suffers(w, x, e)
  <1> DEFINE r == [w.entity[e] EXCEPT !.control = [w.entity[e].control EXCEPT ![kind] = ControlTime[kind]]]
             y == WithRow(w, e, r)
             x == materialize(w, e, kind)
  <1>0. x = Enforce(y, e, kind)
    BY DEF materialize, WithRow
  <1>1. w.entity[e] \in SoundRow
    BY DEF View, Rows
  <1>2. r \in SoundRow /\ r.walking = w.entity[e].walking
    BY <1>1, Bounds DEF SoundRow, Row
  <1>3. /\ r.control[kind] > 0
        /\ \A k \in Controls : w.entity[e].control[k] > 0 => r.control[k] > 0
        /\ \A k \in Controls : k # kind => r.control[k] = w.entity[e].control[k]
    BY <1>1, Bounds DEF SoundRow, Row
  <1> HIDE DEF r
  <1>4. /\ y \in View /\ SameRest(w, y) /\ y.cast = w.cast /\ y.told = w.told
        /\ \A u \in Entities : u # e => Spared(w, y, u)
        /\ y.entity[e] = r
    BY <1>2, RowView
  <1> HIDE DEF y, x
  <1>5. /\ x \in View /\ SameRest(y, x)
        /\ \A u \in Entities : u # e => Spared(y, x, u)
        /\ x.entity[e].control = r.control
        /\ kind \in BlocksCasting => x.cast[e] = None
        /\ kind \in BlocksMovement => x.entity[e].walking = FALSE
        /\ y.entity[e].walking = FALSE => x.entity[e].walking = FALSE
        /\ \/ x.cast[e] = y.cast[e] /\ x.told[e] = y.told[e]
           \/ kind \in BlocksCasting /\ Interrupted(y, x, e)
    BY <1>0, <1>4, EnforceView
  <1>6. SameRest(w, x) /\ \A u \in Entities : u # e => Spared(w, x, u)
    BY <1>4, <1>5 DEF SameRest, Spared
  <1>7. /\ casting_blocked(w, e) => casting_blocked(x, e)
        /\ kind \in BlocksCasting => casting_blocked(x, e)
    BY <1>3, <1>5 DEF casting_blocked, Under
  <1>8. casting_blocked(x, e) => casting_blocked(w, e) \/ kind \in BlocksCasting
    BY <1>3, <1>5 DEF casting_blocked, Under
  <1>9. is_movement_blocked(x, e) => is_movement_blocked(w, e) \/ kind \in BlocksMovement
    BY <1>3, <1>5 DEF is_movement_blocked, Under
  <1>10. \/ x.cast[e] = w.cast[e] /\ x.told[e] = w.told[e]
         \/ Interrupted(w, x, e) /\ casting_blocked(x, e)
    BY <1>4, <1>5, <1>7 DEF Interrupted
  <1>a. x.entity[e].walking \in BOOLEAN /\ w.entity[e].walking \in BOOLEAN
    BY <1>5 DEF View, Rows, SoundRow, Row
  <1>11. Obeys(w, e) => Obeys(x, e)
    <2>1. SUFFICES ASSUME Obeys(w, e) PROVE Obeys(x, e)
      OBVIOUS
    <2>2. casting_blocked(x, e) => x.cast[e] = None
      BY <1>5, <1>8, <1>10, <2>1 DEF Obeys, Interrupted
    <2>3. is_movement_blocked(x, e) => ~ x.entity[e].walking
      BY <1>2, <1>4, <1>5, <1>9, <1>a, <2>1 DEF Obeys
    <2> QED
      BY <2>2, <2>3 DEF Obeys
  <1> QED
    BY <1>5, <1>6, <1>7, <1>10, <1>11 DEF Suffers, x

LEMMA KillView ==
    ASSUME NEW w \in View, NEW e \in Entities
    PROVE  LET x == kill(w, e)
           IN  /\ x \in View /\ SameRest(w, x)
               /\ \A u \in Entities : u # e => Spared(w, x, u)
               /\ Suffers(w, x, e)
  <1> DEFINE r == [w.entity[e] EXCEPT !.dead = TRUE, !.walking = FALSE]
             x == kill(w, e)
  <1>1. w.entity[e] \in SoundRow
    BY DEF View, Rows
  <1>2. r \in SoundRow /\ r.walking = FALSE /\ r.control = w.entity[e].control
    BY <1>1 DEF SoundRow, Row
  <1>3. x = WithRow(w, e, r)
    BY DEF kill, View, Rows, WithRow
  <1> HIDE DEF r, x
  <1>4. /\ x \in View /\ SameRest(w, x) /\ x.cast = w.cast /\ x.told = w.told
        /\ \A u \in Entities : u # e => Spared(w, x, u)
        /\ x.entity[e] = r
    BY <1>2, <1>3, RowView
  <1>5. /\ casting_blocked(x, e) <=> casting_blocked(w, e)
        /\ is_movement_blocked(x, e) <=> is_movement_blocked(w, e)
    BY <1>2, <1>4, GatesOfSpared
  <1>6. Suffers(w, x, e)
    BY <1>2, <1>4, <1>5 DEF Suffers, Obeys
  <1> QED
    BY <1>4, <1>6 DEF x

LEMMA StruckView ==
    ASSUME NEW w \in View, NEW e \in Entities, NEW lethal \in BOOLEAN,
           NEW kind \in Controls \cup {None}
    PROVE  LET x == Struck(w, e, lethal, kind)
           IN  /\ x \in View /\ SameRest(w, x)
               /\ \A u \in Entities : u # e => Spared(w, x, u)
               /\ Suffers(w, x, e)
  <1> DEFINE hurt == IF lethal THEN kill(w, e) ELSE w
             x == Struck(w, e, lethal, kind)
  <1>1. /\ hurt \in View /\ SameRest(w, hurt)
        /\ \A u \in Entities : u # e => Spared(w, hurt, u)
        /\ Suffers(w, hurt, e)
    BY KillView, SparedSuffers DEF SameRest, Spared
  <1>2. x = IF kind = None THEN hurt ELSE materialize(hurt, e, kind)
    BY DEF Struck
  <1> HIDE DEF hurt, x
  <1>3. CASE kind = None
    BY <1>1, <1>2, <1>3 DEF x
  <1>4. CASE kind # None
    <2>1. /\ x \in View /\ SameRest(hurt, x)
          /\ \A u \in Entities : u # e => Spared(hurt, x, u)
          /\ Suffers(hurt, x, e)
      BY <1>1, <1>2, <1>4, MaterializeView
    <2>2. SameRest(w, x) /\ \A u \in Entities : u # e => Spared(w, x, u)
      BY <1>1, <2>1 DEF SameRest, Spared
    <2> QED
      BY <1>1, <2>1, <2>2, SuffersTransitive DEF x
  <1> QED
    BY <1>3, <1>4

-----------------------------------------------------------------------------
(* Effects, timers, verdicts and casts of a view.                          *)

LEMMA FieldsTyped ==
    ASSUME NEW w \in View
    PROVE  /\ w.entity \in Rows /\ w.cast \in CastTable /\ w.told \in Events
           /\ w.cooldown \in Cooldowns /\ w.ending \in Verdicts
           /\ w.fired \in SUBSET (Entities \X Abilities)
  BY DEF View

(* The effects are marked, or the timer set.                               *)
Mark(w, e, a) == [w EXCEPT !.fired = @ \cup {<<e, a>>}]

LEMMA MarkView ==
    ASSUME NEW w \in View, NEW e \in Entities, NEW a \in Abilities
    PROVE  LET x == Mark(w, e, a)
           IN  /\ x \in View /\ x.fired = w.fired \cup {<<e, a>>}
               /\ x.cooldown = w.cooldown /\ x.ending = w.ending
               /\ \A u \in Entities : Spared(w, x, u)
  BY DEF Mark, View, Spared

LEMMA FireView ==
    ASSUME NEW w \in View, NEW e \in Entities, NEW a \in Abilities,
           NEW reach \in SUBSET Entities
    PROVE  LET x == fire(w, e, a, reach)
           IN  /\ x \in View /\ x.fired = w.fired \cup {<<e, a>>}
               /\ x.cooldown = w.cooldown /\ x.ending = w.ending
               /\ \A u \in Entities : Suffers(w, x, u)
               /\ \A u \in Entities \ reach : Spared(w, x, u)
  <1> DEFINE S == {v \in reach : ~ w.entity[v].dead}
             T(u) == Struck(w, u, a \in Lethal, Control[a])
             rows == [u \in Entities |-> IF u \in S THEN T(u).entity[u] ELSE w.entity[u]]
             casts == [u \in Entities |-> IF u \in S THEN T(u).cast[u] ELSE w.cast[u]]
             events == [u \in Entities |-> IF u \in S THEN T(u).told[u] ELSE w.told[u]]
             y == IF S = {} THEN w ELSE Rewrite(w, rows, casts, events)
             x == fire(w, e, a, reach)
  <1>1. ASSUME NEW u \in Entities
        PROVE  T(u) \in View /\ Suffers(w, T(u), u)
    <2>1. (a \in Lethal) \in BOOLEAN /\ Control[a] \in Controls \cup {None}
      BY Bounds
    <2> QED
      BY <2>1, StruckView
  <1>2. x = Mark(y, e, a)
    BY DEF fire, ToEach, Mark, Rewrite
  <1>3. S \subseteq Entities /\ S \subseteq reach
    OBVIOUS
  <1> HIDE DEF x, S, T
  <1>4. rows \in Rows /\ casts \in CastTable /\ events \in Events
    <2>1. w.entity \in Rows /\ w.cast \in CastTable /\ w.told \in Events
      BY FieldsTyped
    <2>2. \A u \in Entities : T(u).entity \in Rows /\ T(u).cast \in CastTable /\ T(u).told \in Events
      BY <1>1, FieldsTyped
    <2> QED
      BY <2>1, <2>2 DEF Rows, CastTable, Events
  <1>5. /\ y \in View /\ SameRest(w, y)
        /\ \A u \in Entities : u \in S => Spared(T(u), y, u)
        /\ \A u \in Entities : u \notin S => Spared(w, y, u)
    <2>1. CASE S = {}
      BY <2>1 DEF SameRest, Spared
    <2>2. CASE S # {}
      <3> DEFINE z == Rewrite(w, rows, casts, events)
      <3>0. y = z
        BY <2>2
      <3>a. /\ \A u \in Entities : rows[u] = IF u \in S THEN T(u).entity[u] ELSE w.entity[u]
            /\ \A u \in Entities : casts[u] = IF u \in S THEN T(u).cast[u] ELSE w.cast[u]
            /\ \A u \in Entities : events[u] = IF u \in S THEN T(u).told[u] ELSE w.told[u]
        OBVIOUS
      <3> HIDE DEF rows, casts, events, z, y
      <3>1. /\ z \in View /\ SameRest(w, z)
            /\ z.entity = rows /\ z.cast = casts /\ z.told = events
        <4>1. z = Rewrite(w, rows, casts, events)
          BY DEF z
        <4> QED
          BY <1>4, <4>1, Rewritten
      <3> QED
        BY <3>0, <3>a, <3>1 DEF Spared
    <2> QED
      BY <2>1, <2>2
  <1> HIDE DEF rows, casts, events, y
  <1>6. \A u \in Entities : Suffers(w, y, u)
    BY <1>1, <1>5, SparedSuffers, SuffersTransitive
  <1>7. /\ x \in View /\ x.fired = y.fired \cup {<<e, a>>}
        /\ x.cooldown = y.cooldown /\ x.ending = y.ending
        /\ \A u \in Entities : Spared(y, x, u)
    BY <1>2, <1>5, MarkView
  <1>8. \A u \in Entities : Suffers(w, x, u)
    BY <1>6, <1>7, SparedSuffers, SuffersTransitive
  <1>9. \A u \in Entities \ reach : Spared(w, x, u)
    BY <1>3, <1>5, <1>7 DEF Spared
  <1> QED
    BY <1>5, <1>7, <1>8, <1>9 DEF SameRest, x

LEMMA CoolingView ==
    ASSUME NEW w \in View, NEW e \in Entities, NEW a \in Abilities
    PROVE  LET x == start_cooldown(w, e, a)
           IN  /\ x \in View /\ x.fired = w.fired /\ x.ending = w.ending
               /\ x.cooldown[e] = [w.cooldown[e] EXCEPT ![a] = Cooldown[a]]
               /\ \A u \in Entities : u # e => x.cooldown[u] = w.cooldown[u]
               /\ \A u \in Entities : Spared(w, x, u)
  <1> DEFINE t == [w.cooldown[e] EXCEPT ![a] = Cooldown[a]]
             c == [w.cooldown EXCEPT ![e] = t]
             x == start_cooldown(w, e, a)
  <1>1. w.cooldown[e] \in Timers /\ w.cooldown \in Cooldowns
    BY FieldsTyped DEF Cooldowns
  <1>2. t \in Timers
    BY <1>1, Bounds DEF Timers
  <1>3. x = [w EXCEPT !.cooldown = c]
    BY DEF start_cooldown
  <1> HIDE DEF t
  <1>4. c \in Cooldowns /\ c[e] = t /\ \A u \in Entities : u # e => c[u] = w.cooldown[u]
    BY <1>1, <1>2 DEF Cooldowns
  <1> HIDE DEF c, x
  <1>5. x \in View /\ x.cooldown = c /\ x.fired = w.fired /\ x.ending = w.ending
    BY <1>3, <1>4 DEF View
  <1>6. \A u \in Entities : Spared(w, x, u)
    BY <1>3 DEF View, Spared
  <1> QED
    BY <1>4, <1>5, <1>6 DEF t, x

(* A verdict on a cast.                                                    *)
Judge(w, e, b) == [w EXCEPT !.ending[e] = b]

LEMMA VerdictView ==
    ASSUME NEW w \in View, NEW e \in Entities, NEW b \in BOOLEAN,
           NEW x, x = Judge(w, e, b)
    PROVE  /\ x \in View /\ x.fired = w.fired /\ x.cooldown = w.cooldown
           /\ x.ending[e] = b
           /\ \A u \in Entities : u # e => x.ending[u] = w.ending[u]
           /\ \A u \in Entities : Spared(w, x, u)
  <1> DEFINE v == [w.ending EXCEPT ![e] = b]
  <1>1. v \in Verdicts /\ v[e] = b /\ \A u \in Entities : u # e => v[u] = w.ending[u]
    BY FieldsTyped DEF Verdicts
  <1>2. x = [w EXCEPT !.ending = v]
    BY DEF Judge
  <1> HIDE DEF v
  <1>3. x \in View /\ x.ending = v /\ x.fired = w.fired /\ x.cooldown = w.cooldown
    BY <1>1, <1>2 DEF View
  <1>4. \A u \in Entities : Spared(w, x, u)
    BY <1>2 DEF View, Spared
  <1> QED
    BY <1>1, <1>3, <1>4

Failed(x, e) == x.ending[e] = TRUE
Finished(x, e) == x.ending[e] = FALSE

Fail(w, e) == [w EXCEPT !.ending[e] = TRUE]
Finish(w, e) == [w EXCEPT !.ending[e] = FALSE]

LEMMA JudgedOver ==
    ASSUME NEW w \in View, NEW e \in Entities, NEW x, x = Fail(w, e)
    PROVE  /\ x \in View /\ x.fired = w.fired /\ x.cooldown = w.cooldown
           /\ Failed(x, e)
           /\ \A u \in Entities : u # e => x.ending[u] = w.ending[u]
           /\ \A u \in Entities : Spared(w, x, u)
  <1>1. PICK b \in BOOLEAN : b = TRUE
    OBVIOUS
  <1>2. x = Judge(w, e, b)
    BY <1>1 DEF Judge, Fail
  <1> QED
    BY <1>1, <1>2, VerdictView DEF Failed, Finished

LEMMA JudgedDone ==
    ASSUME NEW w \in View, NEW e \in Entities, NEW x, x = Finish(w, e)
    PROVE  /\ x \in View /\ x.fired = w.fired /\ x.cooldown = w.cooldown
           /\ Finished(x, e)
           /\ \A u \in Entities : u # e => x.ending[u] = w.ending[u]
           /\ \A u \in Entities : Spared(w, x, u)
  <1>1. PICK b \in BOOLEAN : b = FALSE
    OBVIOUS
  <1>2. x = Judge(w, e, b)
    BY <1>1 DEF Judge, Finish
  <1> QED
    BY <1>1, <1>2, VerdictView DEF Failed, Finished

(* A cast is opened or written back.                                       *)
WithCast(w, e, c) == [w EXCEPT !.cast[e] = c]

LEMMA CastView ==
    ASSUME NEW w \in View, NEW e \in Entities, NEW c \in Underway,
           NEW x, x = WithCast(w, e, c)
    PROVE  /\ x \in View /\ SameRest(w, x) /\ x.entity = w.entity /\ x.told = w.told
           /\ x.cast[e] = c
           /\ \A u \in Entities : u # e => Spared(w, x, u)
  <1> DEFINE casts == [w.cast EXCEPT ![e] = c]
  <1>1. casts \in CastTable /\ casts[e] = c /\ \A u \in Entities : u # e => casts[u] = w.cast[u]
    BY FieldsTyped DEF CastTable
  <1>2. x = [w EXCEPT !.cast = casts]
    BY DEF WithCast
  <1> HIDE DEF casts
  <1>3. x \in View /\ SameRest(w, x) /\ x.entity = w.entity /\ x.told = w.told /\ x.cast = casts
    BY <1>1, <1>2 DEF View, SameRest
  <1> QED
    BY <1>1, <1>3 DEF Spared

-----------------------------------------------------------------------------
(* The turn of one cast.                                                   *)

(* The cast of e is found over: cancelled, a wind-up completed and paid,   *)
(* or a channel that has run its course.                                   *)
FoundOver(x, y, e, a) ==
    /\ y.cast[e] = x.cast[e]
    /\ \/ Failed(y, e) /\ y.fired = x.fired /\ y.cooldown[e] = x.cooldown[e]
       \/ /\ Finished(y, e) /\ Kind[a] = "CastTime"
          /\ y.fired = x.fired \cup {<<e, a>>}
          /\ y.cooldown[e] = [x.cooldown[e] EXCEPT ![a] = Cooldown[a]]
       \/ /\ Finished(y, e) /\ Kind[a] = "Channeling"
          /\ y.fired \in {x.fired, x.fired \cup {<<e, a>>}}
          /\ y.cooldown[e] = x.cooldown[e]

(* Or it goes on.                                                          *)
GoesOn(x, y, e, a) ==
    /\ y.ending[e] = x.ending[e] /\ y.cooldown[e] = x.cooldown[e]
    /\ x.cast[e] # None /\ y.cast[e] # None /\ y.cast[e].ability = a
    /\ \/ y.fired = x.fired
       \/ Kind[a] = "Channeling" /\ y.fired = x.fired \cup {<<e, a>>}

(* What the turn of one cast does to the others.                           *)
Others(x, y, e) ==
    \A u \in Entities : u # e =>
        Suffers(x, y, u) /\ y.cooldown[u] = x.cooldown[u] /\ y.ending[u] = x.ending[u]

LEMMA OthersOfSame ==
    ASSUME NEW x, NEW y, NEW e, y.cooldown = x.cooldown, y.ending = x.ending,
           \A u \in Entities : u # e => Suffers(x, y, u)
    PROVE  Others(x, y, e)
  BY DEF Others

LEMMA OthersTransitive ==
    ASSUME NEW x, NEW y, NEW z, NEW e, Others(x, y, e), Others(y, z, e)
    PROVE  Others(x, z, e)
  BY SuffersTransitive DEF Others

LEMMA SparedObeys ==
    ASSUME NEW x, NEW y, NEW e, Spared(x, y, e)
    PROVE  /\ Obeys(x, e) <=> Obeys(y, e)
           /\ casting_blocked(x, e) <=> casting_blocked(y, e)
  <1>1. Spared(y, x, e)
    BY DEF Spared
  <1> QED
    BY <1>1, GatesOfSpared DEF Spared, Obeys

LEMMA WrittenBack ==
    ASSUME NEW c \in CastState, NEW more \in Nat, NEW acc \in Nat
    PROVE  [c EXCEPT !.elapsed = more, !.acc = acc]
           = [ability |-> c.ability, elapsed |-> more, acc |-> acc, away |-> c.away]
  <1> DEFINE r == [c EXCEPT !.elapsed = more, !.acc = acc]
             d == [ability |-> c.ability, elapsed |-> more, acc |-> acc, away |-> c.away]
  <1>1. /\ r \in CastState /\ r.ability = c.ability /\ r.elapsed = more
        /\ r.acc = acc /\ r.away = c.away
    BY DEF CastState
  <1>2. /\ d \in CastState /\ d.ability = c.ability /\ d.elapsed = more
        /\ d.acc = acc /\ d.away = c.away
    BY DEF CastState
  <1> HIDE DEF r, d
  <1>3. /\ r = [ability |-> r.ability, elapsed |-> r.elapsed, acc |-> r.acc, away |-> r.away]
        /\ d = [ability |-> d.ability, elapsed |-> d.elapsed, acc |-> d.acc, away |-> d.away]
    BY <1>1, <1>2 DEF CastState
  <1>4. r = d
    BY <1>1, <1>2, <1>3
  <1> QED
    BY <1>4 DEF r, d

LEMMA KeepView ==
    ASSUME NEW x \in View, NEW e \in Entities, NEW c \in Underway, NEW dt \in Nat \ {0},
           c.elapsed + dt < Required[c.ability], ~ casting_blocked(x, e), Obeys(x, e)
    PROVE  LET y == KeepCasting(x, e, c, dt)
           IN  /\ y \in View /\ SameRest(x, y) /\ Obeys(y, e) /\ y.told[e] = x.told[e]
               /\ y.cast[e] # None /\ y.cast[e].ability = c.ability
               /\ \A u \in Entities : u # e => Spared(x, y, u)
  <1> DEFINE acc == IF Kind[c.ability] = "Channeling"
                    THEN (c.acc + dt) % Interval[c.ability] ELSE c.acc
             d == [ability |-> c.ability, elapsed |-> c.elapsed + dt, acc |-> acc,
                   away |-> c.away]
             y == KeepCasting(x, e, c, dt)
  <1>1. c.ability \in Abilities /\ c.elapsed \in Nat /\ c.acc \in Nat /\ c \in CastState
    BY DEF Underway, CastState
  <1>2. Interval[c.ability] \in Nat \ {0}
    BY <1>1, Bounds
  <1>3. (c.acc + dt) % Interval[c.ability] \in 0..(Interval[c.ability] - 1)
    BY <1>1, <1>2
  <1>4. acc \in Nat /\ (Kind[c.ability] = "Channeling" => acc < Interval[c.ability])
    BY <1>1, <1>2, <1>3
  <1>a. c.away \in BOOLEAN /\ c.elapsed + dt \in Nat
    BY <1>1 DEF CastState
  <1>5. y = WithCast(x, e, d)
    <2>1. [c EXCEPT !.elapsed = c.elapsed + dt, !.acc = acc] = d
      BY <1>1, <1>4, <1>a, WrittenBack
    <2> QED
      BY <2>1 DEF KeepCasting, WithCast
  <1> HIDE DEF acc
  <1>b. d \in CastState /\ d.ability = c.ability /\ d.elapsed = c.elapsed + dt /\ d.acc = acc
    BY <1>1, <1>4, <1>a DEF CastState
  <1> HIDE DEF d
  <1>6. d \in Underway /\ d # None
    BY <1>4, <1>b, Bounds DEF Underway
  <1> HIDE DEF y
  <1>7. /\ y \in View /\ SameRest(x, y) /\ y.entity = x.entity /\ y.told = x.told
        /\ y.cast[e] = d
        /\ \A u \in Entities : u # e => Spared(x, y, u)
    BY <1>5, <1>6, CastView
  <1>8. Obeys(y, e)
    BY <1>7, GatesOfSpared DEF Obeys
  <1> QED
    BY <1>6, <1>7, <1>8, <1>b DEF y

LEMMA CompleteView ==
    ASSUME NEW x \in View, NEW e \in Entities, NEW c \in Underway,
           NEW reach \in SUBSET Entities, e \notin reach,
           Kind[c.ability] = "CastTime", Obeys(x, e)
    PROVE  LET y == CompleteCastTime(x, e, c, reach)
           IN  /\ y \in View /\ Others(x, y, e) /\ Obeys(y, e) /\ y.told[e] = x.told[e]
               /\ FoundOver(x, y, e, c.ability)
  <1> DEFINE y == CompleteCastTime(x, e, c, reach)
             z == fire(x, e, c.ability, reach)
             v == start_cooldown(z, e, c.ability)
  <1>1. c.ability \in Abilities
    BY DEF Underway, CastState
  <1>2. CASE ~ Resolves(x, e, c.ability)
    <2>1. y = Fail(x, e)
      BY <1>2 DEF CompleteCastTime, Fail, Finish
    <2> HIDE DEF y
    <2>2. /\ y \in View /\ y.fired = x.fired /\ y.cooldown = x.cooldown /\ Failed(y, e)
          /\ \A u \in Entities : u # e => y.ending[u] = x.ending[u]
          /\ \A u \in Entities : Spared(x, y, u)
      BY <2>1, JudgedOver
    <2>3. Others(x, y, e) /\ Obeys(y, e) /\ y.told[e] = x.told[e] /\ y.cast[e] = x.cast[e]
      BY <2>2, SparedSuffers, SparedObeys DEF Others, Spared
    <2> QED
      BY <2>2, <2>3 DEF FoundOver, y
  <1>3. CASE Resolves(x, e, c.ability)
    <2>1. y = Finish(v, e)
      BY <1>3 DEF CompleteCastTime, Fail, Finish
    <2> HIDE DEF y, v, z
    <2>2. /\ z \in View /\ z.fired = x.fired \cup {<<e, c.ability>>}
          /\ z.cooldown = x.cooldown /\ z.ending = x.ending
          /\ \A u \in Entities : Suffers(x, z, u)
          /\ Spared(x, z, e)
      BY <1>1, FireView DEF z
    <2>3. /\ v \in View /\ v.fired = z.fired /\ v.ending = z.ending
          /\ v.cooldown[e] = [z.cooldown[e] EXCEPT ![c.ability] = Cooldown[c.ability]]
          /\ \A u \in Entities : u # e => v.cooldown[u] = z.cooldown[u]
          /\ \A u \in Entities : Spared(z, v, u)
      BY <1>1, <2>2, CoolingView DEF v
    <2>4. /\ y \in View /\ y.fired = v.fired /\ y.cooldown = v.cooldown /\ Finished(y, e)
          /\ \A u \in Entities : u # e => y.ending[u] = v.ending[u]
          /\ \A u \in Entities : Spared(v, y, u)
      BY <2>1, <2>3, JudgedDone
    <2>5. \A u \in Entities : Spared(z, y, u)
      BY <2>3, <2>4 DEF Spared
    <2>6. Others(x, y, e)
      BY <2>2, <2>3, <2>4, <2>5, SparedSuffers, SuffersTransitive DEF Others
    <2>7. Spared(x, y, e)
      BY <2>2, <2>5 DEF Spared
    <2>8. FoundOver(x, y, e, c.ability)
      BY <2>2, <2>3, <2>4, <2>7 DEF FoundOver, Spared
    <2> QED
      BY <2>4, <2>6, <2>7, <2>8, SparedObeys DEF Spared, y
  <1> QED
    BY <1>2, <1>3

LEMMA ChannelView ==
    ASSUME NEW x \in View, NEW e \in Entities, NEW c \in Underway, NEW dt \in Nat \ {0},
           NEW reach \in SUBSET Entities, e \notin reach,
           Kind[c.ability] = "Channeling", x.cast[e] = c,
           ~ casting_blocked(x, e), Obeys(x, e)
    PROVE  LET y == AdvanceChannel(x, e, c, dt, reach)
           IN  /\ y \in View /\ Others(x, y, e) /\ Obeys(y, e) /\ y.told[e] = x.told[e]
               /\ FoundOver(x, y, e, c.ability) \/ GoesOn(x, y, e, c.ability)
  <1> DEFINE y == AdvanceChannel(x, e, c, dt, reach)
             z == IF Beats(c, dt) > 0 /\ Resolves(x, e, c.ability)
                  THEN fire(x, e, c.ability, reach) ELSE x
  <1>1. /\ c.ability \in Abilities /\ c.elapsed \in Nat /\ c # None
        /\ Required[c.ability] \in Nat
    BY Bounds DEF Underway, CastState
  <1>2. /\ z \in View /\ z.fired \in {x.fired, x.fired \cup {<<e, c.ability>>}}
        /\ z.cooldown = x.cooldown /\ z.ending = x.ending
        /\ Others(x, z, e) /\ Spared(x, z, e)
    <2>1. CASE Beats(c, dt) > 0 /\ Resolves(x, e, c.ability)
      <3>1. z = fire(x, e, c.ability, reach)
        BY <2>1
      <3> HIDE DEF z
      <3>2. /\ z \in View /\ z.fired = x.fired \cup {<<e, c.ability>>}
            /\ z.cooldown = x.cooldown /\ z.ending = x.ending
            /\ \A u \in Entities : Suffers(x, z, u)
            /\ Spared(x, z, e)
        BY <1>1, <3>1, FireView
      <3> QED
        BY <3>2, OthersOfSame
    <2>2. CASE ~ (Beats(c, dt) > 0 /\ Resolves(x, e, c.ability))
      <3>1. z = x
        BY <2>2
      <3> QED
        BY <3>1, SparedSuffers DEF Others, Spared
    <2> QED
      BY <2>1, <2>2
  <1>3. Obeys(z, e) /\ ~ casting_blocked(z, e) /\ z.told[e] = x.told[e] /\ z.cast[e] = x.cast[e]
    BY <1>2, SparedObeys DEF Spared
  <1>4. y = IF c.elapsed + dt >= Required[c.ability]
            THEN Finish(z, e) ELSE KeepCasting(z, e, c, dt)
    BY DEF AdvanceChannel, Fail, Finish
  <1> HIDE DEF y, z
  <1>5. CASE c.elapsed + dt >= Required[c.ability]
    <2>1. /\ y \in View /\ y.fired = z.fired /\ y.cooldown = z.cooldown /\ Finished(y, e)
          /\ \A u \in Entities : u # e => y.ending[u] = z.ending[u]
          /\ \A u \in Entities : Spared(z, y, u)
      BY <1>2, <1>4, <1>5, JudgedDone
    <2>2. Others(z, y, e)
      BY <2>1, SparedSuffers DEF Others
    <2>3. Others(x, y, e)
      BY <1>2, <2>2, OthersTransitive
    <2>4. Obeys(y, e) /\ y.told[e] = x.told[e] /\ y.cast[e] = x.cast[e]
      BY <1>3, <2>1, SparedObeys DEF Spared
    <2>5. FoundOver(x, y, e, c.ability)
      BY <1>2, <2>1, <2>4 DEF FoundOver
    <2> QED
      BY <2>1, <2>3, <2>4, <2>5 DEF y
  <1>6. CASE ~ (c.elapsed + dt >= Required[c.ability])
    <2>1. c.elapsed + dt < Required[c.ability]
      BY <1>1, <1>6
    <2>2. /\ y \in View /\ SameRest(z, y) /\ Obeys(y, e) /\ y.told[e] = z.told[e]
          /\ y.cast[e] # None /\ y.cast[e].ability = c.ability
          /\ \A u \in Entities : u # e => Spared(z, y, u)
      BY <1>2, <1>3, <1>4, <1>6, <2>1, KeepView
    <2>3. Others(z, y, e)
      BY <2>2, SparedSuffers DEF Others, SameRest
    <2>4. Others(x, y, e)
      BY <1>2, <2>3, OthersTransitive
    <2>5. GoesOn(x, y, e, c.ability)
      BY <1>1, <1>2, <2>2 DEF GoesOn, SameRest
    <2> QED
      BY <1>3, <2>2, <2>4, <2>5 DEF y
  <1> QED
    BY <1>5, <1>6

(* A cast's turn.  The row collected is still there, or its caster is now  *)
(* under a control that forbids it.                                        *)
LEMMA AdvanceView ==
    ASSUME NEW x \in View, NEW e \in Entities, NEW c \in Underway, NEW dt \in Nat \ {0},
           NEW reach \in SUBSET Entities, e \notin reach,
           x.cast[e] = c \/ casting_blocked(x, e), Obeys(x, e)
    PROVE  LET y == advance(x, e, c, dt, reach)
           IN  /\ y \in View /\ Others(x, y, e) /\ Obeys(y, e) /\ y.told[e] = x.told[e]
               /\ FoundOver(x, y, e, c.ability) \/ GoesOn(x, y, e, c.ability)
  <1> DEFINE y == advance(x, e, c, dt, reach)
             off == \/ x.entity[e].dead \/ casting_blocked(x, e)
                    \/ MovementCancels(c.ability) /\ c.away
  <1>1. /\ c.ability \in Abilities /\ c.elapsed \in Nat /\ c # None
        /\ Required[c.ability] \in Nat /\ Kind[c.ability] \in {"CastTime", "Channeling"}
    BY Bounds DEF Underway, CastState
  <1>2. y = IF off THEN Fail(x, e)
            ELSE IF Kind[c.ability] = "Channeling" THEN AdvanceChannel(x, e, c, dt, reach)
            ELSE IF c.elapsed + dt >= Required[c.ability] THEN CompleteCastTime(x, e, c, reach)
            ELSE KeepCasting(x, e, c, dt)
    BY DEF advance, Fail, Finish
  <1>3. ~ off => x.cast[e] = c /\ ~ casting_blocked(x, e)
    OBVIOUS
  <1> HIDE DEF y, off
  <1>4. CASE off
    <2>1. /\ y \in View /\ y.fired = x.fired /\ y.cooldown = x.cooldown /\ Failed(y, e)
          /\ \A u \in Entities : u # e => y.ending[u] = x.ending[u]
          /\ \A u \in Entities : Spared(x, y, u)
      BY <1>2, <1>4, JudgedOver
    <2>2. Others(x, y, e) /\ Obeys(y, e) /\ y.told[e] = x.told[e] /\ y.cast[e] = x.cast[e]
      BY <2>1, SparedSuffers, SparedObeys DEF Others, Spared
    <2> QED
      BY <2>1, <2>2 DEF FoundOver, y
  <1>5. CASE ~ off /\ Kind[c.ability] = "Channeling"
    BY <1>2, <1>3, <1>5, ChannelView DEF y
  <1>6. CASE ~ off /\ Kind[c.ability] = "CastTime" /\ c.elapsed + dt >= Required[c.ability]
    BY <1>2, <1>3, <1>6, CompleteView DEF y
  <1>7. CASE ~ off /\ Kind[c.ability] = "CastTime" /\ ~ (c.elapsed + dt >= Required[c.ability])
    <2>1. c.elapsed + dt < Required[c.ability]
      BY <1>1, <1>7
    <2>2. y = KeepCasting(x, e, c, dt)
      BY <1>2, <1>7
    <2>3. /\ y \in View /\ SameRest(x, y) /\ Obeys(y, e) /\ y.told[e] = x.told[e]
          /\ y.cast[e] # None /\ y.cast[e].ability = c.ability
          /\ \A u \in Entities : u # e => Spared(x, y, u)
      BY <1>3, <1>7, <2>1, <2>2, KeepView
    <2>4. Others(x, y, e)
      BY <2>3, SparedSuffers DEF Others, SameRest
    <2>5. GoesOn(x, y, e, c.ability)
      BY <1>1, <1>3, <1>7, <2>3 DEF GoesOn, SameRest
    <2> QED
      BY <2>3, <2>4, <2>5 DEF y
  <1> QED
    BY <1>1, <1>4, <1>5, <1>6, <1>7

-----------------------------------------------------------------------------
(* Counting through an order.                                              *)

(* Counting up to N.                                                       *)
Climbs(P, N) ==
    /\ P \in SUBSET (0..N) /\ 0 \in P
    /\ \A m \in P : m < N => m + 1 \in P

LEMMA UpTo ==
    ASSUME NEW N \in Nat, NEW P, Climbs(P, N)
    PROVE  P = 0..N
  <1> DEFINE Q == (0..N) \ P
  <1>0. /\ P \in SUBSET (0..N) /\ 0 \in P
        /\ \A m \in P : m < N => m + 1 \in P
    BY DEF Climbs
  <1>1. SUFFICES ASSUME Q # {} PROVE FALSE
    BY <1>0
  <1> DEFINE R == {p \in Nat \X Nat : p[1] < p[2]}
  <1>2. IsWellFoundedOn(R, Nat)
    BY NatLessThanWellFounded DEF OpToRel
  <1>3. PICK m \in Q : \A k \in Q : ~ (<<k, m>> \in R)
    <2>1. Q \subseteq Nat
      OBVIOUS
    <2> HIDE DEF Q, R
    <2> QED
      BY <1>1, <1>2, <2>1, WFMin
  <1>4. m \in Nat /\ m \in 0..N /\ m \notin P
    OBVIOUS
  <1>5. \A k \in Q : ~ (k < m)
    <2>1. TAKE k \in Q
    <2>2. <<k, m>> \notin R
      BY <1>3
    <2>3. k \in Nat
      OBVIOUS
    <2> HIDE DEF Q
    <2> QED
      BY <1>4, <2>2, <2>3
  <1>6. m # 0
    BY <1>0, <1>4
  <1>7. m - 1 \in 0..N /\ m - 1 < m /\ m - 1 < N /\ (m - 1) + 1 = m
    BY <1>4, <1>6
  <1>8. m - 1 \in P
    BY <1>5, <1>7
  <1> QED
    BY <1>0, <1>4, <1>7, <1>8

LEMMA OrderIsSeq ==
    ASSUME NEW S, IsFiniteSet(S), NEW order \in SetToSeqs(S)
    PROVE  /\ Len(order) \in Nat /\ order \in [1..Len(order) -> S]
           /\ \A i, j \in 1..Len(order) : i # j => order[i] # order[j]
  <1>1. Cardinality(S) \in Nat
    BY FS_CardinalityType
  <1>2. PICK n \in Nat : n = Cardinality(S)
    BY <1>1
  <1>3. /\ order \in [1..n -> S]
        /\ \A i, j \in 1..n : i # j => order[i] # order[j]
    BY <1>2 DEF SetToSeqs
  <1>4. order \in Seq(S)
    BY <1>3, SeqDef
  <1>5. Len(order) = n
    BY <1>3, <1>4, LenProperties
  <1> QED
    BY <1>3, <1>5

(* The loop over the casts is well defined.                                *)
LEMMA LoopIsDefined ==
    ASSUME NEW w, NEW dt, NEW order, NEW reach, Len(order) \in Nat
    PROVE  LET f == Advanced(w, dt, order, reach)
           IN  f = [n \in 0..Len(order) |->
                      IF n = 0 THEN w
                      ELSE advance(f[n - 1], order[n], w.cast[order[n]], dt, reach[order[n]])]
  <1> DEFINE N == Len(order)
             turn(x, n) == advance(x, order[n], w.cast[order[n]], dt, reach[order[n]])
             F(f, m) == [n \in 0..m |-> IF n = 0 THEN w ELSE turn(f[n - 1], n)]
             P == {m \in 0..N : \E f : f = F(f, m)}
  <1>0. Advanced(w, dt, order, reach) = CHOOSE f : f = F(f, N)
    BY DEF Advanced
  <1>a. N \in Nat
    OBVIOUS
  <1> HIDE DEF N, turn
  <1>1. 0 \in P
    <2> DEFINE f == [n \in 0..0 |-> w]
    <2>1. f = F(f, 0)
      OBVIOUS
    <2>2. \E h : h = F(h, 0)
      <3> HIDE DEF f
      <3> QED
        BY <2>1
    <2> QED
      BY <1>a, <2>2
  <1>2. ASSUME NEW m \in P, m < N PROVE m + 1 \in P
    <2>1. PICK f : f = F(f, m)
      OBVIOUS
    <2> DEFINE g == [n \in 0..(m + 1) |-> IF n = m + 1 THEN turn(f[m], m + 1) ELSE f[n]]
    <2>2. m \in Nat
      OBVIOUS
    <2>3. \A n \in 0..m : g[n] = f[n]
      BY <2>2
    <2>4. \A n \in 0..m : f[n] = IF n = 0 THEN w ELSE turn(f[n - 1], n)
      BY <2>1
    <2>5. \A n \in 0..(m + 1) : g[n] = IF n = 0 THEN w ELSE turn(g[n - 1], n)
      <3>1. TAKE n \in 0..(m + 1)
      <3>2. CASE n = m + 1
        <4>1. g[n] = turn(f[m], m + 1) /\ n # 0 /\ n - 1 = m /\ m \in 0..m
          BY <2>2, <3>2
        <4> QED
          BY <2>3, <3>2, <4>1
      <3>3. CASE n # m + 1
        <4>1. n \in 0..m /\ (n # 0 => n - 1 \in 0..m)
          BY <2>2, <3>3
        <4> QED
          BY <2>3, <2>4, <4>1
      <3> QED
        BY <3>2, <3>3
    <2>6. g = F(g, m + 1)
      <3>1. g = [n \in 0..(m + 1) |-> g[n]]
        OBVIOUS
      <3> HIDE DEF g
      <3> QED
        BY <2>5, <3>1
    <2>7. m + 1 \in 0..N
      BY <1>2, <1>a, <2>2
    <2>8. \E h : h = F(h, m + 1)
      <3> HIDE DEF g
      <3> QED
        BY <2>6
    <2> QED
      BY <2>7, <2>8
  <1>3. P = 0..N
    <2>1. P \in SUBSET (0..N)
      OBVIOUS
    <2>2. \A m \in P : m < N => m + 1 \in P
      BY <1>2
    <2> HIDE DEF P
    <2>3. Climbs(P, N)
      BY <1>1, <2>1, <2>2 DEF Climbs
    <2> QED
      BY <1>a, <2>3, UpTo
  <1>4. \E f : f = F(f, N)
    <2>1. N \in P
      <3> HIDE DEF P
      <3> QED
        BY <1>3, <1>a
    <2> HIDE DEF F
    <2> QED
      BY <2>1
  <1>5. LET f == Advanced(w, dt, order, reach) IN f = F(f, N)
    BY <1>0, <1>4
  <1> QED
    BY <1>5 DEF N, turn

-----------------------------------------------------------------------------
(* The loop over the casts of a tick.                                      *)

(* A wind-up of w has taken effect in x.                                   *)
Completed(w, x, e) ==
    /\ w.cast[e] # None /\ Kind[w.cast[e].ability] = "CastTime"
    /\ <<e, w.cast[e].ability>> \in x.fired

ToldOff(x, e, a) ==
    /\ x.told[e] # <<>>
    /\ Last(x.told[e]).ability = a /\ Last(x.told[e]).interrupted = TRUE

(* What holds of an entity at any moment of the loop that began at w.      *)
Course(w, x, e) ==
    /\ Obeys(x, e)
    /\ \A a \in Abilities : <<e, a>> \in x.fired => w.cast[e] # None /\ a = w.cast[e].ability
    /\ ~ Completed(w, x, e) => x.cooldown[e] = w.cooldown[e]
    /\ Completed(w, x, e) =>
          x.cooldown[e] = [w.cooldown[e] EXCEPT ![w.cast[e].ability] = Cooldown[w.cast[e].ability]]
    /\ x.cast[e] # None => w.cast[e] # None /\ x.cast[e].ability = w.cast[e].ability
    /\ x.ending[e] = None =>
          /\ ~ Completed(w, x, e)
          /\ w.cast[e] # None /\ x.cast[e] = None => ToldOff(x, e, w.cast[e].ability)
    /\ x.ending[e] # None =>
          /\ w.cast[e] # None
          /\ Failed(x, e) \/ Finished(x, e)
          /\ Kind[w.cast[e].ability] = "CastTime" => (Finished(x, e) <=> Completed(w, x, e))

(* Its turn has not come.                                                  *)
Pending(w, x, e) ==
    /\ x.ending[e] = None
    /\ \A a \in Abilities : <<e, a>> \notin x.fired
    /\ x.cast[e] = w.cast[e] \/ casting_blocked(x, e)

LEMMA LastOfAppend ==
    ASSUME NEW S, NEW s \in Seq(S), NEW z \in S
    PROVE  Append(s, z) # <<>> /\ Last(Append(s, z)) = z
  BY AppendProperties, LenProperties DEF Last

LEMMA InterruptedTells ==
    ASSUME NEW w \in View, NEW x, NEW e \in Entities, Interrupted(w, x, e)
    PROVE  ToldOff(x, e, w.cast[e].ability)
  <1> DEFINE z == [ability |-> w.cast[e].ability, interrupted |-> TRUE]
  <1>1. w.told[e] \in Seq(Ended) /\ w.cast[e] \in Underway \cup {None}
    BY FieldsTyped DEF Events, CastTable
  <1>2. z \in Ended
    BY <1>1 DEF Interrupted, Underway, CastState, Ended
  <1>3. x.told[e] = Append(w.told[e], z)
    BY DEF Interrupted
  <1>4. z.ability = w.cast[e].ability /\ z.interrupted = TRUE
    OBVIOUS
  <1> HIDE DEF z
  <1>5. x.told[e] # <<>> /\ Last(x.told[e]) = z
    BY <1>1, <1>2, <1>3, LastOfAppend
  <1> QED
    BY <1>4, <1>5 DEF ToldOff

LEMMA NoneNoVerdict ==
    ASSUME NEW x, NEW e, Failed(x, e) \/ Finished(x, e)
    PROVE  x.ending[e] # None
  BY Bounds DEF Failed, Finished

(* At most an effect of e is new.                                          *)
OnlyMarks(x, y, e) == \E a : y.fired \in {x.fired, x.fired \cup {<<e, a>>}}

(* Those whose turn it is not.                                             *)
LEMMA BystanderCourse ==
    ASSUME NEW w, NEW x \in View, NEW y, NEW e \in Entities, NEW u \in Entities, u # e,
           Course(w, x, u), Suffers(x, y, u), y.cooldown[u] = x.cooldown[u],
           y.ending[u] = x.ending[u], OnlyMarks(x, y, e)
    PROVE  Course(w, y, u) /\ (Pending(w, x, u) => Pending(w, y, u))
  <1>1. \A b : <<u, b>> \in y.fired <=> <<u, b>> \in x.fired
    BY DEF OnlyMarks
  <1>2. Completed(w, y, u) <=> Completed(w, x, u)
    BY <1>1 DEF Completed
  <1>3. (Failed(y, u) <=> Failed(x, u)) /\ (Finished(y, u) <=> Finished(x, u))
    BY DEF Failed, Finished
  <1>4. Obeys(y, u)
    BY DEF Course, Suffers
  <1>5. y.cast[u] # None => w.cast[u] # None /\ y.cast[u].ability = w.cast[u].ability
    BY DEF Course, Suffers, Interrupted
  <1>6. y.ending[u] = None /\ w.cast[u] # None /\ y.cast[u] = None
          => ToldOff(y, u, w.cast[u].ability)
    <2>1. SUFFICES ASSUME y.ending[u] = None, w.cast[u] # None, y.cast[u] = None
                   PROVE  ToldOff(y, u, w.cast[u].ability)
      OBVIOUS
    <2>2. CASE y.cast[u] = x.cast[u] /\ y.told[u] = x.told[u]
      BY <2>1, <2>2 DEF Course, ToldOff
    <2>3. CASE Interrupted(x, y, u)
      <3>1. ToldOff(y, u, x.cast[u].ability)
        BY <2>3, InterruptedTells
      <3>2. x.cast[u].ability = w.cast[u].ability
        BY <2>3 DEF Interrupted, Course
      <3> QED
        BY <3>1, <3>2
    <2> QED
      BY <2>2, <2>3 DEF Suffers
  <1>7. Course(w, y, u)
    BY <1>1, <1>2, <1>3, <1>4, <1>5, <1>6 DEF Course
  <1>8. Pending(w, x, u) => Pending(w, y, u)
    BY <1>1 DEF Pending, Suffers
  <1> QED
    BY <1>7, <1>8

(* The one whose turn it is.                                               *)
LEMMA TurnCourse ==
    ASSUME NEW w \in View, NEW x \in View, NEW y \in View, NEW e \in Entities,
           w.cast[e] # None, Course(w, x, e), Pending(w, x, e),
           Obeys(y, e), y.told[e] = x.told[e],
           FoundOver(x, y, e, w.cast[e].ability) \/ GoesOn(x, y, e, w.cast[e].ability)
    PROVE  Course(w, y, e)
  <1> DEFINE a == w.cast[e].ability
  <1>1. a \in Abilities /\ Kind[a] \in {"CastTime", "Channeling"}
    BY FieldsTyped, Bounds DEF CastTable, Underway, CastState
  <1>2. ~ Completed(w, x, e) /\ x.cooldown[e] = w.cooldown[e]
    BY DEF Course, Pending
  <1>3. ~ (Failed(y, e) /\ Finished(y, e))
    BY DEF Failed, Finished
  <1>a. /\ \A b \in Abilities : <<e, b>> \notin x.fired
        /\ x.ending[e] = None
    BY DEF Pending
  <1>4. CASE FoundOver(x, y, e, a)
    <2>1. y.ending[e] # None /\ (Failed(y, e) \/ Finished(y, e))
      BY <1>4, NoneNoVerdict DEF FoundOver
    <2>2. \A b \in Abilities : <<e, b>> \in y.fired => b = a
      BY <1>4, <1>a DEF FoundOver
    <2>3. y.cast[e] # None => y.cast[e].ability = a
      BY <1>4 DEF FoundOver, Course
    <2>4. Kind[a] = "CastTime" => (Finished(y, e) <=> Completed(w, y, e))
      BY <1>1, <1>3, <1>4, <1>a DEF FoundOver, Completed
    <2>5. /\ ~ Completed(w, y, e) => y.cooldown[e] = w.cooldown[e]
          /\ Completed(w, y, e) => y.cooldown[e] = [w.cooldown[e] EXCEPT ![a] = Cooldown[a]]
      BY <1>1, <1>2, <1>3, <1>4, <1>a, <2>4 DEF FoundOver, Completed
    <2> QED
      BY <2>1, <2>2, <2>3, <2>4, <2>5 DEF Course
  <1>5. CASE GoesOn(x, y, e, a)
    <2>1. y.ending[e] = None /\ y.cooldown[e] = w.cooldown[e]
      BY <1>2, <1>5, <1>a DEF GoesOn
    <2>2. \A b \in Abilities : <<e, b>> \in y.fired => b = a
      BY <1>5, <1>a DEF GoesOn
    <2>3. y.cast[e] # None /\ y.cast[e].ability = a
      BY <1>5 DEF GoesOn
    <2>4. ~ Completed(w, y, e)
      BY <1>1, <1>5, <1>a DEF GoesOn, Completed
    <2> QED
      BY <2>1, <2>2, <2>3, <2>4 DEF Course
  <1> QED
    BY <1>4, <1>5

(* The loop over all casts, from tables where no cast is judged.           *)
Fresh(w) ==
    /\ w.fired = {}
    /\ \A e \in Entities : w.ending[e] = None /\ Obeys(w, e)

LEMMA LoopCourse ==
    ASSUME NEW w \in View, Fresh(w), NEW dt \in Nat \ {0},
           NEW order \in SetToSeqs(Casters(w)), NEW reach \in [Casters(w) -> SUBSET Entities],
           \A e \in Casters(w) : e \notin reach[e]
    PROVE  LET x == Advanced(w, dt, order, reach)[Len(order)]
           IN  x \in View /\ \A e \in Entities : Course(w, x, e)
  <1> DEFINE N == Len(order)
             f == Advanced(w, dt, order, reach)
             Good(n) == /\ f[n] \in View
                        /\ \A e \in Entities : Course(w, f[n], e)
                        /\ \A k \in (n + 1)..N : Pending(w, f[n], order[k])
             P == {n \in 0..N : Good(n)}
  <1>1. /\ N \in Nat /\ order \in [1..N -> Casters(w)]
        /\ \A i, j \in 1..N : i # j => order[i] # order[j]
    <2>1. IsFiniteSet(Casters(w))
      BY Bounds, FS_Subset DEF Casters
    <2> QED
      BY <2>1, OrderIsSeq
  <1>2. \A e \in Casters(w) : e \in Entities /\ w.cast[e] # None /\ w.cast[e] \in Underway
    BY FieldsTyped DEF Casters, CastTable
  <1>3. /\ f[0] = w
        /\ \A n \in 1..N : f[n] = advance(f[n - 1], order[n], w.cast[order[n]], dt, reach[order[n]])
    <2>1. f = [n \in 0..N |->
                 IF n = 0 THEN w
                 ELSE advance(f[n - 1], order[n], w.cast[order[n]], dt, reach[order[n]])]
      BY <1>1, LoopIsDefined
    <2> HIDE DEF f, N
    <2> QED
      BY <1>1, <2>1
  <1> HIDE DEF f, N
  <1>4. Good(0)
    <2>1. ASSUME NEW e \in Entities PROVE Course(w, w, e) /\ Pending(w, w, e)
      BY Bounds DEF Fresh, Course, Pending, Completed
    <2> QED
      BY <1>1, <1>2, <1>3, <2>1
  <1>5. ASSUME NEW n \in 0..N, n < N, Good(n) PROVE Good(n + 1)
    <2> DEFINE x == f[n]
               y == f[n + 1]
               e == order[n + 1]
    <2>0. n + 1 \in 1..N /\ (n + 1) - 1 = n /\ n + 1 \in (n + 1)..N
      BY <1>1, <1>5
    <2>1. e \in Casters(w) /\ e \in Entities /\ w.cast[e] # None /\ w.cast[e] \in Underway
      BY <1>1, <1>2, <2>0
    <2>2. y = advance(x, e, w.cast[e], dt, reach[e])
      BY <1>3, <2>0
    <2>3. /\ x \in View /\ Course(w, x, e) /\ Pending(w, x, e)
          /\ \A u \in Entities : Course(w, x, u)
          /\ \A k \in (n + 1)..N : Pending(w, x, order[k])
      BY <1>5, <2>0, <2>1
    <2>a. \A k \in (n + 2)..N : order[k] # e /\ order[k] \in Entities /\ k \in (n + 1)..N
      BY <1>1, <1>2, <2>0
    <2>b. reach[e] \in SUBSET Entities /\ e \notin reach[e]
      BY <2>1
    <2> HIDE DEF x, y, e
    <2>4. /\ y \in View /\ Others(x, y, e) /\ Obeys(y, e) /\ y.told[e] = x.told[e]
          /\ \/ FoundOver(x, y, e, w.cast[e].ability)
             \/ GoesOn(x, y, e, w.cast[e].ability)
      BY <2>1, <2>2, <2>3, <2>b, AdvanceView DEF Course, Pending
    <2>5. OnlyMarks(x, y, e)
      BY <2>4 DEF FoundOver, GoesOn, OnlyMarks
    <2>6. ASSUME NEW u \in Entities, u # e
          PROVE  Course(w, y, u) /\ (Pending(w, x, u) => Pending(w, y, u))
      <3>1. /\ Course(w, x, u) /\ Suffers(x, y, u) /\ y.cooldown[u] = x.cooldown[u]
            /\ y.ending[u] = x.ending[u]
        BY <2>3, <2>4, <2>6 DEF Others
      <3> QED
        BY <2>1, <2>3, <2>5, <2>6, <3>1, BystanderCourse
    <2>7. Course(w, y, e)
      BY <2>1, <2>3, <2>4, TurnCourse
    <2>8. \A k \in (n + 2)..N : Pending(w, y, order[k])
      BY <2>3, <2>6, <2>a
    <2>9. (n + 1) + 1 = n + 2
      BY <2>0, <1>1
    <2> QED
      BY <2>4, <2>6, <2>7, <2>8, <2>9 DEF y
  <1>6. P = 0..N
    <2>1. P \in SUBSET (0..N)
      OBVIOUS
    <2>2. 0 \in P
      BY <1>1, <1>4
    <2>3. \A m \in P : m < N => m + 1 \in P
      <3>1. TAKE m \in P
      <3>2. m \in 0..N /\ Good(m)
        OBVIOUS
      <3>3. m < N => Good(m + 1) /\ m + 1 \in 0..N
        BY <1>1, <1>5, <3>2
      <3> QED
        BY <3>3
    <2> HIDE DEF P
    <2>4. Climbs(P, N)
      BY <2>1, <2>2, <2>3 DEF Climbs
    <2> QED
      BY <1>1, <2>4, UpTo
  <1>7. Good(N)
    <2>1. N \in P
      <3> HIDE DEF P
      <3> QED
        BY <1>1, <1>6
    <2> HIDE DEF Good
    <2> QED
      BY <2>1
  <1> QED
    BY <1>7 DEF f, N

-----------------------------------------------------------------------------
(* The casts of a tick, ended.                                             *)

(* The last event about e says how its cast of a ended.                    *)
Tells(z, e, a, b) ==
    /\ z.told[e] # <<>>
    /\ Last(z.told[e]).ability = a
    /\ Last(z.told[e]).interrupted <=> b

(* What the casts of one tick have come to.                                *)
Fate(w, y, e) ==
    /\ Obeys(y, e)
    /\ \A a \in Abilities : <<e, a>> \in y.fired => w.cast[e] # None /\ a = w.cast[e].ability
    /\ ~ Completed(w, y, e) => y.cooldown[e] = w.cooldown[e]
    /\ Completed(w, y, e) =>
          y.cooldown[e] = [w.cooldown[e] EXCEPT ![w.cast[e].ability] = Cooldown[w.cast[e].ability]]
    /\ y.cast[e] # None =>
          /\ w.cast[e] # None /\ y.cast[e].ability = w.cast[e].ability
          /\ ~ Completed(w, y, e)
    /\ w.cast[e] # None /\ y.cast[e] = None =>
          \E b \in BOOLEAN :
             /\ Tells(y, e, w.cast[e].ability, b)
             /\ Kind[w.cast[e].ability] = "CastTime" => (b <=> ~ Completed(w, y, e))

LEMMA CastsView ==
    ASSUME NEW w \in View, Fresh(w), NEW dt \in Nat \ {0},
           NEW order \in SetToSeqs(Casters(w)), NEW reach \in [Casters(w) -> SUBSET Entities],
           \A e \in Casters(w) : e \notin reach[e]
    PROVE  LET y == advance_casts(w, dt, order, reach)
           IN  y \in View /\ \A e \in Entities : Fate(w, y, e)
  <1> DEFINE x == Advanced(w, dt, order, reach)[Len(order)]
             y == advance_casts(w, dt, order, reach)
             S == {e \in Entities : x.ending[e] # None}
             T(u) == end_cast(x, u, w.cast[u].ability, x.ending[u])
             rows == [u \in Entities |-> IF u \in S THEN T(u).entity[u] ELSE x.entity[u]]
             casts == [u \in Entities |-> IF u \in S THEN T(u).cast[u] ELSE x.cast[u]]
             events == [u \in Entities |-> IF u \in S THEN T(u).told[u] ELSE x.told[u]]
  <1>1. x \in View /\ \A e \in Entities : Course(w, x, e)
    BY LoopCourse
  <1>2. y = IF S = {} THEN x ELSE Rewrite(x, rows, casts, events)
    BY DEF advance_casts, ToEach, Rewrite
  <1>3. \A u \in Entities : u \in S <=> x.ending[u] # None
    OBVIOUS
  <1> HIDE DEF x, y, S
  <1>4. ASSUME NEW u \in Entities, u \in S
        PROVE  /\ w.cast[u].ability \in Abilities /\ w.cast[u] # None
               /\ x.ending[u] \in BOOLEAN /\ x.ending[u] # None
               /\ T(u) \in View /\ T(u).entity = x.entity /\ T(u).cast[u] = None
               /\ T(u).told[u] = Append(x.told[u], Note(w.cast[u].ability, x.ending[u]))
    <2>1. x.ending[u] # None /\ w.cast[u] # None
      BY <1>1, <1>3, <1>4 DEF Course
    <2>2. w.cast[u].ability \in Abilities
      BY <2>1, FieldsTyped DEF CastTable, Underway, CastState
    <2>3. x.ending[u] \in BOOLEAN
      BY <1>1, <2>1, FieldsTyped DEF Verdicts
    <2> QED
      BY <1>1, <2>1, <2>2, <2>3, EndCastView
  <1> HIDE DEF T
  <1>5. rows \in Rows /\ casts \in CastTable /\ events \in Events
    <2>1. x.entity \in Rows /\ x.cast \in CastTable /\ x.told \in Events
      BY <1>1, FieldsTyped
    <2>2. \A u \in Entities : u \in S =>
             T(u).entity \in Rows /\ T(u).cast \in CastTable /\ T(u).told \in Events
      BY <1>4, FieldsTyped
    <2> QED
      BY <2>1, <2>2 DEF Rows, CastTable, Events
  <1>6. /\ y \in View /\ SameRest(x, y)
        /\ \A u \in Entities : u \in S => Spared(T(u), y, u)
        /\ \A u \in Entities : u \notin S => Spared(x, y, u)
    <2>1. CASE S = {}
      BY <1>1, <1>2, <2>1 DEF SameRest, Spared
    <2>2. CASE S # {}
      <3>1. y = Rewrite(x, rows, casts, events)
        BY <1>2, <2>2
      <3>a. /\ \A u \in Entities : rows[u] = IF u \in S THEN T(u).entity[u] ELSE x.entity[u]
            /\ \A u \in Entities : casts[u] = IF u \in S THEN T(u).cast[u] ELSE x.cast[u]
            /\ \A u \in Entities : events[u] = IF u \in S THEN T(u).told[u] ELSE x.told[u]
        OBVIOUS
      <3> HIDE DEF rows, casts, events
      <3>2. /\ y \in View /\ SameRest(x, y)
            /\ y.entity = rows /\ y.cast = casts /\ y.told = events
        BY <1>1, <1>5, <3>1, Rewritten
      <3> QED
        BY <3>a, <3>2 DEF Spared
    <2> QED
      BY <2>1, <2>2
  <1> HIDE DEF rows, casts, events
  <1>7. ASSUME NEW e \in Entities PROVE Fate(w, y, e)
    <2> DEFINE a == w.cast[e].ability
    <2>1. y.fired = x.fired /\ y.cooldown = x.cooldown /\ (Completed(w, y, e) <=> Completed(w, x, e))
      BY <1>6 DEF SameRest, Completed
    <2>2. Course(w, x, e)
      BY <1>1
    <2>3. /\ \A b \in Abilities : <<e, b>> \in y.fired => w.cast[e] # None /\ b = a
          /\ ~ Completed(w, y, e) => y.cooldown[e] = w.cooldown[e]
          /\ Completed(w, y, e) => y.cooldown[e] = [w.cooldown[e] EXCEPT ![a] = Cooldown[a]]
      BY <2>1, <2>2 DEF Course
    <2>4. CASE e \notin S
      <3>1. Spared(x, y, e) /\ x.ending[e] = None
        BY <1>3, <1>6, <2>4
      <3>2. Obeys(y, e)
        BY <2>2, <3>1, SparedObeys DEF Course
      <3>3. ~ Completed(w, y, e)
        BY <2>1, <2>2, <3>1 DEF Course
      <3>4. y.cast[e] # None => w.cast[e] # None /\ y.cast[e].ability = a
        BY <2>2, <3>1 DEF Course, Spared
      <3>5. ASSUME w.cast[e] # None, y.cast[e] = None
            PROVE  Tells(y, e, a, TRUE)
        <4>1. ToldOff(x, e, a)
          BY <2>2, <3>1, <3>5 DEF Course, Spared
        <4>2. y.told[e] = x.told[e]
          BY <3>1 DEF Spared
        <4> QED
          BY <4>1, <4>2 DEF ToldOff, Tells
      <3>6. ASSUME w.cast[e] # None, y.cast[e] = None
            PROVE  \E b \in BOOLEAN :
                      /\ Tells(y, e, a, b)
                      /\ Kind[a] = "CastTime" => (b <=> ~ Completed(w, y, e))
        <4>1. PICK b \in BOOLEAN : b <=> TRUE
          OBVIOUS
        <4>2. Tells(y, e, a, b)
          BY <3>5, <3>6, <4>1 DEF Tells
        <4> QED
          BY <3>3, <4>1, <4>2
      <3> QED
        BY <2>3, <3>2, <3>3, <3>4, <3>6 DEF Fate
    <2>5. CASE e \in S
      <3>1. /\ a \in Abilities /\ w.cast[e] # None /\ x.ending[e] \in BOOLEAN
            /\ x.ending[e] # None
            /\ y.entity[e] = x.entity[e] /\ y.cast[e] = None
            /\ y.told[e] = Append(x.told[e], Note(a, x.ending[e]))
        BY <1>4, <1>6, <2>5 DEF Spared
      <3>2. Obeys(y, e)
        BY <2>2, <3>1, GatesOfSpared DEF Course, Obeys
      <3>3. x.told[e] \in Seq(Ended)
        BY <1>1, FieldsTyped DEF Events
      <3>a. PICK b \in BOOLEAN : b = x.ending[e]
        BY <3>1
      <3>4. Tells(y, e, a, b)
        <4> DEFINE n == Note(a, x.ending[e])
        <4>1. n \in Ended /\ n.ability = a /\ n.interrupted = x.ending[e]
          BY <3>1 DEF Ended, Note
        <4>2. y.told[e] = Append(x.told[e], n)
          BY <3>1
        <4> HIDE DEF n
        <4>3. y.told[e] # <<>> /\ Last(y.told[e]) = n
          BY <3>3, <4>1, <4>2, LastOfAppend
        <4> QED
          BY <3>a, <4>1, <4>3 DEF Tells
      <3>5. Kind[a] = "CastTime" => (b <=> ~ Completed(w, y, e))
        <4>1. Kind[a] = "CastTime" => (Finished(x, e) <=> Completed(w, x, e))
          BY <2>2, <3>1 DEF Course
        <4>2. Finished(x, e) <=> ~ b
          BY <3>a DEF Finished
        <4> QED
          BY <2>1, <4>1, <4>2
      <3> QED
        BY <2>3, <3>1, <3>2, <3>4, <3>5 DEF Fate
    <2> QED
      BY <2>4, <2>5
  <1> QED
    BY <1>6, <1>7 DEF y

-----------------------------------------------------------------------------
(* What a transaction owes, and the tick.                                  *)

(* A wind-up under way has not been paid for.                              *)
Ready(z, e) ==
    z.cast[e] # None /\ Kind[z.cast[e].ability] = "CastTime"
        => z.cooldown[e][z.cast[e].ability] = 0

(* What a transaction that ends in z has to say of e.                      *)
Paid(z, e) ==
    \A a \in Abilities :
        Kind[a] # "Channeling" =>
            (<<e, a>> \in z.fired <=> cooldown[e][a] = 0 /\ z.cooldown[e][a] > 0)

Ends(z, e) ==
    cast[e] # None /\ z.cast[e] = None =>
        /\ z.told[e] # <<>>
        /\ Last(z.told[e]).ability = cast[e].ability
        /\ Kind[cast[e].ability] = "CastTime" =>
              (Last(z.told[e]).interrupted <=> <<e, cast[e].ability>> \notin z.fired)

Lawful(z) == z \in View /\ \A e \in Entities : Obeys(z, e) /\ Ready(z, e) /\ Paid(z, e)

(* Where every transaction starts.                                         *)
Settled == Tables \in View /\ Fresh(Tables) /\ \A e \in Entities : Ready(Tables, e)

LEMMA StatusView ==
    ASSUME NEW w \in View, NEW dt \in Nat
    PROVE  LET x == status_step(w, dt)
           IN  /\ x \in View /\ SameRest(w, x) /\ x.cast = w.cast /\ x.told = w.told
               /\ \A e \in Entities : Obeys(w, e) => Obeys(x, e)
  <1> DEFINE row(e) == [w.entity[e] EXCEPT !.control =
                           [k \in Controls |-> Less(w.entity[e].control[k], dt)]]
             rows == [e \in Entities |-> row(e)]
             x == status_step(w, dt)
  <1>1. ASSUME NEW e \in Entities
        PROVE  /\ row(e) \in SoundRow /\ row(e).walking = w.entity[e].walking
               /\ \A k \in Controls : row(e).control[k] > 0 => w.entity[e].control[k] > 0
    <2> DEFINE c == [k \in Controls |-> Less(w.entity[e].control[k], dt)]
    <2>1. w.entity[e] \in SoundRow
      BY FieldsTyped DEF Rows
    <2>2. \A k \in Controls : w.entity[e].control[k] \in Nat /\ w.entity[e].control[k] <= ControlTime[k]
      BY <2>1 DEF SoundRow, Row
    <2>3. \A k \in Controls : /\ c[k] \in Nat /\ c[k] <= ControlTime[k]
                              /\ c[k] > 0 => w.entity[e].control[k] > 0
      <3>1. TAKE k \in Controls
      <3> DEFINE n == w.entity[e].control[k]
                 m == ControlTime[k]
      <3>2. n \in Nat /\ n <= m /\ m \in Nat
        BY <2>2, Bounds
      <3>3. c[k] = Less(n, dt)
        OBVIOUS
      <3> HIDE DEF n, m, c
      <3>4. c[k] \in Nat /\ c[k] <= m /\ (c[k] > 0 => n > 0)
        BY <3>2, <3>3 DEF Less
      <3> QED
        BY <3>4 DEF n, m
    <2>4. c \in [Controls -> Nat]
      BY <2>3
    <2>5. row(e) = [w.entity[e] EXCEPT !.control = c]
      OBVIOUS
    <2> HIDE DEF c, row
    <2> QED
      BY <2>1, <2>3, <2>4, <2>5 DEF SoundRow, Row
  <1>2. x = Rewrite(w, rows, w.cast, w.told)
    BY DEF status_step, Rewrite, View
  <1> HIDE DEF row, x
  <1>3. rows \in Rows /\ \A e \in Entities : rows[e] = row(e)
    BY <1>1 DEF Rows
  <1> HIDE DEF rows
  <1>4. /\ x \in View /\ SameRest(w, x)
        /\ x.entity = rows /\ x.cast = w.cast /\ x.told = w.told
    BY <1>2, <1>3, FieldsTyped, Rewritten
  <1>5. \A e \in Entities : Obeys(w, e) => Obeys(x, e)
    BY <1>1, <1>3, <1>4 DEF Obeys, casting_blocked, is_movement_blocked, Under
  <1> QED
    BY <1>4, <1>5 DEF x

(* Where every control is obeyed there is nothing left to enforce.         *)
LEMMA CrowdView ==
    ASSUME NEW w \in View, \A e \in Entities : Obeys(w, e)
    PROVE  crowd_control_step(w) = w
  <1>1. {e \in Entities : w.cast[e] # None /\ casting_blocked(w, e)} = {}
    BY DEF Obeys
  <1>2. {e \in Entities : w.entity[e].walking /\ is_movement_blocked(w, e)} = {}
    BY DEF Obeys
  <1> QED
    BY <1>1, <1>2 DEF crowd_control_step, ToEach

LEMMA MovementView ==
    ASSUME NEW w \in View, NEW away \in SUBSET Casters(w), NEW arrived,
           \A e \in Entities : Obeys(w, e)
    PROVE  LET x == movement_step(w, away, arrived)
           IN  /\ x \in View /\ SameRest(w, x) /\ x.told = w.told
               /\ \A e \in Entities : Obeys(x, e)
               /\ \A e \in Entities : (x.cast[e] = None <=> w.cast[e] = None)
                                      /\ (w.cast[e] # None => x.cast[e].ability = w.cast[e].ability)
  <1> DEFINE rows == [e \in Entities |->
                IF e \in arrived THEN [w.entity[e] EXCEPT !.walking = FALSE] ELSE w.entity[e]]
             casts == [e \in Entities |->
                IF e \in away THEN [w.cast[e] EXCEPT !.away = TRUE] ELSE w.cast[e]]
             x == movement_step(w, away, arrived)
  <1>1. ASSUME NEW e \in Entities
        PROVE  /\ rows[e] \in SoundRow /\ rows[e].control = w.entity[e].control
               /\ rows[e].walking => w.entity[e].walking
    <2>1. w.entity[e] \in SoundRow
      BY FieldsTyped DEF Rows
    <2> QED
      BY <2>1 DEF SoundRow, Row
  <1>2. ASSUME NEW e \in Entities
        PROVE  /\ casts[e] \in Underway \cup {None} /\ (casts[e] = None <=> w.cast[e] = None)
               /\ w.cast[e] # None => casts[e].ability = w.cast[e].ability
    <2>1. CASE e \notin away
      BY <2>1, FieldsTyped DEF CastTable
    <2>2. CASE e \in away
      <3>1. w.cast[e] \in Underway /\ w.cast[e] # None
        BY <2>2, FieldsTyped DEF CastTable, Casters
      <3>2. casts[e] = [w.cast[e] EXCEPT !.away = TRUE]
        BY <2>2
      <3> HIDE DEF casts
      <3>3. casts[e] \in Underway /\ casts[e].ability = w.cast[e].ability
        BY <3>1, <3>2 DEF Underway, CastState
      <3>4. casts[e] # None
        BY <3>3, Bounds DEF Underway
      <3> QED
        BY <3>1, <3>3, <3>4
    <2> QED
      BY <2>1, <2>2
  <1>3. x = Rewrite(w, rows, casts, w.told)
    BY DEF movement_step, Rewrite, View
  <1>4. rows \in Rows /\ casts \in CastTable
    BY <1>1, <1>2 DEF Rows, CastTable
  <1> HIDE DEF rows, casts, x
  <1>5. /\ x \in View /\ SameRest(w, x)
        /\ x.entity = rows /\ x.cast = casts /\ x.told = w.told
    BY <1>3, <1>4, FieldsTyped, Rewritten
  <1>6. \A e \in Entities : Obeys(x, e)
    BY <1>1, <1>2, <1>5, GatesOfSpared DEF Obeys
  <1> QED
    BY <1>2, <1>5, <1>6 DEF x

LEMMA CoolView ==
    ASSUME NEW w \in View, NEW dt \in Nat
    PROVE  LET x == tick_cooldowns(w, dt)
           IN  /\ x \in View /\ x.fired = w.fired
               /\ \A e \in Entities : Spared(w, x, e)
               /\ \A e \in Entities, a \in Abilities : x.cooldown[e][a] = Less(w.cooldown[e][a], dt)
  <1> DEFINE c == [e \in Entities |-> [a \in Abilities |-> Less(w.cooldown[e][a], dt)]]
             x == tick_cooldowns(w, dt)
  <1>1. \A e \in Entities, a \in Abilities :
            w.cooldown[e][a] \in Nat /\ w.cooldown[e][a] <= Cooldown[a] /\ Cooldown[a] \in Nat
    BY FieldsTyped, Bounds DEF Cooldowns, Timers
  <1>2. \A e \in Entities, a \in Abilities :
            /\ Less(w.cooldown[e][a], dt) \in Nat
            /\ Less(w.cooldown[e][a], dt) <= Cooldown[a]
    <2>1. TAKE e \in Entities, a \in Abilities
    <2> DEFINE n == w.cooldown[e][a]
    <2>2. n \in Nat /\ n <= Cooldown[a] /\ Cooldown[a] \in Nat
      BY <1>1
    <2> HIDE DEF n
    <2>3. Less(n, dt) \in Nat /\ Less(n, dt) <= Cooldown[a]
      BY <2>2 DEF Less
    <2> QED
      BY <2>3 DEF n
  <1>3. c \in Cooldowns
    BY <1>2 DEF Cooldowns, Timers
  <1>4. \A e \in Entities, a \in Abilities : c[e][a] = Less(w.cooldown[e][a], dt)
    OBVIOUS
  <1>5. x = [w EXCEPT !.cooldown = c]
    BY DEF tick_cooldowns
  <1> HIDE DEF c, x
  <1>6. x \in View /\ x.cooldown = c /\ x.fired = w.fired /\ \A e \in Entities : Spared(w, x, e)
    BY <1>3, <1>5 DEF View, Spared
  <1> QED
    BY <1>4, <1>6 DEF x

(* The whole tick.                                                         *)
LEMMA TickIsLawful ==
    ASSUME Settled, Tick
    PROVE  \E z : Commit(z) /\ Lawful(z) /\ \A e \in Entities : Ends(z, e)
  <1>1. PICK dt \in 1..MaxStep : game_tick(dt)
    BY DEF Tick
  <1>a. dt \in Nat \ {0} /\ dt <= MaxStep
    BY <1>1, Bounds
  <1> DEFINE gated == crowd_control_step(status_step(Tables, dt))
  <1>2. PICK arrived \in SUBSET Walkers(gated),
             away \in SUBSET (Walkers(gated) \cap Casters(gated)) :
          \E order \in SetToSeqs(Casters(movement_step(gated, away, arrived))),
             reach \in [Casters(movement_step(gated, away, arrived)) -> SUBSET Entities] :
            /\ \A e \in Casters(movement_step(gated, away, arrived)) : e \notin reach[e]
            /\ Commit(tick_cooldowns(advance_casts(movement_step(gated, away, arrived),
                                                   dt, order, reach), dt))
    BY <1>1 DEF game_tick
  <1> DEFINE w == movement_step(gated, away, arrived)
  <1>3. PICK order \in SetToSeqs(Casters(w)), reach \in [Casters(w) -> SUBSET Entities] :
            /\ \A e \in Casters(w) : e \notin reach[e]
            /\ Commit(tick_cooldowns(advance_casts(w, dt, order, reach), dt))
    BY <1>2
  <1> DEFINE y == advance_casts(w, dt, order, reach)
             z == tick_cooldowns(y, dt)
  <1>4. /\ gated \in View /\ SameRest(Tables, gated) /\ gated.cast = Tables.cast
        /\ \A e \in Entities : Obeys(gated, e)
    BY <1>a, StatusView, CrowdView DEF Settled, Fresh
  <1>b. away \in SUBSET Casters(gated)
    OBVIOUS
  <1> HIDE DEF gated
  <1>5. /\ w \in View /\ SameRest(gated, w) /\ \A e \in Entities : Obeys(w, e)
        /\ \A e \in Entities : (w.cast[e] = None <=> gated.cast[e] = None)
                               /\ (gated.cast[e] # None => w.cast[e].ability = gated.cast[e].ability)
    BY <1>4, <1>b, MovementView
  <1> HIDE DEF w
  <1>6. Fresh(w)
    BY <1>4, <1>5 DEF Fresh, Settled, SameRest
  <1>7. y \in View /\ \A e \in Entities : Fate(w, y, e)
    BY <1>3, <1>5, <1>6, <1>a, CastsView
  <1>8. Commit(z)
    BY <1>3
  <1> HIDE DEF y
  <1>9. /\ z \in View /\ z.fired = y.fired /\ \A e \in Entities : Spared(y, z, e)
        /\ \A e \in Entities, a \in Abilities : z.cooldown[e][a] = Less(y.cooldown[e][a], dt)
    BY <1>7, <1>a, CoolView
  <1> HIDE DEF z
  <1>10. ASSUME NEW e \in Entities PROVE Obeys(z, e) /\ Ready(z, e) /\ Paid(z, e) /\ Ends(z, e)
    <2> DEFINE a == cast[e].ability
    <2>1. /\ w.cooldown[e] = cooldown[e] /\ (w.cast[e] = None <=> cast[e] = None)
          /\ cast[e] # None => w.cast[e].ability = a
      BY <1>4, <1>5 DEF SameRest, Tables
    <2>2. Fate(w, y, e) /\ Spared(y, z, e)
      BY <1>7, <1>9
    <2>3. /\ cooldown[e] \in Timers
          /\ cast[e] # None => /\ a \in Abilities
                               /\ Kind[a] \in {"CastTime", "Channeling"}
      <3>1. Tables \in View
        BY DEF Settled
      <3>2. Tables.cooldown \in Cooldowns /\ Tables.cast \in CastTable
        BY <3>1, FieldsTyped
      <3>3. cooldown[e] \in Timers /\ cast[e] \in Underway \cup {None}
        BY <3>2 DEF Tables, Cooldowns, CastTable
      <3> QED
        BY <3>3, Bounds DEF Underway, CastState
    <2>4. cast[e] # None /\ Kind[a] = "CastTime" => cooldown[e][a] = 0
      BY DEF Settled, Ready, Tables
    <2>5. Completed(w, y, e) <=>
             cast[e] # None /\ Kind[a] = "CastTime" /\ <<e, a>> \in z.fired
      BY <1>9, <2>1 DEF Completed
    <2>6. \A b \in Abilities : <<e, b>> \in z.fired => cast[e] # None /\ b = a
      BY <1>9, <2>1, <2>2 DEF Fate
    <2>7. ~ Completed(w, y, e) => \A b \in Abilities : z.cooldown[e][b] = Less(cooldown[e][b], dt)
      BY <1>9, <2>1, <2>2 DEF Fate
    <2>8. Completed(w, y, e) =>
             /\ z.cooldown[e][a] = Less(Cooldown[a], dt)
             /\ \A b \in Abilities : b # a => z.cooldown[e][b] = Less(cooldown[e][b], dt)
      BY <1>9, <2>1, <2>2, <2>3, <2>5 DEF Fate, Timers
    <2>9. \A b \in Abilities : /\ Less(Cooldown[b], dt) > 0
                               /\ cooldown[e][b] = 0 => Less(cooldown[e][b], dt) = 0
      BY <1>a, Bounds DEF Less
    <2>10. Obeys(z, e)
      BY <2>2, SparedObeys DEF Fate
    <2>11. /\ z.cast[e] = y.cast[e] /\ z.told[e] = y.told[e]
      BY <2>2 DEF Spared
    <2>12. Ready(z, e)
      <3>1. z.cast[e] # None => cast[e] # None /\ z.cast[e].ability = a /\ ~ Completed(w, y, e)
        BY <2>1, <2>2, <2>11 DEF Fate
      <3> QED
        BY <2>3, <2>4, <2>7, <2>9, <3>1 DEF Ready
    <2>13. Paid(z, e)
      <3>1. SUFFICES ASSUME NEW b \in Abilities, Kind[b] # "Channeling"
                     PROVE  <<e, b>> \in z.fired <=> cooldown[e][b] = 0 /\ z.cooldown[e][b] > 0
        BY DEF Paid
      <3>2. CASE <<e, b>> \in z.fired
        <4>1. cast[e] # None /\ b = a /\ Kind[a] = "CastTime" /\ Completed(w, y, e)
          BY <2>3, <2>5, <2>6, <3>1, <3>2
        <4> QED
          BY <2>4, <2>8, <2>9, <3>2, <4>1
      <3>3. CASE <<e, b>> \notin z.fired
        <4>1. z.cooldown[e][b] = Less(cooldown[e][b], dt)
          BY <2>5, <2>7, <2>8, <3>3
        <4>2. cooldown[e][b] = 0 => ~ (z.cooldown[e][b] > 0)
          BY <2>9, <4>1
        <4> QED
          BY <3>3, <4>2
      <3> QED
        BY <3>2, <3>3
    <2>14. Ends(z, e)
      <3>1. SUFFICES ASSUME cast[e] # None, z.cast[e] = None
                     PROVE  /\ z.told[e] # <<>>
                            /\ Last(z.told[e]).ability = a
                            /\ Kind[a] = "CastTime" =>
                                  (Last(z.told[e]).interrupted <=> <<e, a>> \notin z.fired)
        BY DEF Ends
      <3>2. PICK b \in BOOLEAN :
               /\ Tells(y, e, a, b)
               /\ Kind[a] = "CastTime" => (b <=> ~ Completed(w, y, e))
        BY <2>1, <2>2, <2>11, <3>1 DEF Fate
      <3> QED
        BY <2>5, <2>11, <3>1, <3>2 DEF Tells
    <2> QED
      BY <2>10, <2>12, <2>13, <2>14
  <1> QED
    BY <1>8, <1>9, <1>10 DEF Lawful

-----------------------------------------------------------------------------
(* The reducers that make nothing take effect.                             *)

(* Transactions that make nothing take effect.                             *)
Quiet(z) ==
    /\ z \in View /\ z.fired = {} /\ z.cooldown = cooldown
    /\ \A e \in Entities :
          /\ Obeys(z, e)
          /\ z.cast[e] # None => cast[e] # None /\ z.cast[e].ability = cast[e].ability

LEMMA QuietIsLawful ==
    ASSUME Settled, NEW z, Quiet(z)
    PROVE  Lawful(z)
  <1>1. \A e \in Entities : Ready(z, e)
    BY DEF Settled, Quiet, Ready, Tables
  <1>2. \A e \in Entities, a \in Abilities : <<e, a>> \notin z.fired
    BY DEF Quiet
  <1>3. ASSUME NEW e \in Entities PROVE Paid(z, e)
    BY <1>2 DEF Quiet, Paid
  <1> QED
    BY <1>1, <1>3 DEF Lawful, Quiet

(* The end of a cast that blows interrupted.                               *)
LEMMA SuffersEnds ==
    ASSUME Settled, NEW z, NEW e \in Entities, Suffers(Tables, z, e),
           cast[e] # None => <<e, cast[e].ability>> \notin z.fired
    PROVE  Ends(z, e)
  <1>1. CASE z.cast[e] = cast[e]
    BY <1>1 DEF Ends
  <1>2. CASE Interrupted(Tables, z, e)
    <2>1. ToldOff(z, e, cast[e].ability)
      BY <1>2, InterruptedTells DEF Settled, Tables
    <2> QED
      BY <2>1 DEF ToldOff, Ends
  <1> QED
    BY <1>1, <1>2 DEF Suffers, Tables

LEMMA TablesFields ==
    /\ Tables.entity = entity /\ Tables.cast = cast /\ Tables.cooldown = cooldown
    /\ Tables.fired = {}
    /\ \A e \in Entities : Tables.told[e] = <<>> /\ Tables.ending[e] = None
  BY DEF Tables

LEMMA SettledIs ==
    ASSUME Settled
    PROVE  /\ Tables \in View
           /\ entity \in Rows /\ cast \in CastTable /\ cooldown \in Cooldowns
           /\ \A e \in Entities : Obeys(Tables, e) /\ Ready(Tables, e)
  <1>1. Tables \in View /\ \A e \in Entities : Obeys(Tables, e) /\ Ready(Tables, e)
    BY DEF Settled, Fresh
  <1> QED
    BY <1>1, FieldsTyped, TablesFields

(* A step of one entity that leaves every cast as it was.                  *)
LEMMA RowStep ==
    ASSUME Settled, NEW e \in Entities, NEW r \in SoundRow,
           NEW z, z = WithRow(Tables, e, r), Obeys(z, e)
    PROVE  Lawful(z) /\ \A u \in Entities : Ends(z, u)
  <1>1. /\ z \in View /\ SameRest(Tables, z) /\ z.cast = cast
        /\ \A u \in Entities : u # e => Spared(Tables, z, u)
    BY SettledIs, RowView, TablesFields
  <1>2. \A u \in Entities : Obeys(z, u)
    BY <1>1, SettledIs, SparedObeys
  <1>3. Quiet(z)
    BY <1>1, <1>2, TablesFields DEF Quiet, SameRest
  <1> QED
    BY <1>1, <1>3, QuietIsLawful DEF Ends

LEMMA MoveIsLawful ==
    ASSUME Settled, NEW e \in Entities, move_to(e)
    PROVE  \E z : Commit(z) /\ Lawful(z) /\ \A u \in Entities : Ends(z, u)
  <1> DEFINE r == [entity[e] EXCEPT !.walking = TRUE]
             z == WithRow(Tables, e, r)
  <1>1. entity[e] \in SoundRow
    BY SettledIs DEF Rows
  <1>2. r \in SoundRow /\ r.control = entity[e].control
    BY <1>1 DEF SoundRow, Row
  <1>3. Commit(z)
    BY DEF move_to, WithRow, Tables
  <1>4. ~ is_movement_blocked(Tables, e)
    BY DEF move_to
  <1> HIDE DEF r, z
  <1>5. z.cast = cast /\ z.entity[e] = r
    BY <1>2, SettledIs, RowView, TablesFields DEF z
  <1>6. Obeys(z, e)
    BY <1>2, <1>4, <1>5, SettledIs, GatesOfSpared, TablesFields DEF Obeys
  <1>7. Lawful(z) /\ \A u \in Entities : Ends(z, u)
    BY <1>2, <1>6, RowStep DEF z
  <1> QED
    BY <1>3, <1>7

LEMMA StopIsLawful ==
    ASSUME Settled, NEW e \in Entities, stop(e)
    PROVE  \E z : Commit(z) /\ Lawful(z) /\ \A u \in Entities : Ends(z, u)
  <1> DEFINE r == [entity[e] EXCEPT !.walking = FALSE]
             z == WithRow(Tables, e, r)
  <1>1. entity[e] \in SoundRow
    BY SettledIs DEF Rows
  <1>2. r \in SoundRow /\ r.control = entity[e].control /\ r.walking = FALSE
    BY <1>1 DEF SoundRow, Row
  <1>3. Commit(z)
    BY DEF stop, freeze, WithRow, Tables
  <1> HIDE DEF r, z
  <1>5. z.cast = cast /\ z.entity[e] = r
    BY <1>2, SettledIs, RowView, TablesFields DEF z
  <1>6. Obeys(z, e)
    BY <1>2, <1>5, SettledIs, GatesOfSpared, TablesFields DEF Obeys
  <1>7. Lawful(z) /\ \A u \in Entities : Ends(z, u)
    BY <1>2, <1>6, RowStep DEF z
  <1> QED
    BY <1>3, <1>7

LEMMA EquipIsLawful ==
    ASSUME Settled, NEW e \in Entities, NEW worn \in Loadouts, equip(e, worn)
    PROVE  \E z : Commit(z) /\ Lawful(z) /\ \A u \in Entities : Ends(z, u)
  <1> DEFINE r == [entity[e] EXCEPT !.worn = worn]
             z == WithRow(Tables, e, r)
  <1>1. entity[e] \in SoundRow
    BY SettledIs DEF Rows
  <1>2. r \in SoundRow /\ r.control = entity[e].control /\ r.walking = entity[e].walking
    BY <1>1 DEF SoundRow, Row
  <1>3. Commit(z)
    BY DEF equip, WithRow, Tables
  <1> HIDE DEF r, z
  <1>5. z.cast = cast /\ z.entity[e] = r
    BY <1>2, SettledIs, RowView, TablesFields DEF z
  <1>6. Obeys(z, e)
    BY <1>2, <1>5, SettledIs, GatesOfSpared, TablesFields DEF Obeys
  <1>7. Lawful(z) /\ \A u \in Entities : Ends(z, u)
    BY <1>2, <1>6, RowStep DEF z
  <1> QED
    BY <1>3, <1>7

LEMMA BundleIsLawful ==
    ASSUME Settled, NEW e \in Entities, NEW lethal \in BOOLEAN,
           NEW kind \in Controls \cup {None}, resolve_bundle(e, lethal, kind)
    PROVE  \E z : Commit(z) /\ Lawful(z) /\ \A u \in Entities : Ends(z, u)
  <1> DEFINE z == Struck(Tables, e, lethal, kind)
  <1>1. Commit(z)
    BY DEF resolve_bundle
  <1>2. /\ z \in View /\ SameRest(Tables, z)
        /\ \A u \in Entities : u # e => Spared(Tables, z, u)
        /\ Suffers(Tables, z, e)
    BY SettledIs, StruckView
  <1> HIDE DEF z
  <1>3. \A u \in Entities : Suffers(Tables, z, u)
    BY <1>2, SparedSuffers
  <1>4. z.fired = {} /\ z.cooldown = cooldown
    BY <1>2, TablesFields DEF SameRest
  <1>5. Quiet(z)
    BY <1>2, <1>3, <1>4, SettledIs, TablesFields DEF Quiet, Suffers, Interrupted
  <1>6. \A u \in Entities : Ends(z, u)
    BY <1>3, <1>4, SuffersEnds
  <1> QED
    BY <1>1, <1>5, <1>6, QuietIsLawful

LEMMA EndIsLawful ==
    ASSUME Settled, NEW e \in Entities, NEW b \in BOOLEAN, cast[e] # None,
           Kind[cast[e].ability] = "CastTime" => b,
           NEW z, z = end_cast(Tables, e, cast[e].ability, b)
    PROVE  Lawful(z) /\ \A u \in Entities : Ends(z, u)
  <1> DEFINE a == cast[e].ability
             n == Note(a, b)
  <1>1. a \in Abilities
    BY SettledIs DEF CastTable, Underway, CastState
  <1>2. /\ z \in View /\ SameRest(Tables, z) /\ z.entity = entity
        /\ \A u \in Entities : u # e => Spared(Tables, z, u)
        /\ z.cast[e] = None
        /\ z.told[e] = Append(Tables.told[e], n)
    BY <1>1, SettledIs, EndCastView, TablesFields
  <1>3. n \in Ended /\ n.ability = a /\ (n.interrupted <=> b)
    BY <1>1 DEF Note, Ended
  <1> HIDE DEF n
  <1>4. \A u \in Entities : Obeys(z, u)
    BY <1>2, SettledIs, SparedObeys, GatesOfSpared, TablesFields DEF Obeys
  <1>5. z.fired = {} /\ z.cooldown = cooldown
    BY <1>2, TablesFields DEF SameRest
  <1>6. Quiet(z)
    BY <1>2, <1>4, <1>5, TablesFields DEF Quiet, Spared
  <1>7. Ends(z, e)
    <2>1. Tables.told[e] \in Seq(Ended)
      BY SettledIs, FieldsTyped DEF Events
    <2>2. z.told[e] # <<>> /\ Last(z.told[e]) = n
      BY <1>2, <1>3, <2>1, LastOfAppend
    <2> QED
      BY <1>3, <1>5, <2>2 DEF Ends
  <1>8. \A u \in Entities : u # e => Ends(z, u)
    BY <1>2, TablesFields DEF Ends, Spared
  <1> QED
    BY <1>6, <1>7, <1>8, QuietIsLawful

LEMMA ReleaseIsLawful ==
    ASSUME Settled, NEW e \in Entities, release_cast(e)
    PROVE  \E z : Commit(z) /\ Lawful(z) /\ \A u \in Entities : Ends(z, u)
  <1> DEFINE a == cast[e].ability
  <1>1. cast[e] # None /\ Commit(end_cast(Tables, e, a, Kind[a] # "Channeling"))
    BY DEF release_cast
  <1>2. CASE Kind[a] = "Channeling"
    <2> DEFINE z == end_cast(Tables, e, a, FALSE)
    <2>1. Commit(z)
      BY <1>1, <1>2
    <2>2. Lawful(z) /\ \A u \in Entities : Ends(z, u)
      BY <1>1, <1>2, EndIsLawful
    <2> QED
      BY <2>1, <2>2
  <1>3. CASE Kind[a] # "Channeling"
    <2> DEFINE z == end_cast(Tables, e, a, TRUE)
    <2>1. Commit(z)
      BY <1>1, <1>3
    <2>2. Lawful(z) /\ \A u \in Entities : Ends(z, u)
      BY <1>1, <1>3, EndIsLawful
    <2> QED
      BY <2>1, <2>2
  <1> QED
    BY <1>2, <1>3

LEMMA ResurrectIsLawful ==
    ASSUME Settled, NEW e \in Entities, NEW away \in BOOLEAN, resurrect(e, away)
    PROVE  \E z : Commit(z) /\ Lawful(z) /\ \A u \in Entities : Ends(z, u)
  <1> DEFINE r == [entity[e] EXCEPT !.dead = FALSE, !.walking = FALSE,
                                    !.control = [k \in Controls |-> 0]]
             c == IF away THEN [cast[e] EXCEPT !.away = TRUE] ELSE cast[e]
             rows == [entity EXCEPT ![e] = r]
             casts == [cast EXCEPT ![e] = c]
             z == Rewrite(Tables, rows, casts, Tables.told)
  <1>1. /\ entity[e] \in SoundRow /\ cast[e] \in Underway \cup {None}
        /\ entity \in Rows /\ cast \in CastTable /\ Tables.told \in Events
    BY SettledIs, FieldsTyped DEF Rows, CastTable
  <1>2. /\ r \in SoundRow /\ r.walking = FALSE
        /\ \A k \in Controls : ~ (r.control[k] > 0)
    <2> DEFINE none == [k \in Controls |-> 0]
    <2>1. /\ none \in [Controls -> Nat]
          /\ \A k \in Controls : none[k] <= ControlTime[k] /\ ~ (none[k] > 0)
      BY Bounds
    <2>2. r = [entity[e] EXCEPT !.dead = FALSE, !.walking = FALSE, !.control = none]
      OBVIOUS
    <2> HIDE DEF none, r
    <2> QED
      BY <1>1, <2>1, <2>2 DEF SoundRow, Row
  <1>3. /\ c \in Underway \cup {None} /\ (c = None <=> cast[e] = None)
        /\ c # None => c.ability = cast[e].ability
    <2>1. CASE ~ away
      BY <1>1, <2>1
    <2>2. CASE away
      <3>1. cast[e] # None /\ cast[e] \in Underway
        BY <1>1, <2>2 DEF resurrect
      <3>2. c = [cast[e] EXCEPT !.away = TRUE]
        BY <2>2
      <3> HIDE DEF c
      <3>3. c \in Underway /\ c.ability = cast[e].ability
        BY <3>1, <3>2 DEF Underway, CastState
      <3>4. c # None
        BY <3>3, Bounds DEF Underway
      <3> QED
        BY <3>1, <3>3, <3>4
    <2> QED
      BY <2>1, <2>2
  <1>4. Commit(z)
    BY DEF resurrect, Tables, Rewrite, Commit
  <1> HIDE DEF r, c
  <1>5. rows \in Rows /\ casts \in CastTable
    BY <1>1, <1>2, <1>3 DEF Rows, CastTable
  <1>6. /\ rows[e] = r /\ casts[e] = c
        /\ \A u \in Entities : u # e => rows[u] = entity[u] /\ casts[u] = cast[u]
    BY <1>1 DEF Rows, CastTable
  <1> HIDE DEF rows, casts
  <1>7. /\ z \in View /\ SameRest(Tables, z) /\ z.entity = rows /\ z.cast = casts
        /\ z.told = Tables.told
    BY <1>1, <1>5, SettledIs, Rewritten
  <1> HIDE DEF z
  <1>8. Obeys(z, e)
    BY <1>2, <1>6, <1>7 DEF Obeys, casting_blocked, is_movement_blocked, Under
  <1>9. \A u \in Entities : u # e => Obeys(z, u)
    BY <1>6, <1>7, SettledIs, TablesFields, SparedObeys DEF Spared
  <1>10. z.fired = {} /\ z.cooldown = cooldown
    BY <1>7, TablesFields DEF SameRest
  <1>11. Quiet(z)
    BY <1>3, <1>6, <1>7, <1>8, <1>9, <1>10 DEF Quiet
  <1>12. \A u \in Entities : Ends(z, u)
    BY <1>3, <1>6, <1>7 DEF Ends
  <1> QED
    BY <1>4, <1>11, <1>12, QuietIsLawful

LEMMA ExpireIsLawful ==
    ASSUME Settled, NEW e \in Entities, expire_stale_presence(e)
    PROVE  \E z : Commit(z) /\ Lawful(z) /\ \A u \in Entities : u # e => Ends(z, u)
  <1> DEFINE r == [entity[e] EXCEPT !.walking = FALSE]
             rows == [entity EXCEPT ![e] = r]
             casts == [cast EXCEPT ![e] = None]
             z == Rewrite(Tables, rows, casts, Tables.told)
  <1>1. /\ entity[e] \in SoundRow
        /\ entity \in Rows /\ cast \in CastTable /\ Tables.told \in Events
    BY SettledIs, FieldsTyped DEF Rows
  <1>2. r \in SoundRow /\ r.walking = FALSE
    BY <1>1 DEF SoundRow, Row
  <1>4. Commit(z)
    BY DEF expire_stale_presence, Tables, Rewrite, Commit
  <1> HIDE DEF r
  <1>5. rows \in Rows /\ casts \in CastTable
    BY <1>1, <1>2 DEF Rows, CastTable
  <1>6. /\ rows[e] = r /\ casts[e] = None
        /\ \A u \in Entities : u # e => rows[u] = entity[u] /\ casts[u] = cast[u]
    BY <1>1 DEF Rows, CastTable
  <1> HIDE DEF rows, casts
  <1>7. /\ z \in View /\ SameRest(Tables, z) /\ z.entity = rows /\ z.cast = casts
        /\ z.told = Tables.told
    BY <1>1, <1>5, SettledIs, Rewritten
  <1> HIDE DEF z
  <1>8. Obeys(z, e)
    BY <1>2, <1>6, <1>7 DEF Obeys
  <1>9. \A u \in Entities : u # e => Obeys(z, u)
    BY <1>6, <1>7, SettledIs, TablesFields, SparedObeys DEF Spared
  <1>10. z.fired = {} /\ z.cooldown = cooldown
    BY <1>7, TablesFields DEF SameRest
  <1>11. Quiet(z)
    BY <1>6, <1>7, <1>8, <1>9, <1>10 DEF Quiet
  <1>12. \A u \in Entities : u # e => Ends(z, u)
    BY <1>6, <1>7 DEF Ends
  <1> QED
    BY <1>4, <1>11, <1>12, QuietIsLawful

-----------------------------------------------------------------------------
(* The press.                                                              *)

(* What a press finds, and how it first ends the cast it replaces.         *)
LEMMA PressFinds ==
    ASSUME Settled, NEW e \in Entities, NEW a \in Abilities, CanPress(e, a)
    PROVE  LET x == cancel_cast(Tables, e)
           IN  /\ cooldown[e][a] = 0 /\ ~ casting_blocked(Tables, e)
               /\ x \in View /\ SameRest(Tables, x) /\ x.entity = entity
               /\ \A u \in Entities : u # e => Spared(Tables, x, u)
               /\ x.cast[e] = None
               /\ \/ cast[e] = None
                  \/ Interrupted(Tables, x, e)
               /\ \A u \in Entities : Obeys(x, u)
  <1> DEFINE x == cancel_cast(Tables, e)
  <1>1. /\ x \in View /\ SameRest(Tables, x) /\ x.entity = Tables.entity
        /\ \A u \in Entities : u # e => Spared(Tables, x, u)
        /\ x.cast[e] = None
        /\ \/ Tables.cast[e] = None
           \/ Interrupted(Tables, x, e)
    BY SettledIs, CancelView
  <1> HIDE DEF x
  <1>2. \A u \in Entities : u # e => Obeys(x, u)
    BY <1>1, SettledIs, SparedObeys
  <1>3. Obeys(x, e)
    BY <1>1, SettledIs, GatesOfSpared DEF Obeys
  <1>4. cooldown[e][a] = 0 /\ ~ casting_blocked(Tables, e)
    BY DEF CanPress
  <1> QED
    BY <1>1, <1>2, <1>3, <1>4, TablesFields DEF x

(* The cast that a press replaced is told interrupted.                     *)
LEMMA ReplacedEnds ==
    ASSUME Settled, NEW x, NEW z, NEW e \in Entities,
           cast[e] = None \/ Interrupted(Tables, x, e), z.told[e] = x.told[e],
           cast[e] # None => <<e, cast[e].ability>> \notin z.fired \/ Kind[cast[e].ability] # "CastTime"
    PROVE  Ends(z, e)
  <1>1. CASE cast[e] = None
    BY <1>1 DEF Ends
  <1>2. CASE Interrupted(Tables, x, e)
    <2>1. ToldOff(x, e, cast[e].ability)
      BY <1>2, InterruptedTells DEF Settled, Tables
    <2> QED
      BY <2>1 DEF ToldOff, Ends
  <1> QED
    BY <1>1, <1>2

LEMMA InstantIsLawful ==
    ASSUME Settled, NEW e \in Entities, NEW a \in Abilities,
           NEW reach \in SUBSET (Entities \ {e}), CanPress(e, a), Kind[a] = "Instant",
           NEW z, z = start_cooldown(fire(cancel_cast(Tables, e), e, a, reach), e, a)
    PROVE  Lawful(z) /\ \A u \in Entities : Ends(z, u)
  <1> DEFINE x == cancel_cast(Tables, e)
             y == fire(x, e, a, reach)
  <1>1. /\ cooldown[e][a] = 0 /\ ~ casting_blocked(Tables, e)
        /\ x \in View /\ SameRest(Tables, x) /\ x.entity = entity
        /\ \A u \in Entities : u # e => Spared(Tables, x, u)
        /\ x.cast[e] = None
        /\ \/ cast[e] = None
           \/ Interrupted(Tables, x, e)
        /\ \A u \in Entities : Obeys(x, u)
    BY PressFinds
  <1> HIDE DEF x
  <1>2. /\ y \in View /\ y.fired = x.fired \cup {<<e, a>>}
        /\ y.cooldown = x.cooldown /\ y.ending = x.ending
        /\ \A u \in Entities : Suffers(x, y, u)
        /\ \A u \in Entities : u \notin reach => Spared(x, y, u)
    BY <1>1, FireView
  <1>3. z = start_cooldown(y, e, a)
    BY DEF x
  <1> HIDE DEF y
  <1>4. /\ z \in View /\ z.fired = y.fired
        /\ z.cooldown[e] = [y.cooldown[e] EXCEPT ![a] = Cooldown[a]]
        /\ \A u \in Entities : u # e => z.cooldown[u] = y.cooldown[u]
        /\ \A u \in Entities : Spared(y, z, u)
    BY <1>2, <1>3, CoolingView
  <1>5. z.fired = {<<e, a>>}
    BY <1>1, <1>2, <1>4, TablesFields DEF SameRest
  <1>6. y.cooldown = cooldown
    BY <1>1, <1>2, TablesFields DEF SameRest
  <1>7. \A u \in Entities : Suffers(x, z, u)
    BY <1>2, <1>4, SparedSuffers, SuffersTransitive
  <1>8. \A u \in Entities : Obeys(z, u)
    BY <1>1, <1>7 DEF Suffers
  <1>9. \A u \in Entities : u # e => Suffers(Tables, z, u)
    BY <1>1, <1>7, SparedSuffers, SuffersTransitive
  <1>10. z.cast[e] = None /\ z.told[e] = x.told[e]
    <2>1. Spared(x, y, e) /\ Spared(y, z, e)
      BY <1>2, <1>4
    <2> QED
      BY <1>1, <2>1 DEF Spared
  <1>11. cooldown \in Cooldowns /\ Cooldown[a] > 0
    BY SettledIs, Bounds
  <1>12. z.cooldown[e][a] = Cooldown[a] /\ \A b \in Abilities : b # a => z.cooldown[e][b] = cooldown[e][b]
    BY <1>4, <1>6, <1>11 DEF Cooldowns, Timers
  <1>13. ASSUME NEW u \in Entities, u # e PROVE Ready(z, u) /\ Paid(z, u) /\ Ends(z, u)
    <2>1. z.cooldown[u] = cooldown[u] /\ \A b \in Abilities : <<u, b>> \notin z.fired
      BY <1>4, <1>5, <1>6, <1>13
    <2>2. Suffers(Tables, z, u)
      BY <1>9, <1>13
    <2>3. z.cast[u] = cast[u] \/ z.cast[u] = None
      BY <2>2, TablesFields DEF Suffers, Interrupted
    <2>4. Ready(z, u)
      BY <2>1, <2>3, SettledIs, TablesFields DEF Ready
    <2>5. Paid(z, u)
      BY <2>1 DEF Paid
    <2>6. <<u, cast[u].ability>> \notin z.fired
      BY <1>5, <1>13
    <2>7. Ends(z, u)
      BY <2>2, <2>6, SuffersEnds
    <2> QED
      BY <2>4, <2>5, <2>7
  <1>14. Ready(z, e)
    BY <1>10 DEF Ready
  <1>15. Paid(z, e)
    BY <1>1, <1>5, <1>11, <1>12 DEF Paid
  <1>16. Ends(z, e)
    <2>1. cast[e] # None => <<e, cast[e].ability>> \notin z.fired \/ Kind[cast[e].ability] # "CastTime"
      BY <1>5
    <2> QED
      BY <1>1, <1>10, <2>1, ReplacedEnds
  <1> QED
    BY <1>4, <1>8, <1>13, <1>14, <1>15, <1>16 DEF Lawful

(* A cast or a channel is opened by a caster that stands, with its timers  *)
(* as t.                                                                   *)
LEMMA OpenIsLawful ==
    ASSUME Settled, NEW e \in Entities, NEW a \in Abilities, NEW armed \in Nat,
           CanPress(e, a), Kind[a] # "Instant",
           NEW y \in View, y.fired = {}, \A u \in Entities : Spared(freeze(cancel_cast(Tables, e), e), y, u),
           \A u \in Entities : u # e => y.cooldown[u] = cooldown[u],
           \A b \in Abilities : Kind[b] # "Channeling" => y.cooldown[e][b] = cooldown[e][b],
           NEW z, z = Open(y, e, a, armed)
    PROVE  Lawful(z) /\ \A u \in Entities : Ends(z, u)
  <1> DEFINE x == cancel_cast(Tables, e)
             p == freeze(x, e)
             c == [ability |-> a, elapsed |-> 0, acc |-> armed, away |-> FALSE]
  <1>1. /\ cooldown[e][a] = 0 /\ ~ casting_blocked(Tables, e)
        /\ x \in View /\ SameRest(Tables, x) /\ x.entity = entity
        /\ \A u \in Entities : u # e => Spared(Tables, x, u)
        /\ \A u \in Entities : Obeys(x, u)
    BY PressFinds
  <1>a. \A u \in Entities : Spared(p, y, u)
    OBVIOUS
  <1> HIDE DEF x
  <1>2. /\ p \in View
        /\ \A u \in Entities : u # e => Spared(x, p, u)
        /\ p.entity[e] = [x.entity[e] EXCEPT !.walking = FALSE]
    BY <1>1, FreezeView
  <1> HIDE DEF p
  <1>3. c \in Underway
    BY Bounds DEF Underway, CastState
  <1>4. z = WithCast(y, e, c)
    BY DEF Open, WithCast
  <1>5. c.ability = a /\ c # None
    BY <1>3, Bounds DEF Underway
  <1> HIDE DEF c
  <1>6. /\ z \in View /\ SameRest(y, z) /\ z.entity = y.entity /\ z.told = y.told
        /\ z.cast[e] = c
        /\ \A u \in Entities : u # e => Spared(y, z, u)
    BY <1>3, <1>4, CastView
  <1>7. z.fired = {} /\ z.cooldown = y.cooldown
    BY <1>6 DEF SameRest
  <1>8. ASSUME NEW u \in Entities, u # e PROVE Spared(Tables, z, u)
    BY <1>1, <1>2, <1>6, <1>8, <1>a DEF Spared
  <1>9. /\ entity[e] \in SoundRow
        /\ z.entity[e].control = entity[e].control /\ z.entity[e].walking = FALSE
    <2>1. entity[e] \in SoundRow
      BY SettledIs DEF Rows
    <2>2. z.entity[e] = [entity[e] EXCEPT !.walking = FALSE]
      BY <1>1, <1>2, <1>6, <1>a DEF Spared
    <2> QED
      BY <2>1, <2>2 DEF SoundRow, Row
  <1>10. Obeys(z, e)
    BY <1>1, <1>9, TablesFields, GatesOfSpared DEF Obeys
  <1>11. \A u \in Entities : u # e => Obeys(z, u)
    BY <1>8, SettledIs, SparedObeys
  <1>12. \A u \in Entities : Ends(z, u)
    BY <1>5, <1>6, <1>8, TablesFields DEF Ends, Spared
  <1>13. ASSUME NEW u \in Entities PROVE Ready(z, u)
    <2>1. CASE u = e
      BY <1>1, <1>5, <1>6, <1>7, <2>1 DEF Ready
    <2>2. CASE u # e
      <3>1. z.cast[u] = cast[u] /\ z.cooldown[u] = cooldown[u]
        BY <1>7, <1>8, <2>2, TablesFields DEF Spared
      <3> QED
        BY <3>1, SettledIs, TablesFields DEF Ready
    <2> QED
      BY <2>1, <2>2
  <1>14. ASSUME NEW u \in Entities PROVE Paid(z, u)
    <2>1. \A b \in Abilities : Kind[b] # "Channeling" => z.cooldown[u][b] = cooldown[u][b]
      BY <1>7
    <2>2. \A b \in Abilities : <<u, b>> \notin z.fired
      BY <1>7
    <2> QED
      BY <2>1, <2>2 DEF Paid
  <1> QED
    BY <1>6, <1>10, <1>11, <1>12, <1>13, <1>14 DEF Lawful

LEMMA PressIsLawful ==
    ASSUME Settled, NEW e \in Entities, NEW a \in Abilities,
           NEW reach \in SUBSET (Entities \ {e}), press(e, a, reach)
    PROVE  \E z : Commit(z) /\ Lawful(z) /\ \A u \in Entities : Ends(z, u)
  <1> DEFINE x == cancel_cast(Tables, e)
             p == freeze(x, e)
             v == start_cooldown(p, e, a)
  <1>1. /\ CanPress(e, a)
        /\ Commit(CASE Kind[a] = "Instant" -> start_cooldown(fire(x, e, a, reach), e, a)
                    [] Kind[a] = "CastTime" -> Open(p, e, a, 0)
                    [] Kind[a] = "Channeling" -> Open(v, e, a, Interval[a]))
    BY DEF press
  <1>2. x \in View /\ SameRest(Tables, x)
    BY <1>1, PressFinds
  <1>3. p \in View /\ SameRest(x, p)
    BY <1>2, FreezeView
  <1>4. p.fired = {} /\ p.cooldown = cooldown
    BY <1>2, <1>3, TablesFields DEF SameRest
  <1>5. CASE Kind[a] = "Instant"
    <2> DEFINE z == start_cooldown(fire(x, e, a, reach), e, a)
    <2>1. Commit(z)
      BY <1>1, <1>5
    <2>2. Lawful(z) /\ \A u \in Entities : Ends(z, u)
      BY <1>1, <1>5, InstantIsLawful
    <2> QED
      BY <2>1, <2>2
  <1>6. CASE Kind[a] = "CastTime"
    <2> DEFINE z == Open(p, e, a, 0)
    <2>1. Commit(z)
      BY <1>1, <1>6
    <2>2. \A u \in Entities : Spared(p, p, u)
      BY DEF Spared
    <2>3. Lawful(z) /\ \A u \in Entities : Ends(z, u)
      <3>1. Kind[a] # "Instant" /\ 0 \in Nat
        BY <1>6
      <3> QED
        BY <1>1, <1>3, <1>4, <2>2, <3>1, OpenIsLawful
    <2> QED
      BY <2>1, <2>3
  <1>7. CASE Kind[a] = "Channeling"
    <2> DEFINE z == Open(v, e, a, Interval[a])
    <2>1. Commit(z)
      BY <1>1, <1>7
    <2>2. /\ v \in View /\ v.fired = p.fired
          /\ v.cooldown[e] = [p.cooldown[e] EXCEPT ![a] = Cooldown[a]]
          /\ \A u \in Entities : u # e => v.cooldown[u] = p.cooldown[u]
          /\ \A u \in Entities : Spared(p, v, u)
      BY <1>3, CoolingView
    <2>3. \A b \in Abilities : Kind[b] # "Channeling" => v.cooldown[e][b] = cooldown[e][b]
      <3>1. cooldown[e] \in Timers
        BY SettledIs DEF Cooldowns
      <3> HIDE DEF v
      <3> QED
        BY <1>4, <1>7, <2>2, <3>1 DEF Timers
    <2>4. Lawful(z) /\ \A u \in Entities : Ends(z, u)
      <3>1. Kind[a] # "Instant" /\ Interval[a] \in Nat
        BY <1>7, Bounds
      <3> HIDE DEF v
      <3>2. v.fired = {} /\ \A u \in Entities : u # e => v.cooldown[u] = cooldown[u]
        BY <1>4, <2>2
      <3> QED
        BY <1>1, <2>2, <2>3, <3>1, <3>2, OpenIsLawful
    <2> QED
      BY <2>1, <2>4
  <1>8. Kind[a] \in {"Instant", "CastTime", "Channeling"}
    BY Bounds
  <1> QED
    BY <1>5, <1>6, <1>7, <1>8

-----------------------------------------------------------------------------
(* The invariant and the theorems.                                         *)

(* What a wind-up under way still has to pay.                              *)
WindUpsUnpaid ==
    \A e \in Entities :
        cast[e] # None /\ Kind[cast[e].ability] = "CastTime"
            => cooldown[e][cast[e].ability] = 0

IInv == TypeOK /\ ControlsHold /\ WindUpsUnpaid

LEMMA IInvSettles ==
    ASSUME IInv
    PROVE  Settled
  <1>1. Tables \in View
    BY TablesAreAView DEF IInv
  <1>2. \A e \in Entities : Obeys(Tables, e) /\ Ready(Tables, e)
    BY TablesFields DEF IInv, ControlsHold, WindUpsUnpaid, Obeys, Ready
  <1> QED
    BY <1>1, <1>2, TablesFields DEF Settled, Fresh

(* What a lawful transaction leaves.                                       *)
LEMMA LawfulCommit ==
    ASSUME NEW z, Commit(z), Lawful(z)
    PROVE  IInv'
  <1>1. TypeOK'
    BY CommitView DEF Lawful
  <1>2. entity' = z.entity /\ cast' = z.cast /\ cooldown' = z.cooldown
    BY DEF Commit
  <1>3. ASSUME NEW e \in Entities PROVE Obeys(z, e) /\ Ready(z, e)
    BY DEF Lawful
  <1>4. ControlsHold'
    <2>1. ControlsHold' = \A e \in Entities : Obeys(Tables', e)
      BY DEF ControlsHold, Obeys, Tables
    <2>2. Tables'.entity = z.entity /\ Tables'.cast = z.cast
      BY <1>2 DEF Tables
    <2>3. \A e \in Entities : Obeys(Tables', e)
      BY <1>3, <2>2, GatesOfSpared DEF Obeys
    <2> QED
      BY <2>1, <2>3
  <1>5. WindUpsUnpaid'
    BY <1>2, <1>3 DEF WindUpsUnpaid, Ready
  <1> QED
    BY <1>1, <1>4, <1>5 DEF IInv

LEMMA InitIInv == Init => IInv
  <1>1. SUFFICES ASSUME Init PROVE IInv
    OBVIOUS
  <1>2. PICK worn \in [Characters -> Loadouts] :
           entity = [e \in Entities |->
             [dead |-> FALSE, walking |-> FALSE, control |-> [k \in Controls |-> 0],
              worn |-> IF e \in Creatures THEN Kit ELSE worn[e]]]
    BY <1>1 DEF Init
  <1> DEFINE none == [k \in Controls |-> 0]
  <1>3. /\ none \in [Controls -> Nat]
        /\ \A k \in Controls : none[k] <= ControlTime[k] /\ ~ (none[k] > 0)
    BY Bounds
  <1>4. ASSUME NEW e \in Entities
        PROVE  /\ entity[e] \in Row /\ entity[e].control = none /\ ~ entity[e].walking
    <2>1. (IF e \in Creatures THEN Kit ELSE worn[e]) \in Loadouts \cup {Kit}
      BY DEF Entities
    <2>2. entity[e] = [dead |-> FALSE, walking |-> FALSE, control |-> none,
                       worn |-> IF e \in Creatures THEN Kit ELSE worn[e]]
      BY <1>2
    <2> HIDE DEF none
    <2> QED
      BY <1>3, <2>1, <2>2 DEF Row
  <1>5. entity \in [Entities -> Row]
    <2>1. entity = [e \in Entities |-> entity[e]]
      BY <1>2
    <2> QED
      BY <1>4, <2>1
  <1>6. /\ \A e \in Entities : cast[e] = None /\ told[e] = <<>>
        /\ cast \in [Entities -> CastState \cup {None}] /\ told \in [Entities -> Seq(Ended)]
        /\ fired = {}
    BY <1>1 DEF Init
  <1>7. /\ \A e \in Entities, a \in Abilities : cooldown[e][a] = 0
        /\ cooldown \in [Entities -> [Abilities -> Nat]]
    BY <1>1 DEF Init
  <1> HIDE DEF none
  <1>8. \A e \in Entities, k \in Controls : entity[e].control[k] <= ControlTime[k]
    BY <1>3, <1>4
  <1>9. \A e \in Entities, a \in Abilities : cooldown[e][a] <= Cooldown[a]
    BY <1>7, Bounds
  <1>10. TypeOK
    BY <1>5, <1>6, <1>7, <1>8, <1>9 DEF TypeOK
  <1>11. ControlsHold
    BY <1>4, <1>6 DEF ControlsHold
  <1>12. WindUpsUnpaid
    BY <1>6 DEF WindUpsUnpaid
  <1> QED
    BY <1>10, <1>11, <1>12 DEF IInv

(* A lawful transaction that tells of every cast it ends but that of a     *)
(* player timed out.                                                       *)
Known(z, e) == Ends(z, e) \/ (e \in Characters /\ expire_stale_presence(e))

Honest(z) == Commit(z) /\ Lawful(z) /\ \A e \in Entities : Known(z, e)

LEMMA EndsIsHonest ==
    ASSUME \E z : Commit(z) /\ Lawful(z) /\ \A e \in Entities : Ends(z, e)
    PROVE  \E z : Honest(z)
  <1>1. PICK z : Commit(z) /\ Lawful(z) /\ \A e \in Entities : Ends(z, e)
    OBVIOUS
  <1>2. ASSUME NEW e \in Entities PROVE Known(z, e)
    <2>1. Ends(z, e)
      BY <1>1
    <2> QED
      BY <2>1 DEF Known
  <1>3. Honest(z)
    BY <1>1, <1>2 DEF Honest
  <1> QED
    BY <1>3

LEMMA NextIsHonest ==
    ASSUME IInv, Next
    PROVE  \E z : Honest(z)
  <1>1. Settled
    BY IInvSettles
  <1>2. Characters \subseteq Entities
    BY DEF Entities
  <1>3. CASE Tick
    BY <1>1, <1>3, TickIsLawful, EndsIsHonest
  <1>4. ASSUME NEW e \in Entities, NEW a \in Abilities, NEW reach \in SUBSET (Entities \ {e}),
               press(e, a, reach)
        PROVE  \E z : Honest(z)
    BY <1>1, <1>2, <1>4, PressIsLawful, EndsIsHonest
  <1>5. ASSUME NEW e \in Entities,
               move_to(e)
        PROVE  \E z : Honest(z)
    BY <1>1, <1>2, <1>5, MoveIsLawful, EndsIsHonest
  <1>6. ASSUME NEW e \in Entities,
               stop(e)
        PROVE  \E z : Honest(z)
    BY <1>1, <1>2, <1>6, StopIsLawful, EndsIsHonest
  <1>7. ASSUME NEW e \in Entities, NEW lethal \in BOOLEAN, NEW kind \in Controls \cup {None},
               resolve_bundle(e, lethal, kind)
        PROVE  \E z : Honest(z)
    BY <1>1, <1>2, <1>7, BundleIsLawful, EndsIsHonest
  <1>8. ASSUME NEW e \in Entities, NEW away \in BOOLEAN,
               resurrect(e, away)
        PROVE  \E z : Honest(z)
    BY <1>1, <1>2, <1>8, ResurrectIsLawful, EndsIsHonest
  <1>9. ASSUME NEW e \in Characters,
               release_cast(e)
        PROVE  \E z : Honest(z)
    BY <1>1, <1>2, <1>9, ReleaseIsLawful, EndsIsHonest
  <1>10. ASSUME NEW e \in Characters, NEW worn \in Loadouts,
                equip(e, worn)
         PROVE  \E z : Honest(z)
    BY <1>1, <1>2, <1>10, EquipIsLawful, EndsIsHonest
  <1>11. ASSUME NEW e \in Characters, expire_stale_presence(e)
         PROVE  \E z : Honest(z)
    <2>1. e \in Entities
      BY <1>2
    <2>2. PICK z : Commit(z) /\ Lawful(z) /\ \A u \in Entities : u # e => Ends(z, u)
      BY <1>1, <1>11, <2>1, ExpireIsLawful
    <2>3. ASSUME NEW u \in Entities PROVE Known(z, u)
      <3>1. CASE u = e
        BY <1>11, <3>1 DEF Known
      <3>2. CASE u # e
        <4>1. Ends(z, u)
          BY <2>2, <3>2
        <4> QED
          BY <4>1 DEF Known
      <3> QED
        BY <3>1, <3>2
    <2>4. Honest(z)
      BY <2>2, <2>3 DEF Honest
    <2> QED
      BY <2>4
  <1>12. CASE \E e \in Entities :
            \/ \E a \in Abilities, reach \in SUBSET (Entities \ {e}) : press(e, a, reach)
            \/ move_to(e)
            \/ stop(e)
            \/ \E lethal \in BOOLEAN, kind \in Controls \cup {None} :
                  resolve_bundle(e, lethal, kind)
            \/ \E away \in BOOLEAN : resurrect(e, away)
    BY <1>4, <1>5, <1>6, <1>7, <1>8, <1>12
  <1>13. CASE \E e \in Characters :
            \/ release_cast(e)
            \/ \E worn \in Loadouts : equip(e, worn)
            \/ expire_stale_presence(e)
    BY <1>9, <1>10, <1>11, <1>13
  <1> QED
    BY <1>3, <1>12, <1>13 DEF Next

LEMMA NextIInv == IInv /\ [Next]_vars => IInv'
  <1>1. ASSUME IInv, Next PROVE IInv'
    BY <1>1, NextIsHonest, LawfulCommit DEF Honest
  <1>2. ASSUME IInv, UNCHANGED vars PROVE IInv'
    <2>1. /\ entity' = entity /\ cast' = cast /\ cooldown' = cooldown
          /\ told' = told /\ fired' = fired
      BY <1>2 DEF vars
    <2>2. TypeOK'
      BY <1>2, <2>1 DEF IInv, TypeOK
    <2>3. Tables' = Tables
      BY <2>1 DEF Tables
    <2>4. ControlsHold' /\ WindUpsUnpaid'
      BY <1>2, <2>1, <2>3 DEF IInv, ControlsHold, WindUpsUnpaid
    <2> QED
      BY <2>2, <2>4 DEF IInv
  <1> QED
    BY <1>1, <1>2

(* The tables are sound, no control is disobeyed and no wind-up under way  *)
(* is paid for, between any two transactions: spells.rs, crowd_control.rs. *)
THEOREM Invariance == Spec => []IInv
  <1> QED
    BY InitIInv, NextIInv, PTL DEF Spec

(* Whatever is pressed, struck, equipped or expired in whatever order, the *)
(* rows stay in their types: no control lasts longer than it was given, no *)
(* cast outlives its time and no channel keeps a beat back (spells.rs).    *)
THEOREM TablesAreSound == Spec => []TypeOK
  <1>1. IInv => TypeOK
    BY DEF IInv
  <1> QED
    BY <1>1, Invariance, PTL

(* Between any two transactions nobody casts under a control that forbids  *)
(* it and nobody walks under one that forbids that, in whatever order the  *)
(* tick took the duelists (crowd_control.rs:155, spells.rs:1054).          *)
THEOREM ControlsAreObeyed == Spec => []ControlsHold
  <1>1. IInv => ControlsHold
    BY DEF IInv
  <1> QED
    BY <1>1, Invariance, PTL

(* The cooldown of an instant or a wind-up starts in the very step it      *)
(* takes effect, and in no other (spells.rs:1107).                         *)
THEOREM CooldownsArePaid == Spec => CooldownIffFired
  <1> DEFINE Step ==
          \A e \in Entities, a \in Abilities :
             Kind[a] # "Channeling" =>
                (<<e, a>> \in fired' <=> cooldown[e][a] = 0 /\ cooldown'[e][a] > 0)
  <1>1. IInv /\ [Next]_vars => [Step]_vars
    <2>1. SUFFICES ASSUME IInv, Next PROVE Step
      OBVIOUS
    <2>2. PICK z : Commit(z) /\ Lawful(z)
      BY <2>1, NextIsHonest DEF Honest
    <2>3. fired' = z.fired /\ cooldown' = z.cooldown
      BY <2>2 DEF Commit
    <2>4. \A e \in Entities : Paid(z, e)
      BY <2>2 DEF Lawful
    <2> QED
      BY <2>3, <2>4 DEF Paid
  <1>2. CooldownIffFired <=> [][Step]_vars
    BY PTL DEF CooldownIffFired
  <1> QED
    BY <1>1, <1>2, Invariance, PTL DEF Spec

(* The last word of a step about a cast it ended is the truth, save that   *)
(* a player timed out is told nothing (spells.rs:319, lifecycle.rs:645).   *)
THEOREM EndsAreToldTruly == Spec => EndsAreTold
  <1> DEFINE Step ==
          \A e \in Entities :
             cast[e] # None /\ cast'[e] = None =>
                \/ /\ told'[e] # <<>>
                   /\ Last(told'[e]).ability = cast[e].ability
                   /\ Kind[cast[e].ability] = "CastTime" =>
                         (Last(told'[e]).interrupted <=> <<e, cast[e].ability>> \notin fired')
                \/ e \in Characters /\ expire_stale_presence(e)
  <1>1. IInv /\ [Next]_vars => [Step]_vars
    <2>1. SUFFICES ASSUME IInv, Next PROVE Step
      OBVIOUS
    <2>2. PICK z : Commit(z) /\ \A e \in Entities : Known(z, e)
      BY <2>1, NextIsHonest DEF Honest
    <2>3. cast' = z.cast /\ told' = z.told /\ fired' = z.fired
      BY <2>2 DEF Commit
    <2>4. ASSUME NEW e \in Entities, Ends(z, e), cast[e] # None, cast'[e] = None
          PROVE  /\ told'[e] # <<>>
                 /\ Last(told'[e]).ability = cast[e].ability
                 /\ Kind[cast[e].ability] = "CastTime" =>
                       (Last(told'[e]).interrupted <=> <<e, cast[e].ability>> \notin fired')
      BY <2>3, <2>4 DEF Ends
    <2> QED
      BY <2>2, <2>4 DEF Known
  <1>2. EndsAreTold <=> [][Step]_vars
    BY PTL DEF EndsAreTold
  <1> QED
    BY <1>1, <1>2, Invariance, PTL DEF Spec

=============================================================================
