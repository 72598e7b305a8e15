# TLA+ models of the Eivar-Online server

This directory holds TLA+ modules of the authoritative game server, the TLC
configurations that check them on small instances, and proofs for TLAPS of what
matters most in them. Paths below are relative to the repository; `sm` stands
for `crates/stdb-module/src` and `gp` for `crates/gameplay/src`.

    tlc -workers 2 -config MCParties.cfg MCParties     # model-check one run
    tlapm PartiesProofs.tla                            # check one module's proofs

`PROJECT.json` maps every definition to the lines it models, lists the runs, a
mutation per property that the run must catch, the hazards of the code and the
theorems.

## 1. The system

A Bevy client predicts and draws; a SpacetimeDB module decides. The module's
tables are the whole state of the world. It is changed by *reducers*, called by
a client over its connection, and by one scheduled reducer, `game_tick`
(`sm/tick.rs:59`), every 50 ms. An HTTP gateway (`apps/gateway`) opens
connections of its own on behalf of websites and holders of API keys. The rules
and their arithmetic are pure functions in `gp`, the definitions of items,
creatures and abilities are embedded content.

Three facts about the host shape every model but that of the gateway, which
is a program of its own where tasks interleave at every `await`:

* **A reducer is one serializable transaction.** Two calls never overlap, so a
  call is one action. What does interleave is *calls*: everything read or agreed
  in one call may be stale by the next.
* **`Err` rolls the transaction back.** A refused call is no step, even where
  the code deletes rows before it returns `Err` (`party_accept` on a stale
  request, `require_open_bag` on a bag past its deadline: neither deletion ever
  commits).
* **`game_tick` is one transaction too**, made of the systems in a fixed order:
  status, crowd control, movement, gathering, crafting, spells, combat
  (modifiers, periodic effects, shields, mana, the death sweep, respawns), loot,
  AI, then throttled presence expiry. Within a tick nothing interleaves, but a
  system sees what the ones before it wrote, and may write rows it copied earlier.

### Components

| Component | State | Operations | What is hard | What makes it correct | Module |
|---|---|---|---|---|---|
| Parties `sm/reducers/parties.rs` | `party`, `party_member`, `party_request` | invite, join, accept, decline, leave, clean-up on deletion | requests answered long after they were made; promotion; deletion across three tables | roster consistent, size bounded, nobody moved without consent, the longest-tenured leads | Parties, PartyRoster, PartiesRefinement |
| Accounts, sessions, presence `sm/reducers/{account,lifecycle}.rs` | `account`, `session`, `player.account_id/online/last_seen` | register, login, logout, join, leave, delete_character, heartbeat, connection hooks, presence sweep | sessions keyed by identity, several sockets of one identity, rows that survive a crash | a character has one session, of its own account; ghosts fade | Lifecycle |
| Bags and equipment `gp/items/components.rs`, `sm/reducers/items.rs` | `inventory.slots`, `equipment.slots` | grant, move, split, combine, equip, unequip, destroy, craft | stack cap, full bags, instance ids recomputed by scanning | pieces conserved, ids distinct, announced space is exact | Inventory, Items |
| Markets and wallets `sm/reducers/{market,economy}.rs` | sell and buy orders with escrow, `character_wallet` | place, fill, cancel (sell and buy), grants | escrow, fees, overflow, owners that are deleted | nothing minted or misdirected, best bid first, fee as posted | Market, Barter |
| Life, death, loot `sm/sim/{combat,loot,movement,status}.rs`, `sm/reducers/{combat,loot,movement}.rs` | `game_entity`, `entity_stats`, `active_status`, `loot_bag` | blows, heals, statuses, death, sweep, respawn, drops, looting, walking, the tick | state and health kept in two rows, written by many; corpses revived by half; deadlines | state and health agree, pieces in one place, creatures and bags go their way | Vitals |
| Gathering `sm/reducers/gathering.rs`, `sm/sim/gathering.rs` | `gather_session`, `resource_node` | start, stop, advance, complete, regrow | shared nodes, several channels for the last piece, four writers of the time of the next regrowth | a node pays out what it held and grew, and is scheduled to grow | Gathering |
| Crafting channel `sm/reducers/crafting.rs`, `sm/sim/crafting.rs` | `craft_session` | start, stop, advance, complete | the bag changes while the channel runs | all of a craft or none; one occupation at a time | Gathering, Items |
| Casts and cooldowns `sm/reducers/spells.rs`, `sm/sim/spells.rs` | `cast_state`, `cooldown`, `cast_ended` | press, release, tick, interrupt, complete | stun, death, new equipment in the tick of completion; casts collected before any is taken | controls hold, cooldowns are paid for what took effect, ends are told as they were, every cast ends | Casts |
| Projectiles, areas | `projectile`, `aoe_region` | fly, last, deliver | geometry decides | | inputs of Casts, Vitals, Encounter |
| Crowd control, modifiers, shields, mana | their tables, `entity_stats` | apply, expire, absorb, regenerate | derived stats against base stats | controls gate at once; stats derivable | Casts (controls), Vitals (slow, burn, mend, speed); shields and mana not |
| Enemy and boss AI `sm/sim/ai.rs` | `threat`, `enemy_ai`, `boss_state` | acquire, leash, attack, phase, reset | acts on rows collected at the start of the step | no pose over a death or a cast, one grudge, fights run forward, rage comes | Encounter |
| Tick clock `sm/tick.rs`, `sm/sim/throttle.rs` | last timestamp, throttles | advance | first tick after a reset, stalls | dt in [0, 0.25 s] | `advance_clock` in Gathering; throttles not |
| Gateway sessions, API keys `apps/gateway/src/stdb`, `apps/gateway/src/api/{auth,api_keys}.rs`, `sm/reducers/api_keys.rs` | map of live connections behind a lock, key rows | register, login, logout, use, evict, reap; mint, revoke, authenticate | tasks that interleave at every await, requests dropped by a timeout anywhere, concurrent first requests | no socket leaks, caps hold, a revoked key opens nothing, idle sessions end | Gateway |
| Gateway handlers, rate limit, directory | counters per address, one shared connection | request handlers | none across requests but the limiter | projections are faithful | not modelled: I/O |
| Resonance, chat, event log, seeding, views | one row per character, event tables | overwrite, append | none: no second actor | | not modelled |
| World geometry, shared rules, content | none | pure functions over floats | | | used as inputs |
| Client, presentation, frontend | predicted pose, UI | input, reconciliation | prediction against late rows | the prediction converges | not modelled: floating point |
| Macros, core, network, app support | none | compile time, types, settings | | | not modelled |

Components meet in few places: `delete_character` reaches parties, inventory,
wallet and sessions (and leaves market orders, see finding 5); death moves a bag
into a `loot_bag`; everything that mints a pile scans bags, equipment, listings
and loot bags for the highest instance id; `leave` and `client_disconnected`
write the entity's state as well as the session.

## 2. Plan

Modules, in the order in which the behaviour matters to players:

1. **Parties** with its abstract specification **PartyRoster** (a queue led by
   its head), related by **PartiesRefinement**; proofs in **PartiesProofs**. *Done.*
2. **Lifecycle**; proofs in **LifecycleProofs**. *Done.*
3. **Inventory** (operators of a bag) and **Items** (bags and equipment); proofs
   in **GatheringProofs**, with those of Gathering, which need the same accounts
   of a bag. *Done.*
4. **Market** over Inventory, with its abstract specification **Barter**; proofs
   in **MarketProofs**. *Done.*
5. **Vitals**: death, loot and the tick; proofs in **VitalsProofs**. *Done.*
6. **Gateway**: the session map under concurrent handlers and the reaper, with
   the rows of API keys; proofs in **GatewayProofs**. *Done.*
7. **Casts**: one cast per entity against movement, stun and death; proofs in
   **CastsProofs**. *Done.*
8. **Gathering**: channels on shared nodes, and with it the crafting channel,
   composed with Inventory; proofs in **GatheringProofs**. *Done.*
9. **Encounter**: threat, leash, phases and the collected rows of the AI; proofs
   in **EncounterProofs**. *Done.*
10. **Shields and mana** as rows of Vitals, and the client's **prediction** as a
    protocol of poses that arrive late. *Not begun.*

The runs that only exhibited a divergence made room for the modules 6 to 9; what
they showed is kept in section 6.

## 3. The modules

### Parties

`players, leader, partyOf, joinedAt, requests` are the tables; `lastParty` is
the auto-increment counter and `clock` the timestamps that are compared. Each
reducer is an action (an invite is two: by a leader, and by a character in no
party, who founds one). `StillValid` is what `party_accept` checks again:
existence, room, and the newcomer's freedom. `LeaderAfter` is
`leave_party`/`forget_deleted_character` up to who is promoted. `NewCharacter`
stands for `join`; names, notices and lookups by name are left out.

PartyRoster knows neither requests nor timestamps: characters found, enter at the
tail and depart from anywhere. A queue there is its members and the pairs of one
who stands ahead of another. PartiesRefinement maps a party to its leader
followed by the other members by `joined_at`, so a wrong promotion breaks it.

### Lifecycle

`conn[k]` is the identity behind an open socket; `sessAccount` and `sessChar`
are the two columns of the session row, keyed by *identity*, so two windows on
one machine share a row and one closing deletes it for both, as
`client_disconnected` does. `owner` is `player.account_id` with two more values
for characters not created yet and deleted. `Crash` closes every connection and
runs no hook (`lifecycle.rs:617`). `fresh` abstracts `last_seen`: it is set by
every call that writes it, reset by `Lapse`, and read by `expire_stale_presence`.
Passwords, starter items and the clean-up of combat tables are left out.

### Inventory and Items

Inventory has no state: a bag is a function from slots to piles, and the code's
loops over slots appear in closed form through `Portion` (what slot `s` gets
when `n` is spread in index order). `Pile` and `Bag` are the sets of what a slot
and a bag may hold; what lies in a bag is a sum over its slots
(`SumFunction`), so that a proof can follow it. `Drained` is what is left of a
pile that some of its pieces leave. Items adds bags (`inventory`) and equipment
(`worn`) of each owner, with a ledger `supply` for conservation. What the two ends of a craft do to a bag
(`preview_craft`, `apply_craft`) is in Inventory, for Items and Gathering. `next_instance_id` is the scan of the code, taken
before ingredients leave, as in `complete_channel`; `ItemsInv` says, besides the
types, that it never gives an id that a pile has. Equipping swaps: what was worn
takes the slot.

### Market and Barter

One counter of order ids serves both tables. A sell order holds the pile, a buy
order the gold. `fee_gold` rounds down; `FeeIsLegal` is the code's refusal of a
fee that eats the price; `CanCredit` is the overflow check at `MaxGold`.
`market_sell` fills the best bid or fails, as the code does; it tries no other.
Standing near an NPC of a market is an input. Barter has neither orders nor
escrow: gold and goods move in indivisible trades, finds and losses. The mapping
counts what is in escrow as its owner's.

### Vitals

An entity is one record: the columns of `game_entity` and `entity_stats` that
matter, the remaining ticks of a slow, a burn and a mend, and whether it stands
at home. The operations on a row (`apply_damage`, `apply_healing`,
`apply_status`, `kill`, `resurrect`, ...) are operators on a record; actions
apply them. `resurrect` copies `speed` from the row its caller had read, as the
code does. `game_tick` applies status, movement, periodic effects, the sweep,
respawns and loot in the code's order; `resolve_bundle` is what a hit of the
spell or AI step delivers, before or after it. The periodic effects due in a
tick are collected first and then fired in the order of their table, which is an
input (`Due`). `movement_step`'s outcome on the map (arrived, blocked, still
going, displaced or not) is an input. A piece is indivisible here; stacking is
Inventory's. `active` is who has a session that plays the character;
`expire_stale_presence` acts on any subset, since whose presence is stale is
Lifecycle's business. A thing to know: a mend lifts a corpse that `stop` made
idle (finding 6) above zero before the sweep looks, so that it lives on without
a respawn; the content has no ability that mends, only the effect exists.

### Gateway

A task is an HTTP request or the reaper, and a step is what it does between two
awaits. The store's lock is free again before the next await in `get`, `insert`
and the reaper's scan, so these are single steps that need it free; `end` holds
it while it waits for `logout`, since the guard is a temporary of an `if let`
(`session.rs:116`, edition 2021), so it takes and frees it in steps of its own.
`handles` counts what the `Arc` behind a connection counts; its last drop closes
the socket, and the server forgets the session row. A `Timeout` may drop a
request at any step: guard, handles and entries go as the drop code says, and a
call already sent is served all the same. A step says what it does to handles
once, as the list of those it takes and the list of those it drops (`Released`).
`entries` is in order of last use,
with `idle` of them past the timeout, in place of timestamps. `cut` records the
accounts whose eviction a timeout cut short.

### Casts

An entity is its row with statuses and equipment; `cast` and `cooldown` are the
tables, `told` the events of a step, `fired` what took effect in it. A tick
collects all casts, takes them in any order, each from the row collected but
with its caster as the casts before it left it, and ends those found over after
the loop: two duelists may stun each other in one tick. What a transaction does
to the tables is an operator from view to view, and `Advanced`, the loop, a
recursive function of the number of casts taken. Whom an ability reaches
is an input. That abilities never strike their own caster is an assumption that
holds of the content. Things to know: a cast survives its caster's death and
respawn between two ticks if the spawn point is where it began; the presence
sweep deletes a cast without an event.

### Gathering

`node` holds the pieces, the age of the last regrowth and the time to the next
as it was last written, both relative to now; `lag` is the time since the last
tick. A tick grows the nodes that are due, walks, then takes the gathers in any
order (each on the node as the ones before left it) and the crafts. Between two
ticks bags are rearranged, casts begun and ended, blows taken, a game master
resets the runtime state. The loops over the two session tables are folds
(`FoldLeft`, `FoldSet`) of what one channel does. A character's `mind` is free, casting or under a
control, its `life` alive, dead, or spent: idle without health, which is what
`stop` and `leave` make of a corpse until the sweep at the end of the next tick
kills it again. Meanwhile it may begin a channel or a cast. `resurrect` frees of
controls and leaves a cast alone, as the code does. Ranges and the speed of tools
are left out: how long each gather takes and how much more it yields are inputs.

### Encounter

`mob` is, per creature, what `game_entity`, `entity_stats`, its controls,
`cast_state`, `threat` and `boss_state` say of it. The steps of the tick before
the AI are relations on one row (`Before`); then the enemies take their turns
from the rows collected, then the boss. `write_pose` writes back every column of
the row collected, as the code does. In the content enemies only wind up and the
one boss casts instants, so that only the last turn of a tick strikes others;
with a kit of instants for enemies, or two bosses, a corpse could be written
back alive, and the mutant `EnemyTurn_last` shows how. Who is alive, near or in
the ring is an input of each tick. Amounts of threat are left out: the highest
is one of those on record. Things to know: a boss stays engaged with nobody in
the ring and its clock runs on; an enemy's threat, unlike a boss's, outlives it.

## 4. The runs

| Run | Instance | Shows |
|---|---|---|
| `parties` | 4 characters, parties of at most 3, 2 parties, 5 memberships | `RosterConsistent`, `RequestsUnambiguous`, `NoGhosts`, `MutualConsent`, `ImplementsRoster` (size and tenure with it) |
| `lifecycle` | 2 sockets, 2 identities, 2 accounts, 3 characters, cap 2 | `OneSessionPerCharacter`, `SessionWithinAccount`; under fairness `GhostsFade` |
| `items` | 2 characters, bags of 3 slots, stacks of 3, one weapon slot, a recipe, 5 pieces of an item | `ItemsInv` (types and distinct ids), `PiecesConserved` |
| `market` | 3 characters, 2 markets with different fees, cap 1, 2 orders, 3 grants | `TypeOK`, `InstancesUnique`, `BestBidFirst`, `FeesAsPosted`, `ImplementsBarter` |
| `vitals` | 2 players with a piece each, 1 creature, bags of one slot, 3 loot bags | `TypeOK`, `PieceOnce`, `OnlyCrumbledPiecesVanish`, `GoldFromKills` |
| `vitals_status` | 1 player, 1 creature, 2 health, statuses of 2 ticks, no goods | `CorpsesHaveNoHealth`, `TickSettles`, `BackWhole`; under fairness `CreaturesReturn` |
| `vitals_speed` | the same with 1 health and a piece | finding: TLC is expected to violate `SpeedIsDerived` |
| `gateway` | 2 connections, 2 requests, 1 account, 2 cookies, 1 key, caps of 1 | `IInv`, `RevokedKeysDie`, `NoSocketLeaks`, `SessionsCapped` |
| `gateway_reaper` | the same with 1 request | under fairness `IdleSessionsEnd` |
| `casts` | a player (wind-up that stuns, deadly channel, instant), a creature that winds up | `TypeOK`, `ControlsHold`, `CooldownIffFired`, `EndsAreTold`; under fairness `CastsRunOut` |
| `gathering` | 2 characters, a node of 2 pieces, bags of one slot, stacks of 2, gathers of two ticks | `TypeOK`, `OneOccupation`, `RegrowthScheduled`, `PiecesAccounted` |
| `encounter` | a player, a sticky guard, a dragon | `IInv`, `FightsRunForward`; under fairness `EnrageComes` |

Why the bounds are enough:

* *Parties.* Four characters and a cap of three let a party fill up while two
  further requests for its last seat are pending, let a leader leave and rejoin
  behind two others, and leave somebody outside. Two ids let a newcomer be asked
  by two parties. `MaxClock` bounds memberships ever inserted: five is a full
  party, one that rejoins, and a second party.
* *Lifecycle.* Two sockets and two identities give every case of sharing: one
  identity on both sockets, two of them, and one that comes back under another.
  Two accounts are needed for a re-login that would carry a character over, and
  three characters for a cap of two.
* *Items.* Three slots hold a full pile, an open pile and a free slot; stacks of
  three allow a partial pour. `MaxPieces` 5 is a full pile and an open one, and
  with two staffs leaves less room than is granted. A second character makes the
  scan for the next id look into a bag and at a weapon that are not the caller's.
* *Market.* Two grants fund a buyer and stock a seller, a third funds a rival
  bid; the third character is that rival, or is deleted. The fees are chosen so that one market burns
  a piece of gold at a price where the other burns none. `MaxGold` 2 makes a
  credit overflow within the run. `FeesAsPosted` says what the fee has to be, the
  posted rate rounded down, without the model's division.
* *Vitals.* The runs divide the concerns: pieces, gold, bags and deadlines with
  one point of health, and health, statuses and timers with no goods. A loot
  bag is needed per piece and per piece of gold (`VitalsAssumption`), so a death
  always finds an id. Two ticks of status are the least at which one is running
  when a death comes and another when it expires. A respawn of two ticks shows
  a countdown that is written back.

* *Gateway.* With caps of one, two requests suffice for an insert to evict the
  other's session before, while and after the other uses it; two connections
  are one to replace and one to be replaced by. One request and the reaper are
  every race of `IdleSessionsEnd`, which speaks of the reaper's progress.
* *Casts.* Controls and steps of up to two units make a cast pass its end by one
  and meet a control that expires in the same tick; two entities are a duel.
* *Gathering.* Two pieces and two gatherers make the last piece contested and
  the node pass from full to short to empty; one slot of two makes the bag, too,
  the limit. The regrowth interval of two shows a remainder that is kept.
  Gathers take two ticks, so that one is half done when something interrupts it
  or the node runs out. `OneAtATime` bounds what is explored: one character at a
  time crafts, walks, casts, is under a control, spent or dead, while the other
  one gathers. Bodies and crafts never meet: what two characters share is the
  node, and that both may be at work on it is what the run needs. Without the
  bound the same holds with gathers of one tick (661,458 states), with one character also for
  stalls longer than a tick may count.
* *Encounter.* Three points of health put the dragon in each phase; two ticks of
  enrage and of respawn are the least at which a timer is seen running. With a
  second player the safety properties hold as well (18,766 states); the run has
  one because of the liveness check. The proofs cover the other policies.

`CHECK_DEADLOCK FALSE` is said in the runs over Parties and Market only: both
count what was ever created, and stop when the counters are spent. Symmetry is
used over characters (Parties, Items, Market, Gathering), loot-bag ids (`vitals`) or
the names of requests, connections and cookies (`gateway`), and only where a run
checks no liveness.

**Fairness.** Nothing obliges a player to call a reducer, so no reducer is fair.
Lifecycle's `FairSpec` has weak fairness of `Lapse` (time passes) and of
`expire_stale_presence` (the tick runs it once a second). Vitals' `FairSpec` has
weak fairness of `game_tick`, whose schedule is a row of a table that
`init` inserts and nothing deletes; so have Casts' (of `Tick`) and Encounter's.
It is always enabled, so it runs again and again however many calls come
between. Gateway's fairness is that of tokio: a task that can go on does, and a
request is finished or timed out; the steps of the reaper that need the lock are
strongly fair, because tokio's `RwLock` is a FIFO queue: whoever waits gets its
turn although others take the lock in between.

## 5. What is proved

For all values of the constants that satisfy the modules' assumptions:

* **Parties** (`PartiesProofs`). `RosterIsConsistent`, `LeaderTenure`,
  `SizeBounded`, `Unambiguous`, `Ghostless`, and the action properties
  `Unpoachable` and `Consent`. The first two are not
  inductive. Promotion takes the member with the smallest `joined_at`; that this
  is the *next* in line needs distinct stamps below the clock
  (`StampsOrdered`), that there is one at all needs `EldestExists` (a minimum in
  every nonempty set of members, itself kept by every step, which avoids an
  induction over finite sets), and that a founded party is a new one needs
  `IdsUsed`. `IInv` is their conjunction with the type invariant. The size bound
  has its own argument over cardinalities, and the properties of requests theirs.
  `PartiesAreQueues` is the refinement of PartyRoster (`ImplementsRoster`). Since
  the leader has strictly the smallest `joined_at`, putting it first changes
  nothing: a party's queue is its members in order of `joined_at` (`InOrder`),
  before and after a step. Who accepts last has the largest stamp and stands at
  the tail, who departs leaves the others in their order, and no two parties
  have the same queue, so that exactly one moves.
* **Lifecycle** (`LifecycleProofs`). `ExclusivePlay` and `PlayWithinAccount`, for
  any number of sockets, identities, accounts and characters. The strengthening
  is `NamedWasBorn`: a session never names an id before it is created; without it
  a new character could be born into somebody else's session. `RostersWithinCap`
  is an argument over cardinalities: a roster grows in `JoinNew` only.
* **Vitals** (`VitalsProofs`). `CorpsesNeverHeal` (the invariant
  `CorpsesHaveNoHealth`), `EveryTickSettles` and `TheDeadComeBackWhole`, and
  `RowsAlwaysSound` they rest on: each row has its type and a corpse no health.
  The argument is row by row: every operator on a record keeps a row sound, so
  every action does. The tick is a composition of such operators; `AfterTick`
  names it, and the lemma about it says that a row ends dead exactly if it has
  no health. `PiecesAreNeverCopied` (`PieceOnce`) and `TypesHold` are about the
  goods: `GoodsSound` says that no two holders have one piece and that nobody
  carries more than fits. Goods move in two ways, a
  take out of a bag and a drop into a bag of a fresh id; that a tick with several
  deaths gives them different bags is where it could go wrong.
  `PiecesCrumbleOnly` (`OnlyCrumbledPiecesVanish`) and `GoldIsPaidForKills`
  (`GoldFromKills`) follow a step's goods from before to after. They need
  `MoneySound`: every bag holds something and the gold of the world is bounded, so
  bags and corpses with a drop, counted against pieces and gold, leave a free id
  for every drop. The ids are auto-increment in the code; a pool that suffices
  (`VitalsAssumption`) stands for them. A creature that dies in a tick is still
  dead at its end, its delay being at least two ticks, so each roll of the tick
  has its own death.
* **Gateway** (`GatewayProofs`). `RevokedKeysStayDead`, for any number of
  requests, connections and keys: no request is answered with success if its key
  was revoked when it came in. Alone it is not inductive: a request that has the
  server's word (`authenticated`) must have come in with a live key, and a key
  that has a row now must have had the same then, since keys only go from
  unissued to issued to revoked; this is `KeysOnlyDie`. `LockIsReleased`
  (`LockIsOfTheEnding`) says that no timeout leaves the store locked.
  `HandlesBalance` (`NoSocketLeaks`) counts: the handles of a connection are as
  many as the entries and tasks that hold it. It needs `HandsTidy`, that a task
  holds handles only where its program counter says it may (a handle it kept
  elsewhere would not be dropped), and `IdsUnique`, that the store is a map.
  `AllowanceHolds` (`SessionsCapped`) counts an account's entries against those
  about to be evicted; an insert dooms exactly what is above the cap.
* **Market** (`MarketProofs`). `TypesHold`, `NoTwoPilesShareAnId`,
  `TheBestBidIsFilledFirst`, `FeesArePosted`, and `TheMarketIsABarter`: Market
  implements Barter. The invariant is `TypeOK`, `InstancesUnique` and
  `OrdersNumbered` (books are finite, and an order's id is below the next), so a
  new order is nobody else's. The refinement goes action by action: listing,
  bidding, cancelling and leaving leave every fortune as it was; a fill is one
  trade with its fee. A fortune is a sum over slots and over books, so the proof
  needs what a pile that comes or leaves does to each sum, and first what
  `Portion` gives each slot.
* **Casts** (`CastsProofs`). `TablesAreSound` (`TypeOK`), `ControlsAreObeyed`
  (`ControlsHold`), `CooldownsArePaid` (`CooldownIffFired`) and `EndsAreToldTruly`
  (`EndsAreTold`). The invariant adds `WindUpsUnpaid`: a wind-up under way has
  not started its cooldown; without it a completed one might not start it. A tick
  is followed cast by cast: before its turn an entity only suffers the blows of
  others, in its turn its cast is found over or goes on, after it the entity
  suffers again. `Advanced` is first shown to be well defined, then what holds at
  each position follows by well-founded induction on positions.
* **Gathering** (`GatheringProofs`). `TypesHold`, `NobodyHasTwoOccupations`
  (`OneOccupation`), `NodesAreScheduled` (`RegrowthScheduled`) and
  `ChannelsMakeNothing` (`PiecesAccounted`). The three invariants are inductive
  together (`Sound`), but a tick passes through tables no state has, so each
  system of the tick is shown to take a `World`, which is what holds of all of
  them, to a `World`. `PiecesAccounted` compares sums before and after a tick:
  `Total`, the pieces in the nodes and bags and those a craft stands for, is the
  same after each channel, hence after the fold; what remains is what the nodes
  grew. It rests on exact accounts of `add_stackable` and `remove_item`.
* **Items** (`GatheringProofs`, from section 14 on). `InstanceIdsDiffer`
  (`ItemsInv`), `GesturesConservePieces` (`PiecesConserved`) and
  `AnnouncedSpaceIsExact`, what `space_for` promises of `add_stackable`. None of
  types, distinct ids and ledger is inductive alone: a destruction keeps `supply`
  in `Nat` only because `supply` counts every piece, and what an amount poured or
  consumed does to the count rests on the stacks being within the cap.
  `LedgerInv` is their conjunction. A bag and what
  somebody wears are both a `Row` of piles, and a gesture changes places of a row
  one at a time, each by the `Amount` that leaves and the one that comes. For the
  ids, every slot and every place on a body is a `Place`: a gesture exchanges
  two, empties some (`Fewer`), or opens some under numbers from the scan on
  (`Mints`). A craft does the latter two, one after the other, with the number
  scanned before the first.
* **Encounter** (`EncounterProofs`). `Invariance` (`IInv`: types, corpses, casts,
  grudges, fights) and `ForwardHolds` (`FightsRunForward`), for any players,
  enemies, policies and timers. The argument goes row by row through the tick:
  each operator keeps `RowOK`, and carries a boss's fight `Forward` or leaves it
  the `SameFight`; only `tick_respawns` begins it anew, for a row that was dead
  before the tick, because a corpse of this tick has its whole delay of at least
  two ticks before it (`FreshCorpse`). A boss reborn and engaged in the same tick
  is still in its first phase, since full health is above every threshold.

Only the assumptions named in the modules are used: finite sets of characters,
equipment slots, creatures, nodes, requests, loot bags and pieces; distinguished model values
outside the sets they stand beside (no `Nothing` among piles, no `None` among
rows); numeric constants in `Nat`, a respawn delay of at least two ticks,
cooldowns longer than a tick may count, thresholds of health below a boss's full
health, at most one boss.

Some proofs need induction over data. The induction theorems of the library take
an operator as a parameter, which the provers cannot instantiate, so each
induction is made from the well-foundedness of an order, which is a statement
about sets: a nonempty set of counterexamples has a minimal member. `SetInduction`
(a set of subsets that holds the empty one and grows by any element holds them
all) gives the sums over finite sets of Market, Gathering and Vitals; the
same over the picks of a fold gives `FoldInduction`; over positions, the loop
of Casts.

### What is only model-checked

All liveness (`GhostsFade`, `CreaturesReturn`, `IdleSessionsEnd`, `CastsRunOut`,
`EnrageComes`): fairness and `ENABLED` are out of this prover's reach. Every
other property of a passing run is proved.

No module declares a `RECURSIVE` operator; loops are closed forms, folds or
recursive functions.

## 6. Where code and text disagree

The run `vitals_speed` exhibits the first; the others were met while modelling
and are noted as read in the code.

1. `vitals_speed`: `recalculate_effective_stats` is "the *only* place that writes"
   the speed (`combat.rs:940`), but the last write of `resurrect` copies the row
   read before the statuses were cleared, so a slowed creature comes back slow.
   `combat.rs:777` re-reads the stats row for this very reason.
2. `plans/party-system.md:83` has the pending requests deleted with a party.
   They are when its last member leaves; when its last member is deleted,
   requests of an earlier leader remain (`parties.rs:478`). They are harmless,
   since accepting checks that the party exists, but they occupy an inbox, and
   whoever holds one cannot be invited until it is declined.
3. `plans/party-system.md:80` has the leader accept a join request. The code
   checks only that the caller is its recipient (`parties.rs:319`), so a leader
   who has left still admits who asked.
4. `join` refuses a character that "another live session already owns"
   (`lifecycle.rs:273`), but any session row counts, and those of connections
   that died with the server stay until the same identity disconnects again. A
   player who lost the cached token is locked out.
5. "Deletes every row `character` owns" (`lifecycle.rs:484`) leaves the
   character's orders. Nobody can cancel them, a listing cannot be bought, and a
   bid that is the best blocks every sale it matches.
6. "dead characters do not walk" (`movement.rs:29`), but `stop`, `leave` and a
   disconnect turn a corpse `Idle`, and the tick moves it before the sweep kills
   it again. Until then it may loot as well, or begin a channel or a cast.
7. Evictions are "Ended outside the lock", for logout "is a network round-trip"
   (`session.rs:95`), but `end` holds the store's write guard while it waits
   (`session.rs:116`): a server that answers slowly holds up every request.
8. The reaper ends the ids it collected (`session.rs:133`), so a session used
   after the scan is ended although it is not idle (`session.rs:122`).
9. A cast interrupted by a control in the middle of a tick is told as ended
   twice, once by the control and once by the loop (`spells.rs:1263`), against
   one event per cast (`tables.rs:890`); the client starts the cooldown it shows
   from that event (`cast_bar.rs:153`).

## 7. What is not modelled, and why

Projectiles and areas are geometry: what they deliver is an input that may come
at any moment. Shields and mana, and the stacking of modifiers, are on the plan,
as is the protocol of the client's prediction. Positions, damage formulas,
scores, amounts of threat and throttles are floating point: a model gets their
outcome as an input. The gateway's HTTP handlers read through one connection and
keep nothing; its directory never authenticates; its rate limit is a counter per
address. Resonance, chat, the event log, views and seeding have no second actor
or nothing that reads them back. Rendering, the interface, the website, the
macros and the settings keep no state of the game. `gm_reset_runtime_state` is
in Gathering (sessions, nodes, clock) and in Encounter (mobs); that it clears
statuses and modifiers but neither the periodic effects a character owns nor the
stats derived from them is not: the effects run out, and the stats are derived
again at the next modifier. `gm_reseed_world` leaves threat and casts of the ids
it removes, which nothing reads again.
