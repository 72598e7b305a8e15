------------------------------- MODULE Market ------------------------------
(***************************************************************************)
(* Player markets (reducers/market.rs), wallets (reducers/economy.rs) and  *)
(* the fee and fill rules they share (gameplay economy/gold.rs and         *)
(* markets/definition.rs).                                                 *)
(*                                                                         *)
(* A sell order holds a pile taken out of the seller's bag, a buy order    *)
(* gold taken out of the buyer's wallet.  An order stands in one market    *)
(* and is filled there; its owner cancels it from anywhere.  A reducer     *)
(* that fails leaves no trace.  Where the caller stands is an input of the *)
(* reducers that need an NPC of the market nearby.                         *)
(*                                                                         *)
(* Gold is a u64 in the code: MaxGold is its largest value, and additions  *)
(* and products are checked against it.                                    *)
(***************************************************************************)
EXTENDS Inventory

CONSTANTS
    Characters,
    Markets,
    Tradable,        \* items with the tradable flag
    MarketFeeBps,    \* [Markets -> Nat]; definition.rs: 200 and 300
    AccountFeeBps,   \* gold.rs DEFAULT_ACCOUNT_FEE_BPS: 100
    MAX_ORDERS_PER_CHARACTER_PER_MARKET,   \* definition.rs: 10
    MaxGold,         \* u64::MAX
    MaxGrants,       \* bound: grants of gold and of items
    MaxOrders,       \* bound: orders ever placed
    MaxId            \* bound: instance ids in use

BPS_DENOMINATOR == 10000

ASSUME MarketAssumption ==
    /\ IsFiniteSet(Characters)
    /\ Tradable \subseteq Items
    /\ MarketFeeBps \in [Markets -> Nat]
    /\ {AccountFeeBps, MAX_ORDERS_PER_CHARACTER_PER_MARKET, MaxGold, MaxGrants,
        MaxOrders, MaxId} \subseteq Nat

VARIABLES
    alive,     \* characters with a player row
    wallet,    \* character_wallet.gold
    bag,       \* inventory.slots
    sells,     \* market_sell_order rows
    buys,      \* market_buy_order rows
    nextOrder, \* the next auto_inc id; one counter serves both tables
    grants     \* grants so far, for the bound

vars == <<alive, wallet, bag, sells, buys, nextOrder, grants>>

IsSellOrder(o) ==
    /\ o.id \in Nat /\ o.market \in Markets /\ o.seller \in Characters
    /\ o.pile \in Pile /\ o.price \in 1..MaxGold

IsBuyOrder(o) ==
    /\ o.id \in Nat /\ o.market \in Markets /\ o.buyer \in Characters
    /\ o.item \in Tradable /\ o.price \in 1..MaxGold

TypeOK ==
    /\ alive \subseteq Characters
    /\ wallet \in [Characters -> 0..MaxGold]
    /\ bag \in [Characters -> Bag]
    /\ \A o \in sells : IsSellOrder(o) /\ o.pile.item \in Tradable
    /\ \A o \in buys : IsBuyOrder(o)
    /\ \A o, p \in sells \cup buys : o.id = p.id => o = p
    /\ nextOrder \in Nat /\ grants \in Nat

----------------------------------------------------------------------------
(* Mutant: listed piles are not scanned. *)
next_instance_id_bags_only ==
    1 + Max({0} \cup UNION {IdsIn(bag[c]) : c \in Characters})

next_instance_id ==
    1 + Max({0} \cup (UNION {IdsIn(bag[c]) : c \in Characters})
                \cup {o.pile.id : o \in sells})

(* Mutant: the fee is rounded up.                                          *)
fee_gold_rounded_up(m, price) ==
    (price * (MarketFeeBps[m] + AccountFeeBps) + BPS_DENOMINATOR - 1) \div BPS_DENOMINATOR

fee_gold(m, price) == (price * (MarketFeeBps[m] + AccountFeeBps)) \div BPS_DENOMINATOR
FeeIsLegal(m, price) == fee_gold(m, price) < price
seller_receives(m, price) == price - fee_gold(m, price)

open_order_count(c, m) ==
    Cardinality({o \in sells : o.seller = c /\ o.market = m})
      + Cardinality({o \in buys : o.buyer = c /\ o.market = m})

UnderOrderCap(c, m) == open_order_count(c, m) < MAX_ORDERS_PER_CHARACTER_PER_MARKET

listing_total(price, n) == price * n
ListingIsLegal(price, n) == price > 0 /\ n > 0 /\ listing_total(price, n) <= MaxGold

(* Mutant: the sum is not checked. *)
CanCredit_unchecked(c, n) == n > 0

CanCredit(c, n) == n > 0 /\ wallet[c] + n <= MaxGold

credit_gold(w, c, n) == [w EXCEPT ![c] = @ + n]
debit_gold(w, c, n) == [w EXCEPT ![c] = @ - n]

----------------------------------------------------------------------------
Init ==
    /\ alive = Characters
    /\ wallet = [c \in Characters |-> 0]
    /\ bag = [c \in Characters |-> EmptyInventory]
    /\ sells = {} /\ buys = {}
    /\ nextOrder = 1 /\ grants = 0

(* Where gold and items come from: a game master's gift or a bag of loot,  *)
(* and the vendors, the nodes and the workshops.                           *)
gm_grant_gold(c, n) ==
    /\ c \in alive
    /\ CanCredit(c, n)
    /\ grants < MaxGrants /\ grants' = grants + 1
    /\ wallet' = credit_gold(wallet, c, n)
    /\ UNCHANGED <<alive, bag, sells, buys, nextOrder>>

grant_items(c, i, n) ==
    /\ c \in alive
    /\ n > 0 /\ space_for(bag[c], i) > 0
    /\ grants < MaxGrants /\ grants' = grants + 1
    /\ bag' = [bag EXCEPT ![c] = add_stackable(@, i, n, next_instance_id)]
    /\ UNCHANGED <<alive, wallet, sells, buys, nextOrder>>

place_sell_order(c, m, s, price, n) ==
    LET pile == TakenPile(bag[c], s, n, next_instance_id)
    IN  /\ c \in alive
        /\ ListingIsLegal(price, n)
        /\ UnderOrderCap(c, m)
        /\ CanTake(bag[c], s, n)
        /\ pile.item \in Tradable
        /\ pile.id <= MaxId /\ nextOrder <= MaxOrders
        /\ bag' = [bag EXCEPT ![c] = BagAfterTake(@, s, n)]
        /\ sells' = sells \cup {[id |-> nextOrder, market |-> m, seller |-> c, pile |-> pile,
                                 price |-> listing_total(price, n)]}
        /\ nextOrder' = nextOrder + 1
        /\ UNCHANGED <<alive, wallet, buys, grants>>

(* Mutant: an order is filled in whatever market the buyer stands. *)
market_buy_any_market(c, m, o) ==
    /\ c \in alive /\ o.seller \in alive
    /\ o.seller # c
    /\ Free(bag[c]) # {}
    /\ FeeIsLegal(m, o.price) /\ wallet[c] >= o.price
    /\ CanCredit(o.seller, seller_receives(m, o.price))
    /\ wallet' = credit_gold(debit_gold(wallet, c, o.price), o.seller, seller_receives(m, o.price))
    /\ bag' = [bag EXCEPT ![c] = PutInFirstFree(@, o.pile)]
    /\ sells' = sells \ {o}
    /\ UNCHANGED <<alive, buys, nextOrder, grants>>

market_buy(c, m, o) ==
    /\ c \in alive /\ o.seller \in alive
    /\ o.market = m /\ o.seller # c
    /\ Free(bag[c]) # {}
    /\ FeeIsLegal(m, o.price) /\ wallet[c] >= o.price
    /\ CanCredit(o.seller, seller_receives(m, o.price))
    /\ wallet' = credit_gold(debit_gold(wallet, c, o.price), o.seller, seller_receives(m, o.price))
    /\ bag' = [bag EXCEPT ![c] = PutInFirstFree(@, o.pile)]
    /\ sells' = sells \ {o}
    /\ UNCHANGED <<alive, buys, nextOrder, grants>>

cancel_sell_order(c, o) ==
    /\ c \in alive /\ o.seller = c
    /\ Free(bag[c]) # {}
    /\ bag' = [bag EXCEPT ![c] = PutInFirstFree(@, o.pile)]
    /\ sells' = sells \ {o}
    /\ UNCHANGED <<alive, wallet, buys, nextOrder, grants>>

place_buy_order(c, m, i, price) ==
    /\ c \in alive
    /\ price > 0 /\ i \in Tradable
    /\ UnderOrderCap(c, m)
    /\ wallet[c] >= price
    /\ nextOrder <= MaxOrders
    /\ wallet' = debit_gold(wallet, c, price)
    /\ buys' = buys \cup {[id |-> nextOrder, market |-> m, buyer |-> c, item |-> i,
                           price |-> price]}
    /\ nextOrder' = nextOrder + 1
    /\ UNCHANGED <<alive, bag, sells, grants>>

(* The bids that the caller's pile could fill. *)
Matching(c, m, i, minTotal) ==
    {o \in buys : o.market = m /\ o.item = i /\ o.price >= minTotal /\ o.buyer # c}

(* Mutant: the oldest bid wins. *)
BestOf_oldest(bids) == CHOOSE o \in bids : \A p \in bids : o.id <= p.id

(* The highest bid, the oldest of those. *)
BestOf(bids) ==
    CHOOSE o \in bids : \A p \in bids :
        p.price < o.price \/ (p.price = o.price /\ o.id <= p.id)

(* The best bid is filled or the sale fails; no other bid is tried when    *)
(* its buyer is gone or has no room.                                       *)
market_sell(c, m, s, minPrice, n) ==
    LET pile == TakenPile(bag[c], s, n, next_instance_id)
        bids == Matching(c, m, pile.item, listing_total(minPrice, n))
        o == BestOf(bids)
    IN  /\ c \in alive
        /\ ListingIsLegal(minPrice, n)
        /\ CanTake(bag[c], s, n)
        /\ pile.item \in Tradable /\ pile.id <= MaxId
        /\ bids # {}
        /\ o.buyer \in alive
        /\ Free(bag[o.buyer]) # {}
        /\ FeeIsLegal(m, o.price)
        /\ CanCredit(c, seller_receives(m, o.price))
        /\ bag' = [bag EXCEPT ![c] = BagAfterTake(@, s, n),
                              ![o.buyer] = PutInFirstFree(@, pile)]
        /\ wallet' = credit_gold(wallet, c, seller_receives(m, o.price))
        /\ buys' = buys \ {o}
        /\ UNCHANGED <<alive, sells, nextOrder, grants>>

(* Mutant: the refund is what a fill would have paid. *)
cancel_buy_order_less_fee(c, o) ==
    /\ c \in alive /\ o.buyer = c
    /\ CanCredit(c, o.price)
    /\ wallet' = credit_gold(wallet, c, seller_receives(o.market, o.price))
    /\ buys' = buys \ {o}
    /\ UNCHANGED <<alive, bag, sells, nextOrder, grants>>

cancel_buy_order(c, o) ==
    /\ c \in alive /\ o.buyer = c
    /\ CanCredit(c, o.price)
    /\ wallet' = credit_gold(wallet, c, o.price)
    /\ buys' = buys \ {o}
    /\ UNCHANGED <<alive, bag, sells, nextOrder, grants>>

(* The wallet and the bag go with the character; its orders stay. *)
delete_character(c) ==
    /\ c \in alive
    /\ alive' = alive \ {c}
    /\ wallet' = [wallet EXCEPT ![c] = 0]
    /\ bag' = [bag EXCEPT ![c] = EmptyInventory]
    /\ UNCHANGED <<sells, buys, nextOrder, grants>>

Next ==
    \E c \in Characters :
        \/ \E n \in 1..MaxGold : gm_grant_gold(c, n)
        \/ \E i \in Items, n \in 1..MAX_STACK : grant_items(c, i, n)
        \/ \E m \in Markets, s \in Slots, price \in 1..MaxGold, n \in 1..MAX_STACK :
              place_sell_order(c, m, s, price, n) \/ market_sell(c, m, s, price, n)
        \/ \E m \in Markets, o \in sells : market_buy(c, m, o)
        \/ \E o \in sells : cancel_sell_order(c, o)
        \/ \E m \in Markets, i \in Items, price \in 1..MaxGold : place_buy_order(c, m, i, price)
        \/ \E o \in buys : cancel_buy_order(c, o)
        \/ delete_character(c)

Spec == Init /\ [][Next]_vars

----------------------------------------------------------------------------
(* Two piles never share an instance id, in a bag or in escrow: a pile     *)
(* that is listed, bought, cancelled or peeled keeps an id nobody else has *)
(* (items.rs next_instance_id; "Skipping them here would reuse an escrowed *)
(* id").                                                                   *)
InstancesUnique ==
    /\ \A c, d \in Characters : \A s \in Occupied(bag[c]), t \in Occupied(bag[d]) :
          bag[c][s].id = bag[d][t].id => c = d /\ s = t
    /\ \A c \in Characters, o \in sells : o.pile.id \notin IdsIn(bag[c])
    /\ \A o, p \in sells : o # p => o.pile.id # p.pile.id

(* A pile sold on the spot goes to the highest bid for it in that market   *)
(* that is not the seller's own, the oldest of equals (definition.rs       *)
(* select_best_buy_order).  A bid is filled, not refunded, in a step that  *)
(* removes it and leaves its buyer's wallet alone.                         *)
BestBidFirst ==
    [][\A o \in buys \ buys', p \in buys' :
          ( /\ wallet'[o.buyer] = wallet[o.buyer]
            /\ wallet'[p.buyer] = wallet[p.buyer]
            /\ p.market = o.market
            /\ p.item = o.item )
          => p.price < o.price \/ (p.price = o.price /\ o.id < p.id)]_vars

----------------------------------------------------------------------------
(* A character's fortune is what it holds and what it has in escrow.       *)
Bids(c) == {o \in buys : o.buyer = c}
Listings(c, i) == {o \in sells : o.seller = c /\ o.pile.item = i}

Gold ==
    [c \in Characters |-> wallet[c] + SumFunction([o \in Bids(c) |-> o.price])]

Goods ==
    [c \in Characters |-> [i \in Items |->
        count_item(bag[c], i) + SumFunction([o \in Listings(c, i) |-> o.pile.quantity])]]

TotalGold == SumFunction(Gold)

(* The posted rate of a price, rounded down to whole gold.                 *)
IsPostedFee(burnt, m, price) ==
    LET rate == MarketFeeBps[m] + AccountFeeBps
    IN  /\ burnt * BPS_DENOMINATOR <= price * rate
        /\ price * rate < (burnt + 1) * BPS_DENOMINATOR

(* What a fill burns is the posted rate of the market the order stands in, *)
(* never more and less than a piece under it; every other step of a trade  *)
(* burns nothing (definition.rs quote_fee; plan_fill and                   *)
(* plan_fill_buy_order refuse an order of another market).                 *)
FeesAsPosted ==
    [][/\ \A o \in sells \ sells' :
             wallet' # wallet => IsPostedFee(TotalGold - TotalGold', o.market, o.price)
       /\ \A o \in buys \ buys' :
             wallet'[o.buyer] = wallet[o.buyer]
                => IsPostedFee(TotalGold - TotalGold', o.market, o.price)]_vars

B == INSTANCE Barter WITH gold <- Gold, goods <- Goods

(* The market is a barter: each step moves a character's gold and goods as *)
(* a trade, a find, a gift or a deletion does, and escrow neither makes    *)
(* nor loses any of them.                                                  *)
ImplementsBarter == B!Spec

============================================================================
