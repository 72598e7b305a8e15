SPECIFICATION Spec
CONSTANTS
    c1 = c1
    c2 = c2
    c3 = c3
    m1 = m1
    m2 = m2
    wood = wood
    Nothing = Nothing
    Characters <- ThreeCharacters
    Markets <- TwoMarkets
    Items <- OneItem
    Materials <- OneItem
    Tradable <- OneItem
    MarketFeeBps <- Fees
    AccountFeeBps = 1000
    INVENTORY_CAPACITY = 2
    MAX_STACK = 2
    MAX_ORDERS_PER_CHARACTER_PER_MARKET = 1
    MaxGold = 2
    MaxGrants = 3
    MaxOrders = 2
    MaxId = 4
SYMMETRY Symmetry
CHECK_DEADLOCK FALSE
INVARIANTS
    TypeOK
    InstancesUnique
PROPERTIES
    BestBidFirst
    FeesAsPosted
    ImplementsBarter
