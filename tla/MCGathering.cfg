SPECIFICATION Spec
CONSTRAINT OneAtATime
SYMMETRY Symmetry
CONSTANTS
    wood = wood
    staff = staff
    oak = oak
    ann = ann
    bob = bob
    None = None
    Far = Far
    Nothing = Nothing
    Characters <- TwoCharacters
    Nodes <- OneNode
    Items <- TwoItems
    Materials <- OneMaterial
    Yield = wood
    Recipe <- StaffRecipe
    INVENTORY_CAPACITY = 1
    MAX_STACK = 2
    MAX_PIECES = 2
    REGEN_INTERVAL = 2
    REGEN_AMOUNT = 1
    YIELD_AMOUNT = 1
    MaxBonus = 1
    GatherTimes <- Two
    CraftTime = 1
    Quantities <- One
    MAX_STEP = 1
    MaxLag = 1
    MaxAge = 2
INVARIANTS
    TypeOK
    OneOccupation
    RegrowthScheduled
PROPERTY PiecesAccounted
