SPECIFICATION Spec
CONSTANTS
    p1 = p1
    p2 = p2
    wolf = wolf
    sword = sword
    helm = helm
    b1 = b1
    b2 = b2
    b3 = b3
    NoBag = NoBag
    Players <- OnePlayer
    Creatures <- OneCreature
    Pieces <- OnePiece
    Gear <- Start
    Bags <- TwoBags
    MaxHealth = 1
    StatusTicks = 2
    RespawnTicks = 2
    Slots = 1
    MaxGold = 1
    MaxRoll = 1
    MaxWealth = 0
INVARIANT SpeedIsDerived
