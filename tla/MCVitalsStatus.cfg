SPECIFICATION FairSpec
CONSTANTS
    p1 = p1
    p2 = p2
    wolf = wolf
    sword = sword
    helm = helm
    b1 = b1
    b2 = b2
    b3 = b3
    NoBag = NoBag
    Players <- OnePlayer
    Creatures <- OneCreature
    Pieces <- NoPiece
    Gear <- Start
    Bags <- OneBag
    MaxHealth = 2
    StatusTicks = 2
    RespawnTicks = 2
    Slots = 1
    MaxGold = 0
    MaxRoll = 0
    MaxWealth = 0
INVARIANT CorpsesHaveNoHealth
PROPERTIES
    TickSettles
    BackWhole
    CreaturesReturn
