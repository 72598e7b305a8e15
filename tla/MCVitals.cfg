SPECIFICATION Spec
CONSTANTS
    p1 = p1
    p2 = p2
    wolf = wolf
    sword = sword
    helm = helm
    b1 = b1
    b2 = b2
    b3 = b3
    NoBag = NoBag
    Players <- TwoPlayers
    Creatures <- OneCreature
    Pieces <- TwoPieces
    Gear <- Start
    Bags <- ThreeBags
    MaxHealth = 1
    StatusTicks = 0
    RespawnTicks = 2
    Slots = 1
    MaxGold = 1
    MaxRoll = 1
    MaxWealth = 1
SYMMETRY Symmetry
INVARIANTS
    TypeOK
    PieceOnce
PROPERTIES
    OnlyCrumbledPiecesVanish
    GoldFromKills
