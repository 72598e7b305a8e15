SPECIFICATION FairSpec
CONSTANTS
    ann = ann
    guard = guard
    dragon = dragon
    None = None
    Players <- OnePlayer
    Enemies <- OneEnemy
    Bosses <- OneBoss
    Policy <- Sticks
    Passive = {}
    MaxHealth <- Healths
    RespawnTicks <- Respawns
    AerialHealth = 2
    BerserkHealth = 1
    BerserkTicks = 2
    Controls <- StunOrNothing
    ControlTicks = 2
INVARIANT IInv
PROPERTIES
    FightsRunForward
    EnrageComes
