SPECIFICATION FairSpec
CONSTANTS
    ann = ann
    wolf = wolf
    lunge = lunge
    storm = storm
    flick = flick
    None = None
    Characters <- OneCharacter
    Creatures <- OneCreature
    Abilities <- ThreeAbilities
    Kind <- Kinds
    Required <- RequiredTimes
    Interval <- Intervals
    Cooldown <- Cooldowns
    MoveInterrupts <- Storm
    Lethal <- Storm
    Control <- LungeStuns
    Controls <- JustStun
    ControlTime <- ForTwo
    Kit <- Lunge
    Loadouts <- ArmedOrNot
    MaxStep = 2
INVARIANTS
    TypeOK
    ControlsHold
PROPERTIES
    CooldownIffFired
    EndsAreTold
    CastsRunOut
