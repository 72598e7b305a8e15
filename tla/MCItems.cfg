SPECIFICATION ItemsSpec
CONSTANTS
    wood = wood
    staff = staff
    weapon = weapon
    hero = hero
    squire = squire
    Nothing = Nothing
    Owners <- TwoCharacters
    Items <- TwoItems
    Materials <- OneMaterial
    EquipSlots <- OneEquipSlot
    EquippableInto <- StaffIsAWeapon
    Recipes <- StaffRecipe
    INVENTORY_CAPACITY = 3
    MAX_STACK = 3
    MaxPieces = 5
    MaxId = 4
SYMMETRY SwapCharacters
INVARIANTS
    ItemsInv
    PiecesConserved
