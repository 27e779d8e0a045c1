SPECIFICATION Spec
CONSTANTS
    user = user
    enemy = enemy
    a1 = a1
    a2 = a2
    a3 = a3
    a4 = a4
    Character <- MCCharacters
    User <- MCUsers
    Arrow <- MCArrows
    NoCharacter = NoCharacter
    MaxHealth = 100
    Damage = 50
    MeshBlocks <- MCMeshBlocks
    GameModeFound = TRUE
CHECK_DEADLOCK FALSE
INVARIANT
    DeathIsShown
