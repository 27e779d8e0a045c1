SPECIFICATION ReplFairSpec
CONSTANTS
    user = user
    enemy = enemy
    a1 = a1
    a2 = a2
    a3 = a3
    Character <- MCCharacters
    User <- MCUsers
    Arrow <- MCArrows
    NoCharacter = NoCharacter
    MaxHealth = 100
    Damage = 50
    MeshBlocks <- MCMeshBlocks
    GameModeFound = TRUE
    Own = user
    MaxFlight = 2
CHECK_DEADLOCK FALSE
INVARIANTS
    ReplTypeOK
    ClientNeverAhead
    CopyDiesOnce
    HealthAccount
    DeadIffNoHealth
    DiesOnce
    NoSelfHarm
PROPERTIES
    CorpseUnharmed
    ClientNeverForgets
    ClientCatchesUp
