SPECIFICATION Spec
CONSTANTS
    b1 = b1
    b2 = b2
    a1 = a1
    a2 = a2
    c1 = c1
    c2 = c2
    Bow <- MCBows
    Arrow <- MCArrows
    Character <- MCCharacters
    NoArrow = NoArrow
    NoCharacter = NoCharacter
    HasArrowClass <- MCBows
    HasArrowSocket <- MCCharacters
    CanSight <- MCCanSight
    MaxChargeTime = 2
    AutoReleaseTime = 3
    MinArrowSpeed = 2000
    MaxArrowSpeed = 6000
    FrameTimes <- MCFrameTimes
    SpawnCanFail = TRUE
SYMMETRY Symm
INVARIANTS
    TypeOK
    ChargingIsAiming
    HeldArrowIsOurs
    DrawIsBounded
    SpeedIsEarned
    StateAgrees
PROPERTY
    ImplementsDrawCycle
