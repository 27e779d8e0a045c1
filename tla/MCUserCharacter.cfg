SPECIFICATION UserFairSpec
CONSTANTS
    b1 = b1
    a1 = a1
    a2 = a2
    c1 = c1
    Bow <- MCBows
    Arrow <- MCArrows
    Character <- MCCharacters
    NoArrow = NoArrow
    NoCharacter = NoCharacter
    HasArrowClass <- MCBows
    HasArrowSocket <- MCCharacters
    CanSight <- MCCharacters
    MaxChargeTime = 2
    AutoReleaseTime = 4
    MinArrowSpeed = 2000
    MaxArrowSpeed = 6000
    FrameTimes <- MCFrameTimes
    SpawnCanFail = TRUE
    Self = c1
    SelfBow = b1
    AnimationsStop = TRUE
INVARIANTS
    UserTypeOK
    DrawNeedsShootKey
PROPERTIES
    CameraLetsGo
    AimNeedsAimKey
    BowLetsGo
    AimStateHeals
