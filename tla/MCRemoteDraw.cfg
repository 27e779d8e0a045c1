SPECIFICATION BowReplFairSpec
CONSTANTS
    b1 = b1
    b2 = b2
    b3 = b3
    a1 = a1
    a2 = a2
    c1 = c1
    c2 = c2
    Bow <- MCBows
    Arrow <- MCArrows
    Character <- MCCharacters
    NoArrow = NoArrow
    NoCharacter = NoCharacter
    HasArrowClass <- MCBows
    HasArrowSocket <- MCCharacters
    CanSight <- MCCharacters
    MaxChargeTime = 1
    AutoReleaseTime = 2
    MinArrowSpeed = 2000
    MaxArrowSpeed = 6000
    FrameTimes <- MCFrameTimes
    SpawnCanFail = TRUE
    HostBow = b1
    GuestBow = b2
    SpawnedBow = b3
    Host = c1
    Guest = c2
PROPERTY
    DrawRequestArrives
