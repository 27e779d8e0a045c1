SPECIFICATION AISpec
CONSTANTS
    b1 = b1
    a1 = a1
    a2 = a2
    c1 = c1
    Bow <- MCBows
    Arrow <- MCArrows
    Character <- MCCharacters
    NoArrow = NoArrow
    NoCharacter = NoCharacter
    HasArrowClass <- MCBows
    HasArrowSocket <- MCCharacters
    CanSight <- MCCharacters
    MaxChargeTime = 2
    AutoReleaseTime = 10
    MinArrowSpeed = 2000
    MaxArrowSpeed = 6000
    FrameTimes <- MCFrameTimes
    SpawnCanFail = FALSE
    Self = c1
    SelfBow = b1
    Off = Off
    AttackInterval = 6
    FirstDelay = 2
    DrawDelay = 2
    FireDelay = 4
    CooldownDelay = 6
    DestroyDelay = 6
PROPERTY
    DeadNeverShoots
