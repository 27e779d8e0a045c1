SPECIFICATION ReactiveSpec
CONSTANTS
    Value = {a, b, c}
    Default = a
    MaxSets = 3
    Key = {k1}
    Item = {x, y}
    NoItem = NoItem
    MaxChanges = 4
CHECK_DEADLOCK FALSE
INVARIANTS
    ReactiveTypeOK
    PropertyAgrees
    MapsAgree
    NoKeyLocked
