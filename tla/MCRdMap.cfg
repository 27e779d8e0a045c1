SPECIFICATION ReactiveSpec
CONSTANTS
    Value = {a}
    Default = a
    MaxSets = 0
    Key = {k1}
    Item = {x, y}
    NoItem = NoItem
    MaxChanges = 3
CHECK_DEADLOCK FALSE
INVARIANT
    AcksExpected
