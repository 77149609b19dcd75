SPECIFICATION Spec
CONSTANTS
    Events <- MCEvents
    types_mapping <- MCTypesMapping
    RepeatedHours <- MCRepeatedHours
    Zones <- MCZones
    IsUtf8 <- MCIsUtf8
INVARIANTS
    RowsDecoded
    PathsAgree
    KeysErased
    NumbersArrive
CHECK_DEADLOCK FALSE
