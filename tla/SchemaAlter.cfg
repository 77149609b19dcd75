SPECIFICATION Spec
CONSTANTS
    Columns = {"id", "a", "b", "c", "d"}
    ConvertFieldType <- TextTypes
    PrimaryKeys <- IdKey
    InitialFields <- ThreeFields
    Statements <- AllClauses
    MaxLog = 2
    MaxStops = 1
    MaxCrashes = 2
INVARIANTS PlanCompletes StructuresAgree ClausesFollowStatement ColumnsFollowSource RefusedOnlyOnReplay
