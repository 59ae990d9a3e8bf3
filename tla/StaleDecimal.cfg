SPECIFICATION Spec
CONSTANTS
    Null = Null
    Refused = Refused
    Step = 10
    Int32Max = 131071
    Int64Max = 922300
    UInt16Max = 4
    MinDate <- MCMinDate
    MaxDate = 10
    UInt32Max = 4
    MinMicros <- MCMinMicros
    MaxMicros = 109999
    Int256Max = 7
    SecsPerDay = 2
    BlockSizes = {1, 2}
    MaxRows = 2
    ColumnTypes <- DecimalTypes
    Changes <- DecimalChanges
    DuckValues <- MCDuckValues
    ForeignRows <- Foreign
INVARIANT
    StaleReadRefused
CHECK_DEADLOCK FALSE
