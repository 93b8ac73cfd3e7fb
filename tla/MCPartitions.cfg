SPECIFICATION PartSpec
CONSTANTS
    MonthsAhead = 3
    FirstMonth <- MCFirstMonth
    LastMonth <- MCLastMonth
    RowsKept = 3
CHECK_DEADLOCK FALSE
INVARIANTS
    PartitionsAheadOfNeed
