SPECIFICATION MCSpec
CONSTANTS
    Programs <- SomePrograms
    Results <- SomeResults
    TableColumns <- NoTables
    MaxDepth = 3
    MaxClauses = 3
INVARIANTS TextsReadBack ChartShowsRows MarksWhereAxesSay NothingOverlaps
\* A tree stops growing.
CHECK_DEADLOCK FALSE
