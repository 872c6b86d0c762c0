\* Two records of three schemas, lists of up to two, all queries.
CONSTANTS
    NULL = NULL
    MaxRepeat = 2
    MaxRecords = 2
    MaxEntries = 7
    Schemas <- MCSchemas
    Messages <- MCMessages
    Queries <- MCQueries
SPECIFICATION Spec
INVARIANTS RecordsComeBack RowsRight AccumulatedOnce
\* A table has been built, or read, or scanned to its end.
CHECK_DEADLOCK FALSE
