\* A WHERE clause on an inner record.
CONSTANTS
    NULL = NULL
    MaxRepeat = 2
    MaxRecords = 2
    MaxEntries = 7
    Schemas <- MCSchemas
    Messages <- MCMessages
    Queries <- MCQueries
SPECIFICATION Spec
INVARIANT AcceptedValuesTaken
\* A table has been built, or read, or scanned to its end.
CHECK_DEADLOCK FALSE
