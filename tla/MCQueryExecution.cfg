SPECIFICATION Spec
CONSTANTS
    Queries <- SomeQueries
    Tables <- SomeTables
    TableColumns <- Columns
    TableName0 <- TheTable
    MaxRows = 2
INVARIANTS QueryAnswered
PROPERTIES QueryProgresses
