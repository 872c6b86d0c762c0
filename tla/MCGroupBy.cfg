\* A merge inside a source of a merge, with every kind of failure, and just
\* one slot more than the sources that wait hold; and three queries with one
\* cache key, encodings of one to three flushes, and a crash.
CONSTANTS
    outer = outer  inner = inner  k1 = k1  k2 = k2
    s1 = s1  s2 = s2  s3 = s3
    Root = outer
    NoMerge = NoMerge
    Keys = {k1, k2}
    Merges <- MCMerges
    Sources <- MCSources
    MergeOf <- MCMergeOf
    NestedIn <- MCNestedIn
    Rows <- MCRows
    MaxTasks = 3
    FailMessages = {"text", "blank"}
    MergeMayFail = TRUE
    EmitMayFail = TRUE
    TasksMayThrow = TRUE
    Queries = {q1, q2, q3}
    Inodes = {i1, i2, i3, i4}
    NoInode = NoInode
    MaxChunks = 3
    MaxCrashes = 1
SPECIFICATION GroupBySpec
INVARIANTS TasksAccounted EmitsCompleteGroups CacheRight
PROPERTIES QueryTerminates
\* The process rests when its queries are over.
CHECK_DEADLOCK FALSE
