--------------------------- MODULE MCGroupBy ---------------------------
(***************************************************************************)
(* The two ways in which queries that group share state: GroupByMerge, on  *)
(* a query with a merge of two sources, of which the second holds a        *)
(* subquery with a merge of its own; and the result cache.  A behaviour is *)
(* one of either; the other rests.                                         *)
(***************************************************************************)
EXTENDS GroupByMerge, TLC

CONSTANTS outer, inner, s1, s2, s3, k1, k2

MCMerges   == {outer, inner}
MCSources  == {s1, s2, s3}
MCMergeOf  == (s1 :> outer) @@ (s2 :> outer) @@ (s3 :> inner)
MCNestedIn == (s1 :> NoMerge) @@ (s2 :> inner) @@ (s3 :> NoMerge)
MCRows     == (s1 :> ((k1 :> 1) @@ (k2 :> 0))) @@ (s2 :> ((k1 :> 0) @@ (k2 :> 0)))
                @@ (s3 :> ((k1 :> 1) @@ (k2 :> 1)))
-----------------------------------------------------------------------------
CONSTANTS Queries, MaxChunks, Inodes, NoInode, MaxCrashes

ASSUME CacheAssumption == MaxChunks \in Nat

VARIABLES
    part,      \* "merge" or "cache"
    chunks, tmp, final, content, pc, fd, pos, outcome, overlapped, crashes

cacheVars == <<chunks, tmp, final, content, pc, fd, pos, outcome, overlapped, crashes>>

C == INSTANCE QueryCache

\* A process that has died
MergeRests ==
    /\ exec = [m \in Merges |-> "idle"]
    /\ toLaunch = [m \in Merges |-> SourcesOf(m)]
    /\ sem = [m \in Merges |-> Cardinality(SourcesOf(m))]
    /\ errors = [m \in Merges |-> {}]
    /\ groups = [m \in Merges |-> NoGroups]
    /\ task = [s \in Sources |-> "none"]
    /\ tgroups = [s \in Sources |-> NoGroups]
    /\ terror = [s \in Sources |-> "none"]
    /\ running_tasks = 1 /\ context = "live" /\ alive = FALSE

GroupByInit ==
    /\ C!Init
    /\ \/ part = "merge" /\ Init /\ chunks = 1
       \/ part = "cache" /\ MergeRests

GroupByNext ==
    /\ \/ part = "merge" /\ Next /\ UNCHANGED cacheVars
       \/ part = "cache" /\ C!Next /\ UNCHANGED vars
    /\ UNCHANGED part

GroupBySpec == GroupByInit /\ [][GroupByNext]_<<part, vars, cacheVars>> /\ Fairness
-----------------------------------------------------------------------------
\* The result cache of GroupBy::accumulate() never answers from a file that
\* is not the whole encoding, after crashes and beside other queries, and the
\* file is complete when no query writes it any more, however the writers of
\* one temporary file were interleaved.
CacheRight == C!CacheRight
=============================================================================
