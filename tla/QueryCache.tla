----------------------------- MODULE QueryCache -----------------------------
(***************************************************************************)
(* The result cache of csql::GroupBy::accumulate: queries with the same    *)
(* cache key share the file <key>.qcache and, while they write it, the     *)
(* temporary file <key>.qcache~.  The writer's BufferedOutputStream holds  *)
(* back the last part of the encoding until its destructor runs, which is  *)
(* after the rename.                                                       *)
(*                                                                         *)
(* A file is an inode; tmp and final are the two directory entries.  The   *)
(* encoding has chunks parts, one per flush of the buffer, each written at *)
(* the writer's own offset: a part written past the end of a file leaves   *)
(* holes of zero bytes before it.  A query is one accumulate() call.       *)
(***************************************************************************)
EXTENDS Integers, Sequences

CONSTANTS
    Queries,    \* accumulate() calls with the same cache key
    MaxChunks,  \* bound on the flushes that an encoding takes
    Inodes, NoInode,
    MaxCrashes  \* bound on the crashes of the process

VARIABLES
    chunks,     \* flushes that the encoding of the groups takes
    tmp, final, \* directory entries: an inode or NoInode
    content,    \* per inode, a sequence of "data" and "hole"
    pc,         \* where each query is
    fd,         \* the inode a query has open
    pos,        \* parts read or written through fd
    outcome,    \* what the query's groups are
    overlapped, \* history: two queries were active at the same time
    crashes     \* history

files == <<tmp, final, content>>
vars == <<chunks, files, pc, fd, pos, outcome, overlapped, crashes>>

Over == {"new", "done", "dead"}
Active == {q \in Queries : pc[q] \notin Over}

Init ==
    /\ chunks \in 1..MaxChunks
    /\ tmp = NoInode /\ final = NoInode
    /\ content = [i \in Inodes |-> << >>]
    /\ pc = [q \in Queries |-> "new"]
    /\ fd = [q \in Queries |-> NoInode]
    /\ pos = [q \in Queries |-> 0]
    /\ outcome = [q \in Queries |-> "none"]
    /\ overlapped = FALSE
    /\ crashes = 0

Goto(q, l) == pc' = [pc EXCEPT ![q] = l]

\* accumulate(): if the cache file exists, open it, else scan the source.
Lookup(q) ==
    /\ pc[q] = "new"
    /\ overlapped' = (overlapped \/ Active # {})
    /\ \/ /\ final # NoInode
          /\ fd' = [fd EXCEPT ![q] = final]
          /\ Goto(q, "read")
       \/ /\ final = NoInode
          /\ Goto(q, "scan")
          /\ UNCHANGED fd
    /\ UNCHANGED <<chunks, files, pos, outcome, crashes>>

End(q, result) ==
    /\ outcome' = [outcome EXCEPT ![q] = result]
    /\ Goto(q, "done")

Part(q, n) == content[fd[q]][n]

\* Mutant of AtEOF: the end of the file is taken for the end of the groups.
AtEOFAccepted(q) ==
    /\ Len(content[fd[q]]) = pos[q]
    /\ End(q, IF pos[q] = chunks THEN "right" ELSE "wrong")
    /\ UNCHANGED pos

\* The file ends before the announced groups: "unexpected end of stream".
AtEOF(q) ==
    /\ Len(content[fd[q]]) = pos[q] /\ pos[q] < chunks
    /\ End(q, "error")
    /\ UNCHANGED pos

\* decode(): the next part.  Zeros in the place of the header give 0 groups of
\* 0 expressions, which decode() rejects, and the source is scanned; zeros in
\* a later part are read as keys and states, or make the decoding fail.
ReadPart(q) ==
    /\ Len(content[fd[q]]) > pos[q] /\ pos[q] < chunks
    /\ LET n == pos[q] + 1 IN
       \/ /\ Part(q, n) = "data"
          /\ pos' = [pos EXCEPT ![q] = n]
          /\ IF n = chunks THEN End(q, "right") ELSE UNCHANGED <<pc, outcome>>
       \/ /\ Part(q, n) = "hole" /\ n = 1
          /\ Goto(q, "scan")
          /\ UNCHANGED <<pos, outcome>>
       \/ /\ Part(q, n) = "hole" /\ n > 1
          /\ End(q, "wrong") \/ End(q, "error")
          /\ UNCHANGED pos

Read(q) ==
    /\ pc[q] = "read"
    /\ AtEOF(q) \/ ReadPart(q)
    /\ UNCHANGED <<chunks, files, fd, overlapped, crashes>>

\* source_->execute(...): the groups are complete, or the source raised.
Scan(q) ==
    /\ pc[q] = "scan"
    /\ (Goto(q, "open") /\ UNCHANGED outcome) \/ End(q, "raised")
    /\ UNCHANGED <<chunks, files, fd, pos, overlapped, crashes>>

\* openFile(cache_filename + "~", O_CREATEOROPEN | O_WRITE | O_TRUNCATE).
OpenTmp(q) ==
    /\ pc[q] = "open"
    /\ \E i \in Inodes :
          /\ IF tmp # NoInode THEN i = tmp
             ELSE i # final /\ \A r \in Active : fd[r] # i
          /\ tmp' = i
          /\ content' = [content EXCEPT ![i] = << >>]
          /\ fd' = [fd EXCEPT ![q] = i]
    /\ pos' = [pos EXCEPT ![q] = 0]
    /\ Goto(q, IF chunks = 1 THEN "mv" ELSE "write")
    /\ UNCHANGED <<chunks, final, outcome, overlapped, crashes>>

\* A write of part n at its place in file f.
Written(f, n) ==
    [k \in 1..(IF Len(f) < n THEN n ELSE Len(f)) |->
        IF k = n THEN "data" ELSE IF k <= Len(f) THEN f[k] ELSE "hole"]

\* encode(): the buffer is flushed whenever it is full.
Encode(q) ==
    /\ pc[q] = "write"
    /\ content' = [content EXCEPT ![fd[q]] = Written(@, pos[q] + 1)]
    /\ pos' = [pos EXCEPT ![q] = @ + 1]
    /\ Goto(q, IF pos'[q] = chunks - 1 THEN "mv" ELSE "write")
    /\ UNCHANGED <<chunks, tmp, final, fd, outcome, overlapped, crashes>>

\* FileUtil::mv(): fails if another query has moved the file before.
Move(q) ==
    /\ pc[q] = "mv"
    /\ \/ /\ tmp # NoInode
          /\ final' = tmp /\ tmp' = NoInode
          /\ UNCHANGED outcome
       \/ /\ tmp = NoInode
          /\ outcome' = [outcome EXCEPT ![q] = "error"]
          /\ UNCHANGED <<tmp, final>>
    /\ Goto(q, "close")
    /\ UNCHANGED <<chunks, content, fd, pos, overlapped, crashes>>

\* ~BufferedOutputStream(): the last part is written, also when mv() raised.
Close(q) ==
    /\ pc[q] = "close"
    /\ content' = [content EXCEPT ![fd[q]] = Written(@, chunks)]
    /\ pos' = [pos EXCEPT ![q] = chunks]
    /\ outcome' = [outcome EXCEPT ![q] = IF @ = "error" THEN "error" ELSE "right"]
    /\ Goto(q, "done")
    /\ UNCHANGED <<chunks, tmp, final, fd, overlapped, crashes>>

\* The process dies with all of its queries; the files stay.
Crash ==
    /\ crashes < MaxCrashes /\ Active # {}
    /\ crashes' = crashes + 1
    /\ pc' = [q \in Queries |-> IF q \in Active THEN "dead" ELSE pc[q]]
    /\ UNCHANGED <<chunks, files, fd, pos, outcome, overlapped>>

Next ==
    \/ \E q \in Queries : \/ Lookup(q) \/ Read(q) \/ Scan(q) \/ OpenTmp(q)
                          \/ Encode(q) \/ Move(q) \/ Close(q)
    \/ Crash

Spec == Init /\ [][Next]_vars
-----------------------------------------------------------------------------
Complete(i) == content[i] = [n \in 1..chunks |-> "data"]

\* A query never answers from a file that is not the whole encoding: it fails
\* instead.  Crashes do not change that.  It needs encodings that fit the
\* buffer, or queries that do not overlap: two writers of a longer file share
\* one inode and each other's O_TRUNC, and a reader may meet the holes.
AnswersRight ==
    chunks = 1 \/ ~overlapped => \A q \in Queries : outcome[q] # "wrong"

\* When no query is active, and none has been killed on its way, the cache
\* file is complete, however the writers were interleaved: the rename happens
\* before the last part is written, but every writer of the inode writes all
\* of its parts.
CacheSettles ==
    Active = {} /\ crashes = 0 /\ final # NoInode => Complete(final)

\* The cache never answers from a file that is not the whole encoding, and it
\* is whole when its writers are through.
CacheRight == AnswersRight /\ CacheSettles
=============================================================================
