------------------------- MODULE PersistentHashSet -------------------------
(***************************************************************************)
(* stx::PersistentHashSet: a set of record ids in a file of slots, with    *)
(* linear probing.  Writers take turns (write_mutex_); readers hold no     *)
(* lock while they read, so a reader meets slots that are being written,   *)
(* and keeps reading the old file when grow() has moved a new one in its   *)
(* place.  The process may crash between any two steps.                    *)
(*                                                                         *)
(* A file is the sequence of its slots, << >> a file without header: one   *)
(* read() or write() of slots is one step.  The 512 slots, 200 slots of a  *)
(* scan's buffer and 25 of a lookup's are constants.  The buffer of a scan *)
(* is not cleared, so FetchBatch <= InitialSlots: the first read fills it. *)
(***************************************************************************)
EXTENDS Integers, Sequences, FiniteSets, FiniteSetsExt

CONSTANTS
    Adders, Readers, Ids,
    SlotHash,               \* the hash of each id
    InitialSlots,           \* kInitialSlots
    FetchBatch,             \* kFetchIOBatchSize
    ProbeBatch,             \* kProbeIOBatchSize
    MaxCrashes,
    Empty                   \* a slot of zeros

ASSUME SlotsAssumption ==
    /\ InitialSlots \in Nat \ {0} /\ FetchBatch \in 1..InitialSlots /\ ProbeBatch \in Nat \ {0}
    /\ SlotHash \in [Ids -> Nat] /\ Empty \notin Ids

VARIABLES
    slotFiles,              \* every file there was; one after linked is "~"
    linked,                 \* the one that fpath_ names, 0 if none does
    nslots, nslots_used,    \* of the object; Unknown: to be counted
    apc, adding,            \* the writers: where they are, what they add
    readers,                \* the readers' calls
    alive, crashes,
    attempted, acknowledged, added   \* histories: ids ever handed in, ids that
                            \* calls returned for, how often TRUE was returned

objectVars == <<nslots, nslots_used>>
fileVars == <<slotFiles, linked>>
history == <<attempted, acknowledged, added>>
slotVars == <<fileVars, objectVars, apc, adding, readers, alive, crashes, history>>

Unknown == -1
\* The calls of a writer and of a reader that has none.
NoAdd == [ids |-> {}, left |-> {}]
NoCall == [op |-> "none"]
-----------------------------------------------------------------------------
\* The slot that the i-th probe for an id looks at.
ProbeAt(id, i, n) == ((SlotHash[id] + i) % n) + 1

\* Probes that end a lookup: the id, or an empty slot.
Stops(slots, id, probes) ==
    {i \in probes : slots[ProbeAt(id, i, Len(slots))] \in {id, Empty}}

\* The probes that one read() of ProbeBatch slots from the i-th on answers:
\* the buffer ends with the file, and the probe after that reads from slot 0.
ProbesOfRead(id, i, n) ==
    i .. Min({i + ProbeBatch, i + n - (ProbeAt(id, i, n) - 1), n}) - 1

\* scan(): the buffer after the b-th read, whose tail keeps the slots of the
\* read before when the file ends inside it.
FetchedBuffer(slots, b, old) ==
    [k \in 1..FetchBatch |->
        IF b * FetchBatch + k <= Len(slots) THEN slots[b * FetchBatch + k] ELSE old[k]]

FetchReads(n) == (n + FetchBatch - 1) \div FetchBatch

\* What a scan of a file that nobody writes hands out, the empty slots
\* included: behind the end of the file, the last buffer still holds slots of
\* the one before.
HandedOut(slots) ==
    [k \in 1..FetchReads(Len(slots)) * FetchBatch |->
        IF k <= Len(slots) THEN slots[k] ELSE slots[k - FetchBatch]]

\* The positions at which the callback of a scan is called
Called(handed) == {k \in DOMAIN handed : handed[k] # Empty}

\* A rehash that keeps every id where it was.
RehashedInPlace(handed, n) ==
    [k \in 1..n |-> IF k \in DOMAIN handed THEN handed[k] ELSE Empty]

\* grow(): the id of a slot at its first free probe.
WithId(table, id) ==
    LET n == Len(table)
        free == {i \in 0..n - 1 : table[ProbeAt(id, i, n)] = Empty}
    IN  IF id = Empty \/ free = {} THEN table
        ELSE [table EXCEPT ![ProbeAt(id, Min(free), n)] = id]

\* grow(): what a scan hands out, in a table of n slots.  An id that it hands
\* out twice is stored twice.
Rehashed(handed, n) ==
    LET table[k \in 0..Len(handed)] ==
            IF k = 0 THEN [slot \in 1..n |-> Empty] ELSE WithId(table[k - 1], handed[k])
    IN  table[Len(handed)]

\* The number of occupied slots, as insert() counts it on the first call.
Counted == IF nslots = 0 THEN 0 ELSE Cardinality(Called(HandedOut(slotFiles[linked])))

Used == IF nslots_used = Unknown THEN Counted ELSE nslots_used

\* nslots_used_ + 1 > nslots_ * kMaxFillFactor
TooFull(used) == 2 * (used + 1) > nslots

GrownSlots == IF nslots = 0 THEN InitialSlots ELSE 2 * nslots
-----------------------------------------------------------------------------
WriteLocked == \E a \in Adders : apc[a] # "idle"

\* addRecordID() or addRecordIDs(): the lock, and the file, created if there
\* is none.
Add(a, ids) ==
    /\ alive /\ ~WriteLocked
    /\ apc' = [apc EXCEPT ![a] = "insert"]
    /\ adding' = [adding EXCEPT ![a] = [ids |-> ids, left |-> ids]]
    /\ IF linked = 0
       THEN slotFiles' = Append(slotFiles, << >>) /\ linked' = Len(slotFiles')
       ELSE UNCHANGED fileVars
    /\ attempted' = attempted \cup ids
    /\ UNCHANGED <<objectVars, readers, alive, crashes, acknowledged, added>>

\* insert(): counts first, and calls grow() if the table is half full; the
\* new table is built and the "~" file opened, truncated if a crash left one.
Grow(a) ==
    /\ apc[a] = "insert" /\ adding[a].left # {} /\ TooFull(Used)
    /\ nslots_used' = Used
    /\ slotFiles' = SubSeq(slotFiles, 1, linked) \o << << >> >>
    /\ apc' = [apc EXCEPT ![a] = "write"]
    /\ UNCHANGED <<linked, nslots, adding, readers, alive, crashes, history>>

\* The header and the slots of the new file.
GrowWrite(a) ==
    /\ apc[a] = "write"
    /\ slotFiles' = [slotFiles EXCEPT ![Len(slotFiles)] =
                    Rehashed(IF nslots = 0 THEN << >> ELSE HandedOut(slotFiles[linked]), GrownSlots)]
    /\ apc' = [apc EXCEPT ![a] = "move"]
    /\ UNCHANGED <<linked, objectVars, adding, readers, alive, crashes, history>>

\* The end of grow(): for readers, file and number of slots change together.
GrowMove(a) ==
    /\ apc[a] = "move"
    /\ linked' = Len(slotFiles) /\ nslots' = GrownSlots
    /\ apc' = [apc EXCEPT ![a] = "insert"]
    /\ UNCHANGED <<slotFiles, nslots_used, adding, readers, alive, crashes, history>>

\* The rest of insert(): lookup(), which raises if no slot is free, and the
\* id in the free slot that it found.
Insert(a, id) ==
    /\ apc[a] = "insert" /\ id \in adding[a].left /\ ~TooFull(Used)
    /\ \E stops \in {Stops(slotFiles[linked], id, 0..nslots - 1)} :
         IF stops # {} /\ slotFiles[linked][ProbeAt(id, Min(stops), nslots)] = Empty
         THEN /\ slotFiles' = [slotFiles EXCEPT ![linked][ProbeAt(id, Min(stops), nslots)] = id]
              /\ nslots_used' = Used + 1
              /\ added' = [added EXCEPT ![id] = @ + 1]
              /\ UNCHANGED apc
         ELSE /\ nslots_used' = Used
              /\ apc' = IF stops = {} THEN [apc EXCEPT ![a] = "full"] ELSE apc
              /\ UNCHANGED <<slotFiles, added>>
    /\ adding' = [adding EXCEPT ![a].left = @ \ {id}]
    /\ UNCHANGED <<linked, nslots, readers, alive, crashes, attempted, acknowledged>>

AddReturns(a) ==
    /\ apc[a] = "insert" /\ adding[a].left = {}
    /\ apc' = [apc EXCEPT ![a] = "idle"] /\ adding' = [adding EXCEPT ![a] = NoAdd]
    /\ acknowledged' = acknowledged \cup adding[a].ids
    /\ UNCHANGED <<fileVars, objectVars, readers, alive, crashes, attempted, added>>

\* A write() or the mv() fails: the call raises, and the lock is free.
AddFails(a) ==
    /\ \/ apc[a] = "insert" /\ adding[a].left # {} /\ ~TooFull(Used) /\ nslots_used' = Used
       \/ apc[a] \in {"write", "move"} /\ UNCHANGED nslots_used
    /\ apc' = [apc EXCEPT ![a] = "idle"] /\ adding' = [adding EXCEPT ![a] = NoAdd]
    /\ UNCHANGED <<fileVars, nslots, readers, alive, crashes, history>>
-----------------------------------------------------------------------------
\* hasRecordID(): under read_mutex_, the number of slots and the file that
\* goes with it.
HasRecordID(r, id) ==
    /\ alive /\ readers[r] = NoCall
    /\ readers' = [readers EXCEPT ![r] =
                  IF nslots = 0
                  THEN [op |-> "answered", id |-> id, found |-> FALSE, promised |-> acknowledged]
                  ELSE [op |-> "lookup", id |-> id, file |-> linked, probe |-> 0, promised |-> acknowledged]]
    /\ UNCHANGED <<fileVars, objectVars, apc, adding, alive, crashes, history>>

\* lookup(), one read() and what the probes find in it.
LookupRead(r) ==
    /\ readers[r].op = "lookup"
    /\ LET id == readers[r].id
           slots == slotFiles[readers[r].file]
           probes == ProbesOfRead(id, readers[r].probe, Len(slots))
           stops == Stops(slots, id, probes)
       IN  readers' = [readers EXCEPT ![r] =
                     IF stops # {}
                     THEN [op |-> "answered", id |-> id, promised |-> @.promised,
                           found |-> slots[ProbeAt(id, Min(stops), Len(slots))] = id]
                     ELSE IF Max(probes) + 1 = Len(slots) THEN [op |-> "full"]
                     ELSE [@ EXCEPT !.probe = Max(probes) + 1]]
    /\ UNCHANGED <<fileVars, objectVars, apc, adding, alive, crashes, history>>

\* fetchRecordIDs()
FetchRecordIDs(r) ==
    /\ alive /\ readers[r] = NoCall
    /\ readers' = [readers EXCEPT ![r] =
                  IF nslots = 0
                  THEN [op |-> "fetched", ids |-> {}, promised |-> acknowledged]
                  ELSE [op |-> "scan", file |-> linked, batch |-> 0, buffer |-> << >>,
                        ids |-> {}, promised |-> acknowledged]]
    /\ UNCHANGED <<fileVars, objectVars, apc, adding, alive, crashes, history>>

\* scan(), one read() and the callback for the slots of the buffer.
ScanRead(r) ==
    /\ readers[r].op = "scan"
    /\ LET call == readers[r]
           slots == slotFiles[call.file]
           buffer == FetchedBuffer(slots, call.batch, call.buffer)
           ids == call.ids \cup ({buffer[k] : k \in 1..FetchBatch} \ {Empty})
       IN  readers' = [readers EXCEPT ![r] =
                     IF call.batch + 1 = FetchReads(Len(slots))
                     THEN [op |-> "fetched", ids |-> ids, promised |-> call.promised]
                     ELSE [call EXCEPT !.batch = @ + 1, !.buffer = buffer, !.ids = ids]]
    /\ UNCHANGED <<fileVars, objectVars, apc, adding, alive, crashes, history>>

\* The process ends at any step.  The files stay as they are.
Crash ==
    /\ alive /\ crashes < MaxCrashes
    /\ alive' = FALSE /\ crashes' = crashes + 1
    /\ nslots' = 0 /\ nslots_used' = Unknown
    /\ apc' = [a \in Adders |-> "idle"] /\ adding' = [a \in Adders |-> NoAdd]
    /\ readers' = [r \in Readers |-> NoCall]
    /\ UNCHANGED <<fileVars, history>>

\* The constructor; it raises if the file has no header.
Reopen ==
    /\ ~alive /\ (linked # 0 => slotFiles[linked] # << >>)
    /\ alive' = TRUE
    /\ nslots' = IF linked = 0 THEN 0 ELSE Len(slotFiles[linked])
    /\ UNCHANGED <<fileVars, nslots_used, apc, adding, readers, crashes, history>>
-----------------------------------------------------------------------------
SlotsInit ==
    /\ slotFiles = << >> /\ linked = 0
    /\ nslots = 0 /\ nslots_used = Unknown
    /\ apc = [a \in Adders |-> "idle"] /\ adding = [a \in Adders |-> NoAdd]
    /\ readers = [r \in Readers |-> NoCall]
    /\ alive = TRUE /\ crashes = 0
    /\ attempted = {} /\ acknowledged = {} /\ added = [id \in Ids |-> 0]

SlotsNext ==
    \/ \E a \in Adders :
         \/ \E ids \in SUBSET Ids \ {{}} : Add(a, ids)
         \/ Grow(a) \/ GrowWrite(a) \/ GrowMove(a)
         \/ \E id \in Ids : Insert(a, id)
         \/ AddReturns(a) \/ AddFails(a)
    \/ \E r \in Readers :
         \/ \E id \in Ids : HasRecordID(r, id)
         \/ LookupRead(r) \/ FetchRecordIDs(r) \/ ScanRead(r)
    \/ Crash \/ Reopen

SlotsSpec == SlotsInit /\ [][SlotsNext]_slotVars
-----------------------------------------------------------------------------
\* Whatever is written, moved and crashed meanwhile: a call that begins after
\* an add has returned finds the id, nothing is found that nobody added, an
\* id is reported as new at most once, no probe runs through the whole table,
\* and after a crash the file can be opened again unless nothing was ever
\* added to it.
SetRemembers ==
    /\ \A a \in Adders : apc[a] # "full"
    /\ \A r \in Readers :
         /\ readers[r].op # "full"
         /\ readers[r].op = "answered" =>
              /\ readers[r].id \in readers[r].promised => readers[r].found
              /\ readers[r].found => readers[r].id \in attempted
         /\ readers[r].op = "fetched" =>
              /\ readers[r].promised \subseteq readers[r].ids
              /\ readers[r].ids \subseteq attempted
    /\ \A id \in Ids : added[id] <= 1
    /\ ~alive /\ acknowledged # {} => slotFiles[linked] # << >>
=============================================================================
