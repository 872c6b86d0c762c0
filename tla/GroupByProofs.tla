--------------------------- MODULE GroupByProofs ---------------------------
(***************************************************************************)
(* Proofs about GroupByMerge, for any tree of merges, any number of        *)
(* sources and any limit of concurrent tasks, and about QueryCache.        *)
(*                                                                         *)
(* The invariant of the merges counts: sem is the number of tasks that     *)
(* have not merged yet, and running_tasks_ the number of those that hold a *)
(* slot.  On top of it, the groups of a merge are at every moment the sums *)
(* of what the tasks past their critical section have given it; the tree   *)
(* of the merges turns that into the rows of all that lies below.          *)
(***************************************************************************)
EXTENDS MCGroupBy, FiniteSetTheorems, SequenceTheorems, WellFoundedInduction, TLAPS

ExecStates == {"idle", "launch", "blocked", "wait", "asleep", "emitted", "raised"}
Unmerged   == {"none", "queued", "run", "nested", "merge"}
PastMerge  == {"notify", "release", "done"}

MergeType ==
    /\ exec \in [Merges -> ExecStates]
    /\ toLaunch \in [Merges -> SUBSET Sources]
    /\ sem \in [Merges -> Int]
    /\ errors \in [Merges -> SUBSET Sources]
    /\ groups \in [Merges -> [Keys -> Int]]
    /\ task \in [Sources -> Unmerged \cup PastMerge]
    /\ tgroups \in [Sources -> [Keys -> Int]]
    /\ terror \in [Sources -> {"none", "text", "blank"}]
    /\ running_tasks \in Int
    /\ context \in {"live", "gone"}
    /\ alive \in BOOLEAN

\* The sources that the loop of execute() still has to launch.
LaunchOK ==
    /\ \A m \in Merges : toLaunch[m] \subseteq SourcesOf(m)
    /\ \A s \in Sources : task[s] = "none" <=> s \in toLaunch[MergeOf[s]]

\* The tasks of a merge that have their critical section still to come.
ToMerge(m) == {s \in SourcesOf(m) : task[s] \in Unmerged}

Flying == {s \in Sources : task[s] \in InFlight}

\* sem, as long as no task has left through an exception.
SemExact == alive => \A m \in Merges : sem[m] = Cardinality(ToMerge(m))

\* What accumulate() has left in the locals of a task.
Accumulated(s) ==
    terror[s] = "none" =>
        IF s \in Nesting
        THEN exec[NestedIn[s]] = "emitted" /\ tgroups[s] = groups[NestedIn[s]]
        ELSE tgroups[s] = Rows[s]

LocalsRight ==
    alive => \A s \in Sources :
        /\ task[s] \in PastMerge \cup {"merge"} => Accumulated(s)
        /\ task[s] \in PastMerge /\ terror[s] = "text" => s \in errors[MergeOf[s]]

\* A merge that emits has seen no error with a message, and all that its
\* sources handed to it is what they scanned, or what the merge inside of
\* them has emitted.
EmitsWhatSourcesGave ==
    \A m \in Merges : exec[m] = "emitted" =>
        /\ errors[m] = {}
        /\ \A s \in SourcesOf(m) : terror[s] # "text" /\ Accumulated(s)

\* The merge inside a source rests until the source's task calls it.
NestedRests ==
    /\ \A s \in Sources : task[s] = "nested" => s \in Nesting
    /\ \A s \in Nesting : task[s] \in {"none", "queued", "run"} => exec[NestedIn[s]] = "idle"

MergeInv ==
    /\ MergeType /\ LaunchOK /\ NestedRests /\ SemExact /\ TasksAccounted
    /\ LocalsRight /\ EmitsWhatSourcesGave

-----------------------------------------------------------------------------
\* What the assumption says of one source.
LEMMA SourceFacts ==
    ASSUME NEW s \in Sources
    PROVE  /\ MergeOf[s] \in Merges /\ s \in SourcesOf(MergeOf[s])
           /\ \A m \in Merges : s \in SourcesOf(m) => m = MergeOf[s]
           /\ s \in Nesting => NestedIn[s] \in Merges
    BY MergeAssumption DEF SourcesOf, Nesting

\* The counted sets are finite.
LEMMA CountedFinite ==
    /\ IsFiniteSet(Flying)
    /\ \A m \in Merges : IsFiniteSet(ToMerge(m)) /\ IsFiniteSet(SourcesOf(m))
    BY MergeAssumption, FS_Subset DEF Flying, ToMerge, SourcesOf

\* The row counts of a source that breaks off.
LEMMA CountsAreNumbers == \A n : \A g \in [Keys -> 0..n] : g \in [Keys -> Int]
    OBVIOUS

\* What the counts do when a task moves.
LEMMA TaskMoves ==
    ASSUME MergeType, NEW s \in Sources, NEW l \in Unmerged \cup PastMerge,
           task' = [task EXCEPT ![s] = l]
    PROVE  /\ l \in InFlight => Flying' = Flying \cup {s}
           /\ l \notin InFlight => Flying' = Flying \ {s}
           /\ l \in Unmerged /\ task[s] \in Unmerged => \A m \in Merges : ToMerge(m)' = ToMerge(m)
           /\ l \notin Unmerged => \A m \in Merges : ToMerge(m)' = ToMerge(m) \ {s}
           /\ task'[s] = l /\ \A r \in Sources \ {s} : task'[r] = task[r]
<1>1. task'[s] = l /\ \A r \in Sources \ {s} : task'[r] = task[r]
    BY DEF MergeType
<1>2. /\ l \in InFlight => Flying' = Flying \cup {s}
      /\ l \notin InFlight => Flying' = Flying \ {s}
    BY <1>1 DEF Flying
<1>3. ASSUME l \in Unmerged, task[s] \in Unmerged, NEW m \in Merges
      PROVE  ToMerge(m)' = ToMerge(m)
    BY <1>1, <1>3 DEF ToMerge, SourcesOf
<1>4. ASSUME l \notin Unmerged, NEW m \in Merges
      PROVE  ToMerge(m)' = ToMerge(m) \ {s}
    BY <1>1, <1>4 DEF ToMerge, SourcesOf
<1> QED
    BY <1>1, <1>2, <1>3, <1>4

\* A step that returns from no execute() and touches no locals keeps all that
\* is said about results, if the tasks that it moves stay on their side of
\* the critical section.
LEMMA QuietStep ==
    ASSUME MergeInv, UNCHANGED <<toLaunch, sem, errors, groups, tgroups, terror>>,
           alive' => alive,
           \A m \in Merges : /\ exec'[m] = "emitted" <=> exec[m] = "emitted"
                             /\ Returned(m)' <=> Returned(m),
           \A s \in Sources : /\ task'[s] = "none" <=> task[s] = "none"
                              /\ task'[s] \in PastMerge <=> task[s] \in PastMerge
                              /\ task'[s] \in Unmerged <=> task[s] \in Unmerged
                              /\ task'[s] = "merge" <=> task[s] = "merge"
    PROVE  LaunchOK' /\ SemExact' /\ NoMergeAfterReturn' /\ LocalsRight' /\ EmitsWhatSourcesGave'
<1>1. LaunchOK'
    BY DEF MergeInv, LaunchOK
<1>2. SemExact'
  <2>1. \A m \in Merges : ToMerge(m)' = ToMerge(m)
      BY DEF ToMerge, SourcesOf
  <2> QED
      BY <2>1 DEF MergeInv, SemExact
<1>3. NoMergeAfterReturn'
    BY SourceFacts DEF MergeInv, TasksAccounted, NoMergeAfterReturn, PastMerge
<1>4. \A s \in Sources : Accumulated(s) => Accumulated(s)'
    BY SourceFacts DEF Accumulated
<1>5. LocalsRight'
    BY <1>4 DEF MergeInv, LocalsRight
<1>6. EmitsWhatSourcesGave'
  <2>1. \A m \in Merges : \A s \in SourcesOf(m) : Accumulated(s) => Accumulated(s)'
      BY <1>4 DEF SourcesOf
  <2> QED
      BY <2>1 DEF MergeInv, EmitsWhatSourcesGave
<1> QED
    BY <1>1, <1>2, <1>3, <1>5, <1>6

-----------------------------------------------------------------------------
\* No task has started.
LEMMA InitInv == Init => MergeInv
<1> SUFFICES ASSUME Init PROVE MergeInv
    OBVIOUS
<1>1. \A m \in Merges : Cardinality(SourcesOf(m)) \in Nat
    BY CountedFinite, FS_CardinalityType
<1>2. MergeType
    BY <1>1, MergeAssumption
    DEF Init, MergeType, ExecStates, Unmerged, PastMerge, SourcesOf, NoGroups
<1>3. LaunchOK /\ NestedRests
    BY SourceFacts, MergeAssumption DEF Init, LaunchOK, NestedRests, SourcesOf, Nesting
<1>4. SemExact
  <2>1. \A m \in Merges : ToMerge(m) = SourcesOf(m)
      BY DEF Init, ToMerge, Unmerged, SourcesOf
  <2> QED
      BY <2>1 DEF Init, SemExact
<1>5. TasksAccounted
  <2>1. Flying = {}
      BY DEF Init, Flying, InFlight
  <2>2. RunningTasksExact
    <3>1. Cardinality(Flying) = 0
        BY <2>1, FS_EmptySet
    <3>2. running_tasks = 1 /\ 1 <= MaxTasks
        BY MergeAssumption DEF Init
    <3> QED
        BY <3>1, <3>2 DEF RunningTasksExact, Flying
  <2>3. NoMergeAfterReturn
      BY SourceFacts DEF Init, NoMergeAfterReturn, Returned
  <2> QED
      BY <2>2, <2>3 DEF TasksAccounted
<1>6. LocalsRight /\ EmitsWhatSourcesGave
    BY DEF Init, LocalsRight, EmitsWhatSourcesGave, PastMerge
<1> QED
    BY <1>2, <1>3, <1>4, <1>5, <1>6 DEF MergeInv

\* The executing thread waits, wakes up, or leaves the query.
LEMMA WaitsInv ==
    ASSUME MergeInv, \/ \E m \in Merges : RunAsyncBlocks(m) \/ WaitForTasks(m) \/ SpuriousWakeup(m)
                     \/ QueryReturns \/ UNCHANGED vars
    PROVE  MergeInv'
<1>1. /\ UNCHANGED <<toLaunch, sem, errors, groups, tgroups, terror, task, running_tasks, alive>>
      /\ context' = context \/ context' = "gone"
    BY DEF RunAsyncBlocks, WaitForTasks, SpuriousWakeup, QueryReturns, vars, mergeVars, taskVars
<1>2. \/ exec' = exec
      \/ \E m \in Merges : \E l \in {"launch", "blocked", "wait", "asleep"} :
            /\ exec[m] \in {"launch", "blocked", "wait", "asleep"}
            /\ exec' = [exec EXCEPT ![m] = l]
    BY DEF RunAsyncBlocks, WaitForTasks, SpuriousWakeup, QueryReturns, vars, mergeVars
<1>3. MergeType'
    BY <1>1, <1>2 DEF MergeInv, MergeType, ExecStates
<1>4. \A m \in Merges : /\ exec'[m] = "emitted" <=> exec[m] = "emitted"
                        /\ Returned(m)' <=> Returned(m)
                        /\ exec'[m] = "idle" <=> exec[m] = "idle"
    BY <1>2 DEF MergeInv, MergeType, Returned
<1>5. NestedRests'
    BY <1>1, <1>4, SourceFacts DEF MergeInv, NestedRests, Nesting
<1>6. RunningTasksExact'
    BY <1>1 DEF MergeInv, TasksAccounted, RunningTasksExact
<1> QED
    BY <1>1, <1>3, <1>4, <1>5, <1>6, QuietStep DEF MergeInv, TasksAccounted

\* runAsync() with room: one task more holds a slot.
LEMMA RunAsyncInv ==
    ASSUME MergeInv, NEW m \in Merges, RunAsync(m)
    PROVE  MergeInv'
<1>1. PICK s \in toLaunch[m] :
         /\ toLaunch' = [toLaunch EXCEPT ![m] = @ \ {s}]
         /\ task' = [task EXCEPT ![s] = "queued"]
    BY DEF RunAsync
<1>2. /\ exec[m] = "launch" /\ running_tasks' = running_tasks + 1 /\ running_tasks < MaxTasks
      /\ UNCHANGED <<sem, errors, groups, tgroups, terror, context, alive>>
      /\ exec' = [exec EXCEPT ![m] = "wait"] \/ exec' = [exec EXCEPT ![m] = "launch"]
    BY DEF RunAsync
<1>3. s \in Sources /\ MergeOf[s] = m /\ task[s] = "none"
    BY <1>1, SourceFacts DEF MergeInv, LaunchOK, SourcesOf
<1>4. /\ Flying' = Flying \cup {s} /\ \A n \in Merges : ToMerge(n)' = ToMerge(n)
      /\ task'[s] = "queued" /\ \A r \in Sources \ {s} : task'[r] = task[r]
    BY <1>1, <1>3, TaskMoves DEF MergeInv, Unmerged, InFlight
<1>5. MergeType'
    BY <1>1, <1>2, <1>3 DEF MergeInv, MergeType, ExecStates, Unmerged
<1>6. LaunchOK'
    BY <1>1, <1>3, <1>4, SourceFacts DEF MergeInv, LaunchOK, MergeType, SourcesOf
<1>7. \A n \in Merges : /\ exec'[n] = "emitted" <=> exec[n] = "emitted"
                        /\ Returned(n)' <=> Returned(n)
                        /\ exec'[n] = "idle" <=> exec[n] = "idle"
    BY <1>2 DEF MergeInv, MergeType, Returned
<1>8. NestedRests'
    BY <1>3, <1>4, <1>7, SourceFacts DEF MergeInv, NestedRests, Nesting
<1>9. SemExact'
    BY <1>2, <1>4 DEF MergeInv, SemExact
<1>10. RunningTasksExact'
  <2>1. Cardinality(Flying') = Cardinality(Flying) + 1 /\ Cardinality(Flying) \in Nat
      BY <1>3, <1>4, CountedFinite, FS_AddElement, FS_CardinalityType DEF Flying, InFlight
  <2> QED
      BY <1>2, <2>1, MergeAssumption
      DEF MergeInv, MergeType, TasksAccounted, RunningTasksExact, Flying
<1>11. NoMergeAfterReturn'
    BY <1>3, <1>4, <1>7, SourceFacts, <1>2
    DEF MergeInv, TasksAccounted, NoMergeAfterReturn, Returned
<1>12. \A r \in Sources : Accumulated(r) => Accumulated(r)'
    BY <1>2, <1>7, SourceFacts DEF Accumulated
<1>13. LocalsRight'
    BY <1>2, <1>4, <1>12 DEF MergeInv, LocalsRight, PastMerge
<1>14. EmitsWhatSourcesGave'
    BY <1>2, <1>7, <1>12 DEF MergeInv, EmitsWhatSourcesGave, SourcesOf
<1> QED
    BY <1>5, <1>6, <1>8, <1>9, <1>10, <1>11, <1>13, <1>14 DEF MergeInv, TasksAccounted

\* sem is 0: every task of the merge is past its critical section, so that
\* nothing is to come for the frame, and what it emits is what they gave.
LEMMA FinishInv ==
    ASSUME MergeInv, NEW m \in Merges, Finish(m)
    PROVE  MergeInv'
<1>1. /\ alive /\ exec[m] = "wait" /\ sem[m] = 0
      /\ UNCHANGED <<toLaunch, sem, errors, groups, tgroups, terror, task, running_tasks,
                     context, alive>>
    BY DEF Finish, taskVars
<1>2. PICK l \in {"emitted", "raised"} :
         exec' = [exec EXCEPT ![m] = l] /\ (l = "emitted" => errors[m] = {})
    BY DEF Finish
<1>3. MergeType'
    BY <1>1, <1>2 DEF MergeInv, MergeType, ExecStates
<1>4. ToMerge(m) = {}
  <2>1. Cardinality(ToMerge(m)) = 0
      BY <1>1 DEF MergeInv, SemExact
  <2> QED
      BY <2>1, CountedFinite, FS_EmptySet
<1>5. \A s \in SourcesOf(m) : task[s] \in PastMerge
    BY <1>4 DEF MergeInv, MergeType, ToMerge, SourcesOf
<1>6. exec'[m] = l /\ \A n \in Merges \ {m} : exec'[n] = exec[n]
    BY <1>2 DEF MergeInv, MergeType
<1>7. LaunchOK' /\ SemExact'
    BY <1>1 DEF MergeInv, LaunchOK, SemExact, ToMerge
<1>8. NestedRests'
    BY <1>1, <1>6, SourceFacts DEF MergeInv, NestedRests, Nesting
<1>9. RunningTasksExact'
    BY <1>1 DEF MergeInv, TasksAccounted, RunningTasksExact
<1>10. NoMergeAfterReturn'
    BY <1>1, <1>5, <1>6, SourceFacts
    DEF MergeInv, TasksAccounted, NoMergeAfterReturn, Returned, PastMerge, SourcesOf
<1>11. \A s \in Sources : Accumulated(s) => Accumulated(s)'
    BY <1>1, <1>6, SourceFacts DEF Accumulated
<1>12. LocalsRight'
    BY <1>1, <1>11 DEF MergeInv, LocalsRight
<1>13. EmitsWhatSourcesGave'
  <2>1. ASSUME l = "emitted", NEW s \in SourcesOf(m)
        PROVE  terror[s] # "text" /\ Accumulated(s)
      BY <1>1, <1>2, <1>5, <2>1 DEF MergeInv, LocalsRight, SourcesOf
  <2> QED
      BY <1>1, <1>2, <1>6, <1>11, <2>1 DEF MergeInv, EmitsWhatSourcesGave, SourcesOf
<1> QED
    BY <1>3, <1>7, <1>8, <1>9, <1>10, <1>12, <1>13 DEF MergeInv, TasksAccounted

\* A task moves, but neither accumulates nor merges: it is picked up, calls
\* the merge inside, wakes the executing thread, or gives its slot back.
LEMMA TaskStepsInv ==
    ASSUME MergeInv, NEW s \in Sources,
           StartTask(s) \/ EnterNested(s) \/ Notify(s) \/ Release(s)
    PROVE  MergeInv'
<1>1. MergeType /\ alive /\ UNCHANGED <<toLaunch, sem, errors, groups, tgroups, terror, context>>
    BY DEF MergeInv, StartTask, EnterNested, Notify, Release, mergeVars
<1>2. alive' \in BOOLEAN
    BY <1>1 DEF MergeType, StartTask, EnterNested, Notify, Release, DeadFrameUse
<1>3. PICK l \in {"run", "nested", "release", "done"} :
         /\ task' = [task EXCEPT ![s] = l]
         /\ \/ task[s] = "queued" /\ l = "run"
            \/ task[s] = "run" /\ l = "nested"
            \/ task[s] = "notify" /\ l = "release"
            \/ task[s] = "release" /\ l = "done"
    BY DEF StartTask, EnterNested, Notify, Release
<1>4. /\ exec' \in [Merges -> ExecStates]
      /\ \A m \in Merges : /\ exec'[m] = "emitted" <=> exec[m] = "emitted"
                           /\ Returned(m)' <=> Returned(m)
      /\ \A m \in Merges : exec[m] = "idle" =>
            exec'[m] = "idle" \/ (EnterNested(s) /\ m = NestedIn[s])
  <2>1. CASE StartTask(s)
      BY <1>1, <2>1 DEF StartTask, mergeVars, MergeType, Returned
  <2>2. CASE EnterNested(s)
    <3>1. s \in Nesting /\ exec[NestedIn[s]] = "idle" /\ NestedIn[s] \in Merges
        BY <2>2, SourceFacts DEF EnterNested, MergeInv, NestedRests
    <3> QED
        BY <1>1, <2>2, <3>1 DEF EnterNested, MergeType, ExecStates, Returned
  <2>3. CASE Notify(s)
    <3>1. \/ exec' = exec
          \/ exec[MergeOf[s]] = "asleep" /\ exec' = [exec EXCEPT ![MergeOf[s]] = "wait"]
        BY <2>3 DEF Notify
    <3> QED
        BY <1>1, <3>1, SourceFacts DEF MergeType, ExecStates, Returned
  <2>4. CASE Release(s)
      BY <1>1, <2>4 DEF Release, ReleaseSlot, MergeType, ExecStates, Returned
  <2> QED
      BY <2>1, <2>2, <2>3, <2>4
<1>5. running_tasks' \in Int
  <2>1. running_tasks' = running_tasks \/ running_tasks' = running_tasks - 1
      BY DEF StartTask, EnterNested, Notify, Release, ReleaseSlot
  <2> QED
      BY <1>1, <2>1 DEF MergeType
<1>6. MergeType'
    BY <1>1, <1>2, <1>3, <1>4, <1>5 DEF MergeType, Unmerged, PastMerge
<1>7. /\ l \in InFlight => Flying' = Flying \cup {s}
      /\ l \notin InFlight => Flying' = Flying \ {s}
      /\ task'[s] = l /\ \A r \in Sources \ {s} : task'[r] = task[r]
    BY <1>1, <1>3, TaskMoves DEF Unmerged, PastMerge
<1>8. \A r \in Sources : /\ task'[r] = "none" <=> task[r] = "none"
                         /\ task'[r] \in PastMerge <=> task[r] \in PastMerge
                         /\ task'[r] \in Unmerged <=> task[r] \in Unmerged
                         /\ task'[r] = "merge" <=> task[r] = "merge"
    BY <1>3, <1>7 DEF PastMerge, Unmerged
<1>9. LaunchOK' /\ SemExact' /\ NoMergeAfterReturn' /\ LocalsRight' /\ EmitsWhatSourcesGave'
    BY <1>1, <1>4, <1>8, QuietStep
<1>10. NestedRests'
  <2>1. \A r \in Sources : task'[r] = "nested" => r \in Nesting
      BY <1>3, <1>7 DEF MergeInv, NestedRests, StartTask, EnterNested, Notify, Release
  <2> SUFFICES ASSUME NEW r \in Nesting, task'[r] \in {"none", "queued", "run"}
               PROVE  exec'[NestedIn[r]] = "idle"
      BY <2>1 DEF NestedRests
  <2>2. r \in Sources /\ NestedIn[r] \in Merges
      BY SourceFacts DEF Nesting
  <2>3. task[r] \in {"none", "queued", "run"}
      BY <1>3, <1>7, <2>2
  <2>4. exec[NestedIn[r]] = "idle"
      BY <2>3 DEF MergeInv, NestedRests
  <2>5. ~(EnterNested(s) /\ NestedIn[r] = NestedIn[s])
    <3> SUFFICES ASSUME EnterNested(s), NestedIn[r] = NestedIn[s] PROVE FALSE
        OBVIOUS
    <3>1. r = s
        BY MergeAssumption DEF EnterNested
    <3> QED
        BY <3>1, <1>1, <2>2 DEF EnterNested, MergeType
  <2> QED
      BY <1>4, <2>2, <2>4, <2>5
<1>11. RunningTasksExact'
  <2> SUFFICES ASSUME context = "live" PROVE RunningTasksExact'
      BY <1>1 DEF RunningTasksExact
  <2>1. running_tasks = 1 + Cardinality(Flying) /\ running_tasks <= MaxTasks
      BY DEF MergeInv, TasksAccounted, RunningTasksExact, Flying
  <2>2. s \in Flying
      BY <1>3 DEF Flying, InFlight
  <2>3. CASE Release(s)
    <3>1. running_tasks' = running_tasks - 1
        BY <2>3 DEF Release, ReleaseSlot
    <3>2. Flying' = Flying \ {s}
        BY ZenonT(40), <1>1, <2>3, TaskMoves DEF Release, PastMerge, InFlight
    <3>3. Cardinality(Flying') = Cardinality(Flying) - 1 /\ Cardinality(Flying) \in Nat
        BY <2>2, <3>2, CountedFinite, FS_RemoveElement, FS_CardinalityType
    <3>4. running_tasks' = 1 + Cardinality(Flying') /\ running_tasks' <= MaxTasks
        BY <2>1, <3>1, <3>3, MergeAssumption
    <3> QED
        BY <3>4 DEF RunningTasksExact, Flying
  <2>4. CASE ~Release(s)
    <3>1. running_tasks' = running_tasks /\ l \in InFlight
        BY <2>4, <1>3 DEF StartTask, EnterNested, Notify, InFlight
    <3>2. Flying' = Flying
        BY <1>7, <2>2, <3>1
    <3> QED
        BY <2>1, <3>1, <3>2 DEF RunningTasksExact, Flying
  <2> QED
      BY <2>3, <2>4
<1> QED
    BY <1>6, <1>9, <1>10, <1>11 DEF MergeInv, TasksAccounted

\* accumulate() ends: with all rows of the table or of the merge inside, or
\* with an error, which a merge inside that raised always is.
LEMMA AccumulateInv ==
    ASSUME MergeInv, NEW s \in Sources, Accumulate(s) \/ LeaveNested(s)
    PROVE  MergeInv'
<1>1. /\ MergeType /\ alive
      /\ UNCHANGED <<exec, toLaunch, sem, errors, groups, running_tasks, context, alive>>
      /\ task[s] \in {"run", "nested"} /\ task' = [task EXCEPT ![s] = "merge"]
    BY DEF MergeInv, Accumulate, LeaveNested, mergeVars
<1>2. /\ task'[s] = "merge" /\ \A r \in Sources \ {s} : task'[r] = task[r]
      /\ Flying' = Flying \cup {s} /\ \A m \in Merges : ToMerge(m)' = ToMerge(m)
    BY <1>1, TaskMoves DEF Unmerged, InFlight
<1>3. /\ tgroups' \in [Sources -> [Keys -> Int]]
      /\ terror' \in [Sources -> {"none", "text", "blank"}]
      /\ \A r \in Sources \ {s} : tgroups'[r] = tgroups[r] /\ terror'[r] = terror[r]
      /\ \/ s \notin Nesting /\ tgroups'[s] = Rows[s]
         \/ s \in Nesting /\ exec[NestedIn[s]] = "emitted" /\ tgroups'[s] = groups[NestedIn[s]]
         \/ terror'[s] # "none"
  <2>1. Rows[s] \in [Keys -> Int]
      BY MergeAssumption
  <2>2. CASE Accumulate(s)
    <3>1. CASE tgroups' = [tgroups EXCEPT ![s] = Rows[s]] /\ UNCHANGED terror
        BY <1>1, <2>1, <2>2, <3>1 DEF Accumulate, MergeType
    <3>2. CASE Broken(s, Rows[s])
      <4>1. PICK e \in FailMessages, g \in [Keys -> Int] :
               tgroups' = [tgroups EXCEPT ![s] = g] /\ terror' = [terror EXCEPT ![s] = e]
          BY <3>2, CountsAreNumbers DEF Broken
      <4> QED
          BY <1>1, <4>1, MergeAssumption DEF MergeType
    <3> QED
        BY <2>2, <3>1, <3>2 DEF Accumulate
  <2>3. CASE LeaveNested(s)
    <3>1. s \in Nesting /\ NestedIn[s] \in Merges
        BY <2>3, SourceFacts DEF LeaveNested, MergeInv, NestedRests
    <3>2. CASE /\ exec[NestedIn[s]] = "emitted"
               /\ tgroups' = [tgroups EXCEPT ![s] = groups[NestedIn[s]]]
               /\ UNCHANGED terror
        BY <1>1, <3>1, <3>2 DEF MergeType
    <3>3. CASE terror' = [terror EXCEPT ![s] = "text"] /\ UNCHANGED tgroups
        BY <1>1, <3>3 DEF MergeType
    <3>4. CASE Broken(s, groups[NestedIn[s]])
      <4>1. PICK e \in FailMessages, g \in [Keys -> Int] :
               tgroups' = [tgroups EXCEPT ![s] = g] /\ terror' = [terror EXCEPT ![s] = e]
          BY <3>4, CountsAreNumbers DEF Broken
      <4> QED
          BY <1>1, <4>1, MergeAssumption DEF MergeType
    <3> QED
        BY <2>3, <3>2, <3>3, <3>4 DEF LeaveNested
  <2> QED
      BY <2>2, <2>3
<1>4. MergeType'
    BY <1>1, <1>3 DEF MergeType, Unmerged
<1>5. LaunchOK' /\ SemExact'
    BY <1>1, <1>2 DEF MergeInv, LaunchOK, SemExact
<1>6. NestedRests'
    BY <1>1, <1>2 DEF MergeInv, NestedRests, Nesting
<1>7. RunningTasksExact'
  <2>1. Flying' = Flying
      BY <1>1, <1>2 DEF Flying, InFlight
  <2> QED
      BY <1>1, <2>1 DEF MergeInv, TasksAccounted, RunningTasksExact, Flying
<1>8. ~Returned(MergeOf[s])
    BY <1>1 DEF MergeInv, TasksAccounted, NoMergeAfterReturn
<1>9. NoMergeAfterReturn'
    BY <1>1, <1>2, <1>8 DEF MergeInv, TasksAccounted, NoMergeAfterReturn, Returned
<1>10. /\ Accumulated(s)'
       /\ \A r \in Sources \ {s} : Accumulated(r) => Accumulated(r)'
    BY <1>1, <1>3 DEF Accumulated
<1>11. LocalsRight'
    BY <1>1, <1>2, <1>3, <1>10 DEF MergeInv, LocalsRight, PastMerge
<1>12. EmitsWhatSourcesGave'
    BY <1>1, <1>3, <1>8, <1>10 DEF MergeInv, EmitsWhatSourcesGave, SourcesOf, Returned
<1> QED
    BY <1>4, <1>5, <1>6, <1>7, <1>9, <1>11, <1>12 DEF MergeInv, TasksAccounted

\* The critical section: one task less has its merge to come, and its error,
\* if it has a message, is recorded.
LEMMA MergeResultInv ==
    ASSUME MergeInv, NEW s \in Sources, MergeResult(s)
    PROVE  MergeInv'
<1> DEFINE m == MergeOf[s]
<1>1. /\ MergeType /\ alive /\ m \in Merges /\ s \in SourcesOf(m)
      /\ UNCHANGED <<exec, toLaunch, tgroups, terror, running_tasks, context, alive>>
      /\ task[s] = "merge" /\ task' = [task EXCEPT ![s] = "notify"]
      /\ sem' = [sem EXCEPT ![m] = @ - 1] /\ Merged(m, s)
    BY SourceFacts DEF MergeInv, MergeResult
<1>2. /\ task'[s] = "notify" /\ \A r \in Sources \ {s} : task'[r] = task[r]
      /\ Flying' = Flying \cup {s} /\ \A n \in Merges : ToMerge(n)' = ToMerge(n) \ {s}
    BY <1>1, TaskMoves DEF Unmerged, PastMerge, InFlight
<1>3. /\ errors' \in [Merges -> SUBSET Sources] /\ groups' \in [Merges -> [Keys -> Int]]
      /\ \A n \in Merges \ {m} : errors'[n] = errors[n] /\ groups'[n] = groups[n]
      /\ errors[m] \subseteq errors'[m]
      /\ terror[s] = "text" => s \in errors'[m]
  <2>1. Plus(groups[m], tgroups[s]) \in [Keys -> Int]
      BY <1>1 DEF Plus, MergeType
  <2>2. CASE terror[s] # "text" /\ groups' = [groups EXCEPT ![m] = Plus(@, tgroups[s])]
             /\ UNCHANGED errors
      BY <1>1, <2>1, <2>2 DEF MergeType
  <2>3. CASE errors' = [errors EXCEPT ![m] = @ \cup {s}] /\ UNCHANGED groups
      BY <1>1, <2>3 DEF MergeType
  <2> QED
      BY <1>1, <2>2, <2>3 DEF Merged
<1>4. MergeType'
  <2>1. sem' \in [Merges -> Int] /\ task' \in [Sources -> Unmerged \cup PastMerge]
      BY <1>1 DEF MergeType, PastMerge
  <2> QED
      BY <1>1, <1>3, <2>1 DEF MergeType
<1>5. LaunchOK' /\ NestedRests'
    BY <1>1, <1>2 DEF MergeInv, LaunchOK, NestedRests, Nesting
<1>6. SemExact'
  <2>1. s \in ToMerge(m) /\ \A n \in Merges \ {m} : s \notin ToMerge(n)
      BY <1>1 DEF ToMerge, Unmerged, SourcesOf
  <2>2. Cardinality(ToMerge(m)') = Cardinality(ToMerge(m)) - 1
      BY <1>1, <1>2, <2>1, CountedFinite, FS_RemoveElement
  <2>3. \A n \in Merges \ {m} : ToMerge(n)' = ToMerge(n)
      BY <1>2, <2>1
  <2>4. sem'[m] = Cardinality(ToMerge(m)') /\ \A n \in Merges \ {m} : sem'[n] = sem[n]
      BY <1>1, <2>2 DEF MergeInv, SemExact, MergeType
  <2> QED
      BY <1>1, <2>3, <2>4 DEF MergeInv, SemExact
<1>7. RunningTasksExact'
  <2>1. Flying' = Flying
      BY <1>1, <1>2 DEF Flying, InFlight
  <2> QED
      BY <1>1, <2>1 DEF MergeInv, TasksAccounted, RunningTasksExact, Flying
<1>8. ~Returned(m)
    BY <1>1 DEF MergeInv, TasksAccounted, NoMergeAfterReturn
<1>9. NoMergeAfterReturn'
    BY <1>1, <1>2, <1>8 DEF MergeInv, TasksAccounted, NoMergeAfterReturn, Returned
<1>10. \A r \in Sources : Accumulated(r) => Accumulated(r)'
    BY <1>1, <1>3, <1>8, SourceFacts DEF Accumulated, Returned
<1>11. LocalsRight'
  <2>1. \A r \in Sources : /\ task'[r] \in PastMerge \cup {"merge"} => Accumulated(r)'
                           /\ task'[r] \in PastMerge /\ terror[r] = "text" => r \in errors'[MergeOf[r]]
      BY <1>1, <1>2, <1>3, <1>10, SourceFacts DEF MergeInv, LocalsRight
  <2> QED
      BY <1>1, <2>1 DEF LocalsRight
<1>12. EmitsWhatSourcesGave'
    BY <1>1, <1>3, <1>8, <1>10 DEF MergeInv, EmitsWhatSourcesGave, SourcesOf, Returned
<1> QED
    BY <1>4, <1>5, <1>6, <1>7, <1>9, <1>11, <1>12 DEF MergeInv, TasksAccounted

\* A task leaves with something that is no std::exception: its slot is given
\* back, and the process is over.
LEMMA ThrowInv ==
    ASSUME MergeInv, NEW s \in Sources, Throw(s)
    PROVE  MergeInv'
<1>1. /\ MergeType /\ alive' = FALSE
      /\ UNCHANGED <<toLaunch, sem, errors, groups, tgroups, terror, context>>
      /\ task[s] = "run" /\ task' = [task EXCEPT ![s] = "done"]
      /\ running_tasks' = running_tasks - 1
      /\ exec' = [m \in Merges |-> IF exec[m] = "blocked" THEN "launch" ELSE exec[m]]
    BY DEF MergeInv, Throw, ReleaseSlot
<1>2. /\ task'[s] = "done" /\ \A r \in Sources \ {s} : task'[r] = task[r]
      /\ Flying' = Flying \ {s}
    BY <1>1, TaskMoves DEF PastMerge, InFlight
<1>3. \A m \in Merges : /\ exec'[m] = "emitted" <=> exec[m] = "emitted"
                        /\ Returned(m)' <=> Returned(m)
                        /\ exec'[m] = "idle" <=> exec[m] = "idle"
    BY <1>1 DEF MergeType, Returned
<1>4. MergeType'
  <2>1. running_tasks' \in Int
      BY <1>1 DEF MergeType
  <2>2. alive' \in BOOLEAN
      BY <1>1
  <2>3. exec' \in [Merges -> ExecStates] /\ task' \in [Sources -> Unmerged \cup PastMerge]
      BY <1>1 DEF MergeType, ExecStates, PastMerge
  <2> QED
      BY <1>1, <2>1, <2>2, <2>3 DEF MergeType
<1>5. LaunchOK'
    BY <1>1, <1>2 DEF MergeInv, LaunchOK
<1>6. NestedRests'
    BY <1>1, <1>2, <1>3, SourceFacts DEF MergeInv, NestedRests, Nesting
<1>7. SemExact' /\ LocalsRight'
    BY <1>1 DEF SemExact, LocalsRight
<1>8. RunningTasksExact'
  <2> SUFFICES ASSUME context = "live"
               PROVE  running_tasks' = 1 + Cardinality(Flying') /\ running_tasks' <= MaxTasks
      BY <1>1 DEF RunningTasksExact, Flying
  <2>1. running_tasks = 1 + Cardinality(Flying) /\ running_tasks <= MaxTasks
      BY DEF MergeInv, TasksAccounted, RunningTasksExact, Flying
  <2>2. s \in Flying
      BY <1>1 DEF Flying, InFlight
  <2>3. Cardinality(Flying') = Cardinality(Flying) - 1 /\ Cardinality(Flying) \in Nat
      BY <1>2, <2>2, CountedFinite, FS_RemoveElement, FS_CardinalityType
  <2> QED
      BY <1>1, <2>1, <2>3, MergeAssumption
<1>9. NoMergeAfterReturn'
    BY <1>2, <1>3, SourceFacts DEF MergeInv, TasksAccounted, NoMergeAfterReturn
<1>10. \A r \in Sources : Accumulated(r) => Accumulated(r)'
    BY <1>1, <1>3, SourceFacts DEF Accumulated
<1>11. EmitsWhatSourcesGave'
    BY <1>1, <1>3, <1>10 DEF MergeInv, EmitsWhatSourcesGave, SourcesOf
<1> QED
    BY <1>4, <1>5, <1>6, <1>7, <1>8, <1>9, <1>11 DEF MergeInv, TasksAccounted

-----------------------------------------------------------------------------
\* Every step keeps the invariant.
LEMMA NextInv == MergeInv /\ [Next]_vars => MergeInv'
    BY WaitsInv, RunAsyncInv, FinishInv, TaskStepsInv, AccumulateInv, MergeResultInv, ThrowInv
    DEF Next

\* All of it holds in every reachable state of every query.
THEOREM GroupByInvariant == Spec => []MergeInv
    BY InitInv, NextInv, PTL DEF Spec

\* For every tree of merges, every number of sources and every limit: the
\* context's counter is exact and within its limit, and when execute() returns
\* none of its tasks has its critical section still to come.
THEOREM GroupByTasksAccounted == Spec => []TasksAccounted
<1>1. MergeInv => TasksAccounted
    BY DEF MergeInv
<1> QED
    BY <1>1, GroupByInvariant, PTL

\* No error with a message is lost at any level, and no source's groups are
\* replaced between accumulate() and the emission: a merge that emits has been
\* given, by each source without an error, just what it scanned or what the
\* merge inside of it has emitted.
THEOREM GroupByLosesNoError == Spec => []EmitsWhatSourcesGave
<1>1. MergeInv => EmitsWhatSourcesGave
    BY DEF MergeInv
<1> QED
    BY <1>1, GroupByInvariant, PTL

-----------------------------------------------------------------------------
(* Sums over finite sets.  What the fold computes is shown for the least   *)
(* set that it might be wrong for.                                         *)

Pick(s) == CHOOSE x \in s : TRUE

\* A set of numbers has a least one.
LEMMA LeastNumber ==
    ASSUME NEW S, S # {}, S \subseteq Nat
    PROVE  \E m \in S : \A n \in S : m <= n
<1> DEFINE R == {p \in Nat \X Nat : p[1] < p[2]}
<1>1. IsWellFoundedOn(R, Nat)
    BY NatLessThanWellFounded, Zenon DEF OpToRel
<1> HIDE DEF R
<1>2. PICK m \in S : \A n \in S : ~(<<n, m>> \in R)
    BY <1>1, WFMin
<1>3. \A n \in S : ~(n < m)
    BY <1>2 DEF R
<1> QED
    BY <1>3

\* The table of the sums of f over the subsets of S.
Next1(f, it, s) == IF s = {} THEN 0 ELSE f[Pick(s)] + it[s \ {Pick(s)}]
Table(f, S, it) == it = [s \in SUBSET S |-> Next1(f, it, s)]

\* The fold of the library takes its value from such a table.
LEMMA SumIsTable ==
    ASSUME NEW f, NEW S
    PROVE  SumFunctionOnSet(f, S) = (CHOOSE it : Table(f, S, it))[S]
    BY DEF SumFunctionOnSet, FoldFunctionOnSet, MapThenFoldSet, Table, Next1, Pick

\* A set without one of its members is smaller.
LEMMA Smaller ==
    ASSUME NEW S, IsFiniteSet(S), S # {}
    PROVE  /\ Pick(S) \in S /\ IsFiniteSet(S \ {Pick(S)})
           /\ Cardinality(S) \in Nat \ {0}
           /\ Cardinality(S \ {Pick(S)}) = Cardinality(S) - 1
<1>1. Pick(S) \in S
    BY DEF Pick
<1>2. Cardinality(S) \in Nat /\ Cardinality(S) # 0
    BY FS_CardinalityType, FS_EmptySet
<1> QED
    BY <1>1, <1>2, FS_RemoveElement

\* There is a table, of numbers, for every finite set.
LEMMA TableExists ==
    ASSUME NEW D, NEW f \in [D -> Int], NEW S, IsFiniteSet(S), S \subseteq D
    PROVE  \E it \in [SUBSET S -> Int] : Table(f, S, it)
<1> DEFINE Upto(n, g) == \A s \in SUBSET S : Cardinality(s) <= n => g[s] = Next1(f, g, s)
           Missing == {n \in Nat : ~\E g \in [SUBSET S -> Int] : Upto(n, g)}
<1>1. \A s \in SUBSET S : IsFiniteSet(s) /\ Cardinality(s) \in Nat /\ (Cardinality(s) = 0 => s = {})
    BY FS_Subset, FS_CardinalityType, FS_EmptySet
<1>2. \A g \in [SUBSET S -> Int] : \A s \in SUBSET S : Next1(f, g, s) \in Int
    BY DEF Next1, Pick
<1>3. 0 \notin Missing
  <2>1. [s \in SUBSET S |-> 0] \in [SUBSET S -> Int]
      OBVIOUS
  <2>2. Upto(0, [s \in SUBSET S |-> 0])
      BY <1>1 DEF Next1
  <2> QED
      BY <2>1, <2>2
<1>4. ASSUME NEW n \in Nat, n \notin Missing
      PROVE  n + 1 \notin Missing
  <2>1. PICK g \in [SUBSET S -> Int] : Upto(n, g)
      BY <1>4
  <2>2. PICK h : h = [s \in SUBSET S |-> Next1(f, g, s)]
      OBVIOUS
  <2>3. h \in [SUBSET S -> Int]
      BY <1>2, <2>1, <2>2
  <2>4. \A s \in SUBSET S : Cardinality(s) <= n => h[s] = g[s]
      BY <2>1, <2>2
  <2>5. ASSUME NEW s \in SUBSET S, Cardinality(s) <= n + 1
        PROVE  h[s] = Next1(f, h, s)
    <3>1. CASE s = {}
        BY <2>2, <3>1 DEF Next1
    <3>2. CASE s # {}
      <4>1. s \ {Pick(s)} \in SUBSET S /\ Cardinality(s \ {Pick(s)}) <= n
          BY <1>1, <2>5, <3>2, Smaller
      <4>2. h[s \ {Pick(s)}] = g[s \ {Pick(s)}]
          BY <2>4, <4>1
      <4> QED
          BY <2>2, <3>2, <4>2 DEF Next1
    <3> QED
        BY <3>1, <3>2
  <2> QED
      BY <2>3, <2>5
<1>5. Missing = {}
  <2>1. SUFFICES ASSUME Missing # {} PROVE FALSE
      OBVIOUS
  <2>2. Missing \subseteq Nat
      OBVIOUS
  <2> HIDE DEF Missing
  <2>3. PICK m \in Missing : \A n \in Missing : m <= n
      BY <2>1, <2>2, LeastNumber
  <2>4. m \in Nat /\ m # 0
      BY <1>3, <2>2, <2>3
  <2>5. m - 1 \in Nat /\ m - 1 \notin Missing /\ (m - 1) + 1 = m
      BY <2>2, <2>3, <2>4
  <2> QED
      BY <1>4, <2>3, <2>5
<1>6. PICK g \in [SUBSET S -> Int] : Upto(Cardinality(S), g)
    BY <1>1, <1>5
<1>7. \A s \in SUBSET S : Cardinality(s) <= Cardinality(S)
    BY FS_Subset
<1>8. Table(f, S, g)
    BY <1>6, <1>7 DEF Table
<1> QED
    BY <1>6, <1>8

\* The tables of two sets agree on what they share.
LEMMA TablesAgree ==
    ASSUME NEW f, NEW S, NEW T, NEW g, NEW h, Table(f, S, g), Table(f, T, h),
           NEW U, IsFiniteSet(U), U \subseteq S, U \subseteq T
    PROVE  g[U] = h[U]
<1> DEFINE Wrong == {n \in Nat : \E s \in SUBSET U : Cardinality(s) = n /\ g[s] # h[s]}
<1>1. \A s \in SUBSET U : IsFiniteSet(s) /\ Cardinality(s) \in Nat
    BY FS_Subset, FS_CardinalityType
<1>2. \A s \in SUBSET U : g[s] = Next1(f, g, s) /\ h[s] = Next1(f, h, s)
    BY DEF Table
<1>3. ASSUME Wrong # {} PROVE FALSE
  <2>1. PICK m \in Wrong : \A n \in Wrong : m <= n
      BY <1>3, LeastNumber
  <2>2. PICK s \in SUBSET U : Cardinality(s) = m /\ g[s] # h[s]
      BY <2>1
  <2>3. s # {}
      BY <1>2, <2>2 DEF Next1
  <2>4. s \ {Pick(s)} \in SUBSET U /\ Cardinality(s \ {Pick(s)}) = m - 1 /\ m - 1 \in Nat
      BY <1>1, <2>2, <2>3, Smaller
  <2>5. m - 1 \notin Wrong
      BY <2>1, <2>4
  <2>6. g[s \ {Pick(s)}] = h[s \ {Pick(s)}]
      BY <2>4, <2>5
  <2> QED
      BY <1>2, <2>2, <2>3, <2>6 DEF Next1
<1> QED
    BY <1>1, <1>3

\* The equations of the sum, with the member that CHOOSE takes.
LEMMA SumUnfolds ==
    ASSUME NEW D, NEW f \in [D -> Int], NEW S, IsFiniteSet(S), S \subseteq D
    PROVE  /\ SumFunctionOnSet(f, S) \in Int
           /\ S = {} => SumFunctionOnSet(f, S) = 0
           /\ S # {} => SumFunctionOnSet(f, S) = f[Pick(S)] + SumFunctionOnSet(f, S \ {Pick(S)})
<1>1. ASSUME NEW T, IsFiniteSet(T), T \subseteq D
      PROVE  \E it \in [SUBSET T -> Int] : Table(f, T, it) /\ SumFunctionOnSet(f, T) = it[T]
  <2>1. PICK g \in [SUBSET T -> Int] : Table(f, T, g)
      BY <1>1, TableExists
  <2>2. PICK h : h = CHOOSE it : Table(f, T, it)
      OBVIOUS
  <2>3. Table(f, T, h)
      BY <2>1, <2>2
  <2>4. SumFunctionOnSet(f, T) = h[T]
      BY <2>2, SumIsTable
  <2>5. g[T] = h[T]
      BY <1>1, <2>1, <2>3, TablesAgree
  <2> QED
      BY <2>1, <2>4, <2>5
<1>2. PICK g \in [SUBSET S -> Int] : Table(f, S, g) /\ SumFunctionOnSet(f, S) = g[S]
    BY <1>1
<1>3. g[S] = Next1(f, g, S)
    BY <1>2 DEF Table
<1>4. ASSUME S # {}
      PROVE  SumFunctionOnSet(f, S) = f[Pick(S)] + SumFunctionOnSet(f, S \ {Pick(S)})
  <2>1. PICK T : T = S \ {Pick(S)}
      OBVIOUS
  <2>2. IsFiniteSet(T) /\ T \subseteq S
      BY <1>4, <2>1, Smaller
  <2>3. PICK h \in [SUBSET T -> Int] : Table(f, T, h) /\ SumFunctionOnSet(f, T) = h[T]
      BY <1>1, <2>2
  <2>4. g[T] = h[T]
      BY <1>2, <2>2, <2>3, TablesAgree
  <2> QED
      BY <1>2, <1>3, <1>4, <2>1, <2>3, <2>4 DEF Next1
<1> QED
    BY <1>2, <1>3, <1>4 DEF Next1

\* Any member can be taken first.
LEMMA SumRemoves ==
    ASSUME NEW D, NEW f \in [D -> Int], NEW S, IsFiniteSet(S), S \subseteq D, NEW x \in S
    PROVE  SumFunctionOnSet(f, S) = f[x] + SumFunctionOnSet(f, S \ {x})
<1> DEFINE Sum(s) == SumFunctionOnSet(f, s)
           Wrong == {n \in Nat : \E s \in SUBSET S : Cardinality(s) = n /\
                                   \E y \in s : Sum(s) # f[y] + Sum(s \ {y})}
<1>1. \A s \in SUBSET S : IsFiniteSet(s) /\ Cardinality(s) \in Nat /\ s \subseteq D
    BY FS_Subset, FS_CardinalityType
<1>2. ASSUME NEW s \in SUBSET S
      PROVE  Sum(s) \in Int /\ (s # {} => Sum(s) = f[Pick(s)] + Sum(s \ {Pick(s)}))
    BY <1>1, SumUnfolds
<1>3. \A y \in S : f[y] \in Int
    OBVIOUS
<1>4. ASSUME Wrong # {} PROVE FALSE
  <2>1. PICK m \in Wrong : \A n \in Wrong : m <= n
      BY <1>4, LeastNumber
  <2>2. PICK s \in SUBSET S : Cardinality(s) = m /\ \E y \in s : Sum(s) # f[y] + Sum(s \ {y})
      BY <2>1
  <2>3. PICK y \in s : Sum(s) # f[y] + Sum(s \ {y})
      BY <2>2
  <2>4. PICK p : p = Pick(s)
      OBVIOUS
  <2>5. p \in s /\ Sum(s) = f[p] + Sum(s \ {p}) /\ p # y
      BY <1>1, <1>2, <2>2, <2>3, <2>4, Smaller
  <2>6. /\ Cardinality(s \ {p}) = m - 1 /\ Cardinality(s \ {y}) = m - 1 /\ m - 1 \in Nat
        /\ s \ {p} \in SUBSET S /\ s \ {y} \in SUBSET S /\ y \in s \ {p} /\ p \in s \ {y}
      BY SMTT(30), <1>1, <2>2, <2>3, <2>4, <2>5, Smaller, FS_RemoveElement
  <2>7. m - 1 \notin Wrong
      BY <2>1, <2>6
  <2>8. Sum(s \ {p}) = f[y] + Sum((s \ {p}) \ {y})
      BY <2>6, <2>7
  <2>9. Sum(s \ {y}) = f[p] + Sum((s \ {y}) \ {p})
      BY <2>6, <2>7
  <2>10. PICK z : z = (s \ {p}) \ {y}
      OBVIOUS
  <2>11. z = (s \ {y}) \ {p} /\ z \in SUBSET S
      BY <2>10
  <2>12. f[p] \in Int /\ f[y] \in Int /\ Sum(z) \in Int
      BY <1>2, <1>3, <2>2, <2>3, <2>5, <2>11
  <2>13. Sum(s \ {p}) = f[y] + Sum(z) /\ Sum(s \ {y}) = f[p] + Sum(z)
      BY <2>8, <2>9, <2>10, <2>11
  <2> QED
      BY <2>3, <2>5, <2>12, <2>13
<1> QED
    BY <1>1, <1>4

\* The sum is that of two parts.
LEMMA SumUnion ==
    ASSUME NEW D, NEW f \in [D -> Int], NEW A, NEW B, IsFiniteSet(A), IsFiniteSet(B),
           A \subseteq D, B \subseteq D, A \cap B = {}
    PROVE  SumFunctionOnSet(f, A \cup B) = SumFunctionOnSet(f, A) + SumFunctionOnSet(f, B)
<1> DEFINE Sum(s) == SumFunctionOnSet(f, s)
           Wrong == {n \in Nat : \E s \in SUBSET B : Cardinality(s) = n /\ Sum(A \cup s) # Sum(A) + Sum(s)}
<1>1. \A s \in SUBSET B : IsFiniteSet(s) /\ Cardinality(s) \in Nat /\ s \subseteq D
    BY FS_Subset, FS_CardinalityType
<1>2. \A s \in SUBSET B : IsFiniteSet(A \cup s)
    BY <1>1, FS_Union
<1>3. Sum(A) \in Int /\ (\A s \in SUBSET B : Sum(s) \in Int /\ Sum(A \cup s) \in Int) /\ Sum({}) = 0
    BY <1>1, <1>2, SumUnfolds, FS_EmptySet
<1>4. ASSUME Wrong # {} PROVE FALSE
  <2>1. PICK m \in Wrong : \A n \in Wrong : m <= n
      BY <1>4, LeastNumber
  <2>2. PICK s \in SUBSET B : Cardinality(s) = m /\ Sum(A \cup s) # Sum(A) + Sum(s)
      BY <2>1
  <2>3. s # {}
    <3>1. A \cup {} = A
        OBVIOUS
    <3>2. Sum(A \cup {}) = Sum(A) + Sum({})
        BY <1>3, <3>1
    <3> QED
        BY <2>2, <3>2
  <2>4. PICK p : p = Pick(s)
      OBVIOUS
  <2>5. p \in s /\ Cardinality(s \ {p}) = m - 1 /\ m - 1 \in Nat /\ s \ {p} \in SUBSET B
      BY <1>1, <2>2, <2>3, <2>4, Smaller
  <2>6. m - 1 \notin Wrong
      BY <2>1, <2>5
  <2>7. Sum(A \cup (s \ {p})) = Sum(A) + Sum(s \ {p})
      BY <2>5, <2>6
  <2>8. (A \cup s) \ {p} = A \cup (s \ {p})
      BY <2>5
  <2>9. Sum(A \cup s) = f[p] + Sum(A \cup (s \ {p}))
    <3>1. PICK t : t = A \cup s
        OBVIOUS
    <3>2. IsFiniteSet(t) /\ t \subseteq D /\ p \in t
        BY <1>1, <1>2, <2>5, <3>1
    <3>3. Sum(t) = f[p] + Sum(t \ {p})
        BY <3>2, SumRemoves
    <3> QED
        BY <2>8, <3>1, <3>3
  <2>10. Sum(s) = f[p] + Sum(s \ {p})
      BY <1>1, <2>5, SumRemoves
  <2>11. f[p] \in Int
      BY <2>5
  <2>12. Sum(s \ {p}) \in Int /\ Sum(A) \in Int
      BY <1>3, <2>5
  <2> QED
      BY <2>2, <2>7, <2>9, <2>10, <2>11, <2>12
<1> QED
    BY <1>1, <1>4

\* Equal numbers have equal sums.
LEMMA SumEqual ==
    ASSUME NEW D, NEW f \in [D -> Int], NEW E, NEW g \in [E -> Int], NEW S, IsFiniteSet(S),
           S \subseteq D, S \subseteq E, \A x \in S : f[x] = g[x]
    PROVE  SumFunctionOnSet(f, S) = SumFunctionOnSet(g, S)
<1> DEFINE Wrong == {n \in Nat : \E s \in SUBSET S : Cardinality(s) = n /\
                                   SumFunctionOnSet(f, s) # SumFunctionOnSet(g, s)}
<1>1. \A s \in SUBSET S : IsFiniteSet(s) /\ Cardinality(s) \in Nat /\ s \subseteq D /\ s \subseteq E
    BY FS_Subset, FS_CardinalityType
<1>2. \A s \in SUBSET S :
        /\ SumFunctionOnSet(f, s) = IF s = {} THEN 0 ELSE f[Pick(s)] + SumFunctionOnSet(f, s \ {Pick(s)})
        /\ SumFunctionOnSet(g, s) = IF s = {} THEN 0 ELSE g[Pick(s)] + SumFunctionOnSet(g, s \ {Pick(s)})
    BY <1>1, SumUnfolds
<1>3. ASSUME Wrong # {} PROVE FALSE
  <2>1. PICK m \in Wrong : \A n \in Wrong : m <= n
      BY <1>3, LeastNumber
  <2>2. PICK s \in SUBSET S : Cardinality(s) = m /\ SumFunctionOnSet(f, s) # SumFunctionOnSet(g, s)
      BY <2>1
  <2>3. s # {}
      BY <1>2, <2>2
  <2>4. PICK p : p = Pick(s)
      OBVIOUS
  <2>5. p \in s /\ Cardinality(s \ {p}) = m - 1 /\ m - 1 \in Nat /\ s \ {p} \in SUBSET S
      BY <1>1, <2>2, <2>3, <2>4, Smaller
  <2>6. m - 1 \notin Wrong
      BY <2>1, <2>5
  <2>7. SumFunctionOnSet(f, s \ {p}) = SumFunctionOnSet(g, s \ {p})
      BY <2>5, <2>6
  <2> QED
      BY <1>2, <2>2, <2>3, <2>4, <2>5, <2>7
<1> QED
    BY <1>1, <1>3

-----------------------------------------------------------------------------
(* What a merge has emitted *)

\* What the tasks of a merge have handed to it.
Given(k)      == [s \in Sources |-> tgroups[s][k]]
MergedInto(m) == {s \in SourcesOf(m) \ errors[m] : task[s] \in PastMerge}

\* A task without an error that anybody would see; the merge inside of it
\* has returned without one too.
Clean(s) ==
    /\ terror[s] # "text"
    /\ s \in Nesting => Returned(NestedIn[s]) /\ errors[NestedIn[s]] = {}

ErrorsMerged == \A m \in Merges : errors[m] \subseteq {s \in SourcesOf(m) : task[s] \in PastMerge}

GroupsAddUp ==
    /\ alive => \A m \in Merges, k \in Keys :
                  groups[m][k] = SumFunctionOnSet(Given(k), MergedInto(m))
    /\ \A m \in Merges : exec[m] = "emitted" =>
         \A k \in Keys : groups[m][k] = SumFunctionOnSet(Given(k), SourcesOf(m))

ReturnsClean ==
    /\ \A m \in Merges : Returned(m) /\ errors[m] = {} => \A s \in SourcesOf(m) : Clean(s)
    /\ alive => \A s \in Sources :
         task[s] \in PastMerge \cup {"merge"} => Clean(s) \/ terror[s] = "text"

SumInv == ErrorsMerged /\ GroupsAddUp /\ ReturnsClean

\* The rows that the sources gave are numbers, and the sets are finite.
LEMMA GivenFacts ==
    ASSUME MergeType
    PROVE  /\ \A k \in Keys : Given(k) \in [Sources -> Int]
           /\ \A m \in Merges : /\ SourcesOf(m) \subseteq Sources /\ IsFiniteSet(SourcesOf(m))
                                /\ MergedInto(m) \subseteq Sources /\ IsFiniteSet(MergedInto(m))
<1>1. \A m \in Merges : SourcesOf(m) \subseteq Sources /\ MergedInto(m) \subseteq SourcesOf(m)
    BY DEF SourcesOf, MergedInto
<1> QED
    BY <1>1, CountedFinite, FS_Subset DEF MergeType, Given

\* What the sums are taken over stays as it is when results do.
LEMMA SumsKept ==
    ASSUME MergeInv, SumInv, UNCHANGED <<errors, groups, tgroups, terror>>, alive' => alive,
           \A m \in Merges : /\ exec'[m] = "emitted" <=> exec[m] = "emitted"
                             /\ Returned(m)' <=> Returned(m),
           \A s \in Sources : task[s] \in PastMerge => task'[s] \in PastMerge,
           alive' => \A s \in Sources : /\ task'[s] \in PastMerge <=> task[s] \in PastMerge
                                        /\ task'[s] = "merge" <=> task[s] = "merge"
    PROVE  SumInv'
<1>1. \A s \in Sources : Clean(s)' <=> Clean(s)
    BY SourceFacts DEF Clean, Nesting
<1>2. \A k \in Keys : Given(k)' = Given(k)
    BY DEF Given
<1>3. alive' => \A m \in Merges : MergedInto(m)' = MergedInto(m)
    BY DEF MergedInto, SourcesOf
<1>4. ErrorsMerged'
    BY DEF SumInv, ErrorsMerged, SourcesOf
<1>5. GroupsAddUp'
    BY <1>2, <1>3 DEF SumInv, GroupsAddUp, SourcesOf
<1>6. ReturnsClean'
    BY <1>1 DEF SumInv, ReturnsClean, SourcesOf
<1> QED
    BY <1>4, <1>5, <1>6 DEF SumInv

\* No result changes before a task accumulates or merges.
LEMMA QuietSums ==
    ASSUME MergeInv, SumInv,
           \/ \E m \in Merges : RunAsync(m) \/ RunAsyncBlocks(m) \/ WaitForTasks(m) \/ SpuriousWakeup(m)
           \/ QueryReturns \/ UNCHANGED vars
           \/ \E s \in Sources : StartTask(s) \/ EnterNested(s) \/ Notify(s) \/ Release(s) \/ Throw(s)
    PROVE  SumInv'
<1>1. CASE \/ \E m \in Merges : RunAsyncBlocks(m) \/ WaitForTasks(m) \/ SpuriousWakeup(m)
           \/ QueryReturns \/ UNCHANGED vars
  <2>1. UNCHANGED <<errors, groups, tgroups, terror, task, alive>>
      BY <1>1 DEF RunAsyncBlocks, WaitForTasks, SpuriousWakeup, QueryReturns, vars, mergeVars, taskVars
  <2>2. \/ exec' = exec
        \/ \E m \in Merges : \E l \in {"launch", "blocked", "wait", "asleep"} :
              /\ exec[m] \in {"launch", "blocked", "wait", "asleep"}
              /\ exec' = [exec EXCEPT ![m] = l]
      BY <1>1 DEF RunAsyncBlocks, WaitForTasks, SpuriousWakeup, QueryReturns, vars, mergeVars
  <2>3. \A m \in Merges : /\ exec'[m] = "emitted" <=> exec[m] = "emitted"
                          /\ Returned(m)' <=> Returned(m)
      BY <2>2 DEF MergeInv, MergeType, Returned
  <2> QED
      BY <2>1, <2>3, SumsKept
<1>2. ASSUME NEW m \in Merges, RunAsync(m)
      PROVE  SumInv'
  <2>1. PICK s \in toLaunch[m] : task' = [task EXCEPT ![s] = "queued"]
      BY <1>2 DEF RunAsync
  <2>2. /\ exec[m] = "launch" /\ UNCHANGED <<errors, groups, tgroups, terror, alive>>
        /\ exec' = [exec EXCEPT ![m] = "wait"] \/ exec' = [exec EXCEPT ![m] = "launch"]
      BY <1>2 DEF RunAsync
  <2>3. s \in Sources /\ task[s] = "none"
      BY <2>1, <1>2, SourceFacts DEF MergeInv, LaunchOK, SourcesOf
  <2>4. \A n \in Merges : /\ exec'[n] = "emitted" <=> exec[n] = "emitted"
                          /\ Returned(n)' <=> Returned(n)
      BY <2>2 DEF MergeInv, MergeType, Returned
  <2>5. \A r \in Sources : /\ task'[r] \in PastMerge <=> task[r] \in PastMerge
                           /\ task'[r] = "merge" <=> task[r] = "merge"
      BY <2>1, <2>3 DEF MergeInv, MergeType, PastMerge
  <2> QED
      BY <2>2, <2>4, <2>5, SumsKept
<1>3. ASSUME NEW s \in Sources, StartTask(s) \/ EnterNested(s) \/ Notify(s) \/ Release(s) \/ Throw(s)
      PROVE  SumInv'
  <2>1. MergeType /\ alive /\ UNCHANGED <<errors, groups, tgroups, terror>>
      BY <1>3 DEF MergeInv, StartTask, EnterNested, Notify, Release, Throw, mergeVars
  <2>2. PICK l \in {"run", "nested", "release", "done"} :
           /\ task' = [task EXCEPT ![s] = l]
           /\ \/ task[s] = "queued" /\ l = "run"
              \/ task[s] = "run" /\ l = "nested"
              \/ task[s] = "notify" /\ l = "release"
              \/ task[s] = "release" /\ l = "done"
              \/ task[s] = "run" /\ l = "done" /\ ~alive'
      BY <1>3 DEF StartTask, EnterNested, Notify, Release, Throw
  <2>3. \A r \in Sources : /\ task[r] \in PastMerge => task'[r] \in PastMerge
                           /\ alive' => /\ task'[r] \in PastMerge <=> task[r] \in PastMerge
                                        /\ task'[r] = "merge" <=> task[r] = "merge"
      BY <2>1, <2>2 DEF MergeType, PastMerge
  <2>4. \A m \in Merges : /\ exec'[m] = "emitted" <=> exec[m] = "emitted"
                          /\ Returned(m)' <=> Returned(m)
    <3>1. CASE StartTask(s)
        BY <2>1, <3>1 DEF StartTask, mergeVars, MergeType, Returned
    <3>2. CASE EnterNested(s)
      <4>1. s \in Nesting /\ exec[NestedIn[s]] = "idle" /\ NestedIn[s] \in Merges
          BY <3>2, SourceFacts DEF EnterNested, MergeInv, NestedRests
      <4> QED
          BY <2>1, <3>2, <4>1 DEF EnterNested, MergeType, Returned
    <3>3. CASE Notify(s)
      <4>1. \/ exec' = exec
            \/ exec[MergeOf[s]] = "asleep" /\ exec' = [exec EXCEPT ![MergeOf[s]] = "wait"]
          BY <3>3 DEF Notify
      <4> QED
          BY <2>1, <4>1, SourceFacts DEF MergeType, Returned
    <3>4. CASE Release(s) \/ Throw(s)
        BY ZenonT(40), <2>1, <3>4 DEF Release, Throw, ReleaseSlot, MergeType, Returned
    <3> QED
        BY <1>3, <3>1, <3>2, <3>3, <3>4
  <2> QED
      BY <2>1, <2>3, <2>4, SumsKept
<1> QED
    BY <1>1, <1>2, <1>3

\* Nothing of a merge is to come when it emits.
LEMMA FinishSums ==
    ASSUME MergeInv, SumInv, NEW m \in Merges, Finish(m)
    PROVE  SumInv'
<1>1. /\ MergeType /\ alive /\ exec[m] = "wait" /\ sem[m] = 0
      /\ UNCHANGED <<errors, groups, tgroups, terror, task, alive>>
    BY DEF MergeInv, Finish, taskVars
<1>2. PICK l \in {"emitted", "raised"} :
         exec' = [exec EXCEPT ![m] = l] /\ (l = "emitted" => errors[m] = {})
    BY DEF Finish
<1>3. exec'[m] = l /\ \A n \in Merges \ {m} : exec'[n] = exec[n]
    BY <1>1, <1>2 DEF MergeType
<1>4. ToMerge(m) = {}
  <2>1. Cardinality(ToMerge(m)) = 0
      BY <1>1 DEF MergeInv, SemExact
  <2> QED
      BY <2>1, CountedFinite, FS_EmptySet
<1>5. \A s \in SourcesOf(m) : s \in Sources /\ task[s] \in PastMerge
    BY <1>1, <1>4 DEF MergeType, ToMerge, SourcesOf
<1>6. \A k \in Keys : Given(k)' = Given(k)
    BY <1>1 DEF Given
<1>7. \A n \in Merges : MergedInto(n)' = MergedInto(n)
    BY <1>1 DEF MergedInto, SourcesOf
<1>8. errors[m] = {} => MergedInto(m) = SourcesOf(m)
    BY <1>5 DEF MergedInto
<1>9. \A s \in Sources : Clean(s) => Clean(s)'
    BY <1>1, <1>3, SourceFacts DEF Clean, Returned
<1>10. ErrorsMerged'
    BY <1>1 DEF SumInv, ErrorsMerged, SourcesOf
<1>11. GroupsAddUp'
    BY <1>1, <1>2, <1>3, <1>6, <1>7, <1>8 DEF SumInv, GroupsAddUp, SourcesOf
<1>12. ReturnsClean'
  <2>1. ASSUME errors[m] = {}, NEW s \in SourcesOf(m)
        PROVE  Clean(s)
    <3>1. s \in Sources /\ MergeOf[s] = m /\ task[s] \in PastMerge
        BY <1>5 DEF SourcesOf
    <3>2. terror[s] # "text"
        BY <1>1, <2>1, <3>1 DEF MergeInv, LocalsRight
    <3> QED
        BY <1>1, <3>1, <3>2 DEF SumInv, ReturnsClean
  <2>2. \A n \in Merges : Returned(n)' /\ errors'[n] = {} => \A s \in SourcesOf(n) : Clean(s)'
      BY <1>1, <1>3, <1>9, <2>1 DEF SumInv, ReturnsClean, Returned, SourcesOf
  <2> QED
      BY <1>1, <1>9, <2>2 DEF SumInv, ReturnsClean, SourcesOf
<1> QED
    BY <1>10, <1>11, <1>12 DEF SumInv

\* The rows of a task count only after they are merged.
LEMMA AccumulateSums ==
    ASSUME MergeInv, SumInv, MergeInv', NEW s \in Sources, Accumulate(s) \/ LeaveNested(s)
    PROVE  SumInv'
<1>1. /\ MergeType /\ alive /\ UNCHANGED <<exec, errors, groups, alive>>
      /\ task[s] \in {"run", "nested"} /\ task' = [task EXCEPT ![s] = "merge"]
    BY DEF MergeInv, Accumulate, LeaveNested, mergeVars
<1>2. task'[s] = "merge" /\ \A r \in Sources \ {s} : task'[r] = task[r]
    BY <1>1 DEF MergeType
<1>3. \A r \in Sources \ {s} : tgroups'[r] = tgroups[r] /\ terror'[r] = terror[r]
  <2>1. \/ UNCHANGED terror \/ \E e \in {"text"} \cup FailMessages : terror' = [terror EXCEPT ![s] = e]
      BY DEF Accumulate, LeaveNested, Broken
  <2>2. \/ UNCHANGED tgroups \/ \E g : tgroups' = [tgroups EXCEPT ![s] = g]
    <3>1. CASE \E rows : Broken(s, rows)
        BY <3>1 DEF Broken
    <3>2. CASE ~\E rows : Broken(s, rows)
        BY <3>2 DEF Accumulate, LeaveNested
    <3> QED
        BY <3>1, <3>2
  <2> QED
      BY <1>1, <2>1, <2>2 DEF MergeType
<1>4. ~Returned(MergeOf[s]) /\ MergeOf[s] \in Merges
    BY <1>1, SourceFacts DEF MergeInv, TasksAccounted, NoMergeAfterReturn
<1>5. \A m \in Merges : MergedInto(m)' = MergedInto(m) /\ s \notin MergedInto(m)
    BY <1>1, <1>2 DEF MergedInto, SourcesOf, PastMerge
<1>6. MergeType'
    BY DEF MergeInv
<1>7. ASSUME NEW m \in Merges, NEW k \in Keys
      PROVE  /\ SumFunctionOnSet(Given(k)', MergedInto(m)) = SumFunctionOnSet(Given(k), MergedInto(m))
             /\ s \notin SourcesOf(m) =>
                  SumFunctionOnSet(Given(k)', SourcesOf(m)) = SumFunctionOnSet(Given(k), SourcesOf(m))
  <2>1. PICK f, g : f = Given(k) /\ g = Given(k)'
      OBVIOUS
  <2>2. f \in [Sources -> Int]
      BY <1>1, <2>1, GivenFacts
  <2>3. g \in [Sources -> Int]
      BY <1>6, <2>1 DEF Given, MergeType
  <2>4. \A r \in Sources \ {s} : f[r] = g[r]
      BY <1>3, <2>1 DEF Given
  <2>5. /\ SourcesOf(m) \subseteq Sources /\ IsFiniteSet(SourcesOf(m))
        /\ MergedInto(m) \subseteq Sources /\ IsFiniteSet(MergedInto(m))
      BY <1>1, GivenFacts
  <2>6. SumFunctionOnSet(f, MergedInto(m)) = SumFunctionOnSet(g, MergedInto(m))
      BY <1>5, <2>2, <2>3, <2>4, <2>5, SumEqual
  <2>7. s \notin SourcesOf(m) => SumFunctionOnSet(f, SourcesOf(m)) = SumFunctionOnSet(g, SourcesOf(m))
      BY <2>2, <2>3, <2>4, <2>5, SumEqual
  <2> QED
      BY <2>1, <2>6, <2>7
<1>8. ErrorsMerged'
    BY <1>1, <1>2 DEF SumInv, ErrorsMerged, SourcesOf, PastMerge
<1>9. GroupsAddUp'
  <2>1. \A m \in Merges, k \in Keys : groups'[m][k] = SumFunctionOnSet(Given(k)', MergedInto(m)')
      BY <1>1, <1>5, <1>7 DEF SumInv, GroupsAddUp
  <2>2. \A m \in Merges : exec'[m] = "emitted" =>
          \A k \in Keys : groups'[m][k] = SumFunctionOnSet(Given(k)', SourcesOf(m))
    <3>1. \A m \in Merges : exec[m] = "emitted" => s \notin SourcesOf(m)
        BY <1>4, SourceFacts DEF Returned
    <3> QED
        BY <1>1, <1>7, <3>1 DEF SumInv, GroupsAddUp
  <2> QED
      BY <2>1, <2>2 DEF GroupsAddUp, SourcesOf
<1>10. \A r \in Sources \ {s} : Clean(r)' <=> Clean(r)
    BY <1>1, <1>3, SourceFacts DEF Clean, Returned
<1>11. Clean(s)' \/ terror'[s] = "text"
  <2>1. CASE Accumulate(s)
      BY <2>1 DEF Accumulate, Clean
  <2>2. CASE LeaveNested(s)
    <3>1. NestedIn[s] \in Merges /\ Returned(NestedIn[s])
        BY <2>2, SourceFacts DEF LeaveNested, MergeInv, NestedRests
    <3>2. errors[NestedIn[s]] = {} \/ terror'[s] = "text"
      <4>1. exec[NestedIn[s]] = "emitted" => errors[NestedIn[s]] = {}
          BY <3>1 DEF MergeInv, EmitsWhatSourcesGave
      <4>2. terror' = [terror EXCEPT ![s] = "text"] => terror'[s] = "text"
          BY <1>1 DEF MergeType
      <4> QED
          BY <2>2, <4>1, <4>2 DEF LeaveNested
    <3> QED
        BY <1>1, <3>1, <3>2 DEF Clean, Returned
  <2> QED
      BY <2>1, <2>2
<1>12. ReturnsClean'
  <2>1. \A m \in Merges : Returned(m)' /\ errors'[m] = {} => \A r \in SourcesOf(m) : Clean(r)'
    <3>1. \A m \in Merges : Returned(m) => s \notin SourcesOf(m)
        BY <1>4, SourceFacts
    <3> QED
        BY <1>1, <1>10, <3>1 DEF SumInv, ReturnsClean, Returned, SourcesOf
  <2>2. \A r \in Sources : task'[r] \in PastMerge \cup {"merge"} => Clean(r)' \/ terror'[r] = "text"
      BY <1>1, <1>2, <1>3, <1>10, <1>11 DEF SumInv, ReturnsClean
  <2> QED
      BY <2>1, <2>2 DEF ReturnsClean, SourcesOf
<1> QED
    BY <1>8, <1>9, <1>12 DEF SumInv

\* The critical section adds the rows of the task, or records its error.
LEMMA MergeResultSums ==
    ASSUME MergeInv, SumInv, NEW s \in Sources, MergeResult(s)
    PROVE  SumInv'
<1>1. PICK m : m = MergeOf[s]
    OBVIOUS
<1>2. /\ MergeType /\ alive /\ m \in Merges /\ s \in SourcesOf(m)
      /\ UNCHANGED <<exec, tgroups, terror, alive>>
      /\ task[s] = "merge" /\ task' = [task EXCEPT ![s] = "notify"] /\ Merged(m, s)
    BY <1>1, SourceFacts DEF MergeInv, MergeResult
<1>3. task'[s] = "notify" /\ \A r \in Sources \ {s} : task'[r] = task[r]
    BY <1>2 DEF MergeType
<1>4. ~Returned(m)
    BY <1>1, <1>2 DEF MergeInv, TasksAccounted, NoMergeAfterReturn
<1>5. /\ \A n \in Merges \ {m} : errors'[n] = errors[n] /\ groups'[n] = groups[n]
      /\ \/ /\ errors'[m] = errors[m] /\ groups'[m] = Plus(groups[m], tgroups[s])
         \/ errors'[m] = errors[m] \cup {s} /\ groups'[m] = groups[m]
    BY <1>2 DEF Merged, MergeType
<1>6. \A n \in Merges \ {m} : s \notin SourcesOf(n)
    BY <1>1, SourceFacts
<1>7. s \notin errors[m] /\ s \notin MergedInto(m)
    BY <1>2 DEF SumInv, ErrorsMerged, MergedInto, PastMerge
<1>8. \A k \in Keys : Given(k)' = Given(k)
    BY <1>2 DEF Given
<1>9. \A n \in Merges \ {m} : MergedInto(n)' = MergedInto(n)
    BY <1>3, <1>5, <1>6 DEF MergedInto, SourcesOf
<1>10. ErrorsMerged'
  <2>1. \A n \in Merges \ {m} : errors'[n] \subseteq {r \in SourcesOf(n) : task'[r] \in PastMerge}
      BY <1>3, <1>5, <1>6 DEF SumInv, ErrorsMerged, SourcesOf
  <2>2. errors'[m] \subseteq {r \in SourcesOf(m) : task'[r] \in PastMerge}
      BY <1>2, <1>3, <1>5 DEF SumInv, ErrorsMerged, SourcesOf, PastMerge
  <2> QED
      BY <2>1, <2>2 DEF ErrorsMerged, SourcesOf
<1>11. \A k \in Keys : groups'[m][k] = SumFunctionOnSet(Given(k)', MergedInto(m)')
  <2> SUFFICES ASSUME NEW k \in Keys
               PROVE  groups'[m][k] = SumFunctionOnSet(Given(k)', MergedInto(m)')
      OBVIOUS
  <2>1. groups[m][k] = SumFunctionOnSet(Given(k), MergedInto(m))
      BY <1>2 DEF SumInv, GroupsAddUp
  <2>2. CASE errors'[m] = errors[m] \cup {s} /\ groups'[m] = groups[m]
    <3>1. MergedInto(m)' = MergedInto(m)
        BY <1>3, <1>7, <2>2 DEF MergedInto, SourcesOf
    <3> QED
        BY <1>8, <2>1, <2>2, <3>1
  <2>3. CASE errors'[m] = errors[m] /\ groups'[m] = Plus(groups[m], tgroups[s])
    <3>1. PICK f, T : f = Given(k) /\ T = MergedInto(m) \cup {s}
        OBVIOUS
    <3>2. MergedInto(m)' = T
        BY <1>2, <1>3, <1>7, <2>3, <3>1 DEF MergedInto, SourcesOf, PastMerge
    <3>3. f \in [Sources -> Int] /\ T \subseteq Sources /\ IsFiniteSet(T) /\ s \in T
        BY <1>2, <3>1, GivenFacts, FS_AddElement
    <3>4. T \ {s} = MergedInto(m)
        BY <1>7, <3>1
    <3>5. SumFunctionOnSet(f, T) = f[s] + SumFunctionOnSet(f, T \ {s})
        BY <3>3, SumRemoves
    <3>6. f[s] = tgroups[s][k] /\ f[s] \in Int /\ groups[m][k] \in Int
        BY <1>2, <3>1, <3>3 DEF Given, MergeType
    <3>7. groups'[m][k] = groups[m][k] + tgroups[s][k]
        BY <2>3 DEF Plus
    <3>8. groups[m][k] = SumFunctionOnSet(f, T \ {s})
        BY <2>1, <3>1, <3>4
    <3>9. groups'[m][k] = SumFunctionOnSet(f, T)
        BY <3>5, <3>6, <3>7, <3>8
    <3>10. Given(k)' = f
        BY <1>8, <3>1
    <3> QED
        BY <3>2, <3>9, <3>10
  <2> QED
      BY <1>5, <2>2, <2>3
<1>12. GroupsAddUp'
  <2>1. \A n \in Merges \ {m}, k \in Keys : groups'[n][k] = SumFunctionOnSet(Given(k)', MergedInto(n)')
      BY <1>2, <1>5, <1>8, <1>9 DEF SumInv, GroupsAddUp
  <2>2. \A n \in Merges : exec'[n] = "emitted" =>
          \A k \in Keys : groups'[n][k] = SumFunctionOnSet(Given(k)', SourcesOf(n))
      BY <1>2, <1>4, <1>5, <1>8 DEF SumInv, GroupsAddUp, Returned
  <2> QED
      BY <1>11, <2>1, <2>2 DEF GroupsAddUp, SourcesOf
<1>13. \A r \in Sources : Clean(r) => Clean(r)'
    BY <1>2, <1>4, <1>5, SourceFacts DEF Clean, Returned
<1>14. ReturnsClean'
  <2>1. \A n \in Merges : Returned(n)' /\ errors'[n] = {} => \A r \in SourcesOf(n) : Clean(r)'
      BY <1>2, <1>4, <1>5, <1>13 DEF SumInv, ReturnsClean, Returned, SourcesOf
  <2>2. \A r \in Sources : task'[r] \in PastMerge \cup {"merge"} => Clean(r)' \/ terror'[r] = "text"
      BY <1>2, <1>3, <1>13 DEF SumInv, ReturnsClean
  <2> QED
      BY <2>1, <2>2 DEF ReturnsClean, SourcesOf
<1> QED
    BY <1>10, <1>12, <1>14 DEF SumInv

\* Nothing is merged when a query begins.
LEMMA SumsStart == Init => SumInv
<1> SUFFICES ASSUME Init PROVE SumInv
    OBVIOUS
<1>1. /\ \A m \in Merges : exec[m] \in {"launch", "idle"} /\ errors[m] = {} /\ groups[m] = NoGroups
      /\ \A s \in Sources : task[s] = "none"
    BY DEF Init
<1>2. MergeType
    BY InitInv DEF MergeInv
<1>3. \A m \in Merges : MergedInto(m) = {}
    BY <1>1 DEF MergedInto, SourcesOf, PastMerge
<1>4. \A m \in Merges, k \in Keys : groups[m][k] = 0
    BY <1>1 DEF NoGroups
<1>5. \A k \in Keys : SumFunctionOnSet(Given(k), {}) = 0
    BY <1>2, GivenFacts, SumUnfolds, FS_EmptySet
<1>6. ErrorsMerged /\ GroupsAddUp /\ ReturnsClean
    BY <1>1, <1>3, <1>4, <1>5 DEF ErrorsMerged, GroupsAddUp, ReturnsClean, Returned, PastMerge
<1> QED
    BY <1>6 DEF SumInv

\* Both invariants hold in every reachable state of every query.
LEMMA SumsHold == Spec => [](MergeInv /\ SumInv)
<1>1. MergeInv /\ SumInv /\ [Next]_vars => SumInv'
    BY QuietSums, FinishSums, AccumulateSums, MergeResultSums, NextInv DEF Next
<1> QED
    BY <1>1, InitInv, NextInv, SumsStart, PTL DEF Spec

-----------------------------------------------------------------------------
(* What lies under a merge.  The equations of SourcesUnder and every fact  *)
(* about it are shown for the lowest merge that they might be wrong for.   *)

Height == CHOOSE height \in [Merges -> 0..Cardinality(Merges)] :
            \A s \in Nesting : height[NestedIn[s]] < height[MergeOf[s]]

\* Heights are numbers, and a merge inside a source is below the source's.
LEMMA HeightFacts ==
    /\ Height \in [Merges -> Nat]
    /\ Cardinality(Merges) \in Nat
    /\ \A m \in Merges : Height[m] <= Cardinality(Merges)
    /\ \A s \in Nesting : /\ s \in Sources /\ NestedIn[s] \in Merges /\ MergeOf[s] \in Merges
                          /\ Height[NestedIn[s]] < Height[MergeOf[s]]
    /\ \A m \in Merges : \A s \in SourcesOf(m) : s \in Sources /\ MergeOf[s] = m
<1>1. /\ Height \in [Merges -> 0..Cardinality(Merges)]
      /\ \A s \in Nesting : Height[NestedIn[s]] < Height[MergeOf[s]]
    BY MergeAssumption DEF Height
<1>2. Cardinality(Merges) \in Nat
    BY MergeAssumption, FS_CardinalityType
<1>3. \A s \in Nesting : s \in Sources /\ NestedIn[s] \in Merges /\ MergeOf[s] \in Merges
    BY MergeAssumption DEF Nesting
<1>4. \A m \in Merges : Height[m] \in Nat /\ Height[m] <= Cardinality(Merges)
    BY <1>1, <1>2
<1> QED
    BY <1>1, <1>2, <1>3, <1>4 DEF SourcesOf

\* Of any merges there is one that holds none of the others.
LEMMA LowestMerge ==
    ASSUME NEW W, W \subseteq Merges, W # {}
    PROVE  \E m \in W : \A s \in SourcesOf(m) \cap Nesting : NestedIn[s] \in Merges \ W
<1>1. PICK H : H = {Height[m] : m \in W}
    OBVIOUS
<1>2. H \subseteq Nat /\ H # {}
    BY <1>1, HeightFacts
<1>3. PICK h \in H : \A n \in H : h <= n
    BY <1>2, LeastNumber
<1>4. PICK m \in W : Height[m] = h
    BY <1>1, <1>3
<1>5. ASSUME NEW s \in SourcesOf(m) \cap Nesting
      PROVE  NestedIn[s] \in Merges \ W
  <2>1. NestedIn[s] \in Merges /\ Height[NestedIn[s]] < h
      BY <1>4, <1>5, HeightFacts
  <2>2. Height[NestedIn[s]] \in Nat /\ h \in Nat
      BY <1>2, <1>3, <2>1, HeightFacts
  <2> QED
      BY <1>1, <1>3, <2>1, <2>2
<1> QED
    BY <1>5

\* The right-hand side of SourcesUnder
Collect(g, m) == SourcesOf(m) \cup UNION {g[NestedIn[s]] : s \in SourcesOf(m) \cap Nesting}

\* SourcesUnder satisfies its equation.
LEMMA UnderUnfolds ==
    /\ SourcesUnder = [m \in Merges |-> Collect(SourcesUnder, m)]
    /\ \A m \in Merges : SourcesUnder[m] = Collect(SourcesUnder, m)
<1> DEFINE Upto(n, g) == \A m \in Merges : Height[m] < n => g[m] = Collect(g, m)
           Missing == {n \in Nat : ~\E g \in [Merges -> SUBSET Sources] : Upto(n, g)}
<1>1. 0 \notin Missing
  <2>1. [m \in Merges |-> {}] \in [Merges -> SUBSET Sources]
      OBVIOUS
  <2>2. Upto(0, [m \in Merges |-> {}])
      BY HeightFacts
  <2> QED
      BY <2>1, <2>2
<1>2. ASSUME NEW n \in Nat, n \notin Missing
      PROVE  n + 1 \notin Missing
  <2>1. PICK g \in [Merges -> SUBSET Sources] : Upto(n, g)
      BY <1>2
  <2>2. PICK h : h = [m \in Merges |-> Collect(g, m)]
      OBVIOUS
  <2>3. \A m \in Merges : Collect(g, m) \subseteq Sources
      BY <2>1, HeightFacts DEF Collect
  <2>4. h \in [Merges -> SUBSET Sources]
      BY <2>2, <2>3
  <2>5. \A m \in Merges : Height[m] < n => h[m] = g[m]
      BY <2>1, <2>2
  <2>6. ASSUME NEW m \in Merges, Height[m] < n + 1
        PROVE  h[m] = Collect(h, m)
    <3>1. \A s \in SourcesOf(m) \cap Nesting : h[NestedIn[s]] = g[NestedIn[s]]
      <4>1. \A s \in SourcesOf(m) \cap Nesting : NestedIn[s] \in Merges /\ Height[NestedIn[s]] < Height[m]
          BY HeightFacts
      <4>2. \A s \in SourcesOf(m) \cap Nesting : Height[NestedIn[s]] < n
          BY <2>6, <4>1, HeightFacts
      <4> QED
          BY <2>5, <4>1, <4>2
    <3>2. Collect(h, m) = Collect(g, m)
        BY <3>1 DEF Collect
    <3> QED
        BY <2>2, <3>2
  <2> QED
      BY <2>4, <2>6
<1>3. Missing = {}
  <2>1. SUFFICES ASSUME Missing # {} PROVE FALSE
      OBVIOUS
  <2>2. Missing \subseteq Nat
      OBVIOUS
  <2> HIDE DEF Missing
  <2>3. PICK m \in Missing : \A n \in Missing : m <= n
      BY <2>1, <2>2, LeastNumber
  <2>4. m \in Nat /\ m # 0
      BY <1>1, <2>2, <2>3
  <2>5. m - 1 \in Nat /\ m - 1 \notin Missing /\ (m - 1) + 1 = m
      BY <2>2, <2>3, <2>4
  <2> QED
      BY <1>2, <2>3, <2>5
<1>4. PICK g \in [Merges -> SUBSET Sources] : Upto(Cardinality(Merges) + 1, g)
  <2>1. \A n \in Nat : \E g \in [Merges -> SUBSET Sources] : Upto(n, g)
      BY <1>3
  <2>2. Cardinality(Merges) + 1 \in Nat
      BY HeightFacts
  <2> QED
      BY <2>1, <2>2
<1>5. \A m \in Merges : Height[m] < Cardinality(Merges) + 1
    BY HeightFacts
<1>6. g = [m \in Merges |-> Collect(g, m)]
    BY <1>4, <1>5
<1>7. SourcesUnder = CHOOSE f : f = [m \in Merges |-> Collect(f, m)]
    BY DEF SourcesUnder, Collect
<1>8. SourcesUnder = [m \in Merges |-> Collect(SourcesUnder, m)]
    BY <1>6, <1>7
<1> QED
    BY <1>8

\* Only sources lie under a merge, and none that belongs to a higher one.
LEMMA UnderFacts ==
    \A m \in Merges : /\ SourcesUnder[m] \subseteq Sources
                      /\ \A x \in SourcesUnder[m] : Height[MergeOf[x]] <= Height[m]
<1> DEFINE Wrong == {m \in Merges : ~ /\ SourcesUnder[m] \subseteq Sources
                                      /\ \A x \in SourcesUnder[m] : Height[MergeOf[x]] <= Height[m]}
<1>1. ASSUME Wrong # {} PROVE FALSE
  <2>1. PICK m \in Wrong : \A s \in SourcesOf(m) \cap Nesting : NestedIn[s] \in Merges \ Wrong
    <3>1. Wrong \subseteq Merges
        OBVIOUS
    <3> QED
        BY <1>1, <3>1, LowestMerge
  <2>2. ASSUME NEW x \in SourcesUnder[m]
        PROVE  x \in Sources /\ Height[MergeOf[x]] <= Height[m]
    <3>1. CASE x \in SourcesOf(m)
        BY <2>1, <3>1, HeightFacts
    <3>2. ASSUME NEW s \in SourcesOf(m) \cap Nesting, x \in SourcesUnder[NestedIn[s]]
          PROVE  x \in Sources /\ Height[MergeOf[x]] <= Height[m]
      <4>1. x \in Sources /\ Height[MergeOf[x]] <= Height[NestedIn[s]]
          BY <2>1, <3>2
      <4>2. Height[NestedIn[s]] < Height[m] /\ NestedIn[s] \in Merges /\ m \in Merges
          BY <2>1, HeightFacts
      <4>3. MergeOf[x] \in Merges
          BY <4>1, MergeAssumption
      <4>4. Height[MergeOf[x]] \in Nat /\ Height[NestedIn[s]] \in Nat /\ Height[m] \in Nat
          BY <4>2, <4>3, HeightFacts
      <4> QED
          BY <4>1, <4>2, <4>4
    <3> QED
        BY <2>1, <2>2, <3>1, <3>2, UnderUnfolds DEF Collect
  <2> QED
      BY <2>1, <2>2
<1> QED
    BY <1>1

\* The merge of a source that lies under a merge is that merge, or it is
\* inside another source that lies under it.
LEMMA UpOne ==
    \A m \in Merges : \A x \in SourcesUnder[m] :
      MergeOf[x] = m \/ \E t \in SourcesUnder[m] \cap Nesting : NestedIn[t] = MergeOf[x]
<1> DEFINE Right(m) == \A x \in SourcesUnder[m] :
                MergeOf[x] = m \/ \E t \in SourcesUnder[m] \cap Nesting : NestedIn[t] = MergeOf[x]
           Wrong == {m \in Merges : ~Right(m)}
<1>1. ASSUME Wrong # {} PROVE FALSE
  <2>1. PICK m \in Wrong : \A s \in SourcesOf(m) \cap Nesting : NestedIn[s] \in Merges \ Wrong
    <3>1. Wrong \subseteq Merges
        OBVIOUS
    <3> QED
        BY <1>1, <3>1, LowestMerge
  <2>2. ASSUME NEW x \in SourcesUnder[m]
        PROVE  MergeOf[x] = m \/ \E t \in SourcesUnder[m] \cap Nesting : NestedIn[t] = MergeOf[x]
    <3>1. CASE x \in SourcesOf(m)
        BY <2>1, <3>1, HeightFacts
    <3>2. ASSUME NEW s \in SourcesOf(m) \cap Nesting, x \in SourcesUnder[NestedIn[s]]
          PROVE  \E t \in SourcesUnder[m] \cap Nesting : NestedIn[t] = MergeOf[x]
      <4>1. s \in SourcesUnder[m] /\ SourcesUnder[NestedIn[s]] \subseteq SourcesUnder[m]
          BY <2>1, UnderUnfolds DEF Collect
      <4>2. Right(NestedIn[s])
          BY <2>1
      <4> QED
          BY <3>2, <4>1, <4>2
    <3> QED
        BY <2>1, <2>2, <3>1, <3>2, UnderUnfolds DEF Collect
  <2> QED
      BY <2>1, <2>2
<1> QED
    BY <1>1

\* No source lies under two sources of a merge.
LEMMA NothingTwice ==
    ASSUME NEW m \in Merges, NEW s \in SourcesOf(m) \cap Nesting, NEW r \in SourcesOf(m) \cap Nesting,
           s # r
    PROVE  SourcesUnder[NestedIn[s]] \cap SourcesUnder[NestedIn[r]] = {}
<1>1. PICK a, b : a = NestedIn[s] /\ b = NestedIn[r]
    OBVIOUS
<1>2. /\ a \in Merges /\ b \in Merges /\ a # b
      /\ Height[a] < Height[m] /\ Height[b] < Height[m]
    BY <1>1, HeightFacts, MergeAssumption
<1>3. \A t \in Nesting : /\ NestedIn[t] = a => t = s
                         /\ NestedIn[t] = b => t = r
    BY <1>1, MergeAssumption
<1>4. \A x \in Sources : MergeOf[x] \in Merges /\ Height[MergeOf[x]] \in Nat
    BY HeightFacts, MergeAssumption
<1>5. s \notin SourcesUnder[b] /\ r \notin SourcesUnder[a]
  <2>1. MergeOf[s] = m /\ MergeOf[r] = m
      BY HeightFacts
  <2>2. Height[a] \in Nat /\ Height[b] \in Nat /\ Height[m] \in Nat
      BY <1>2, HeightFacts
  <2> QED
      BY <1>2, <2>1, <2>2, UnderFacts
<1>6. PICK Both : Both = SourcesUnder[a] \cap SourcesUnder[b]
    OBVIOUS
<1>7. ASSUME NEW x \in Both
      PROVE  \E t \in Both : Height[MergeOf[x]] < Height[MergeOf[t]]
  <2>1. MergeOf[x] # a
      BY <1>2, <1>3, <1>5, <1>6, <1>7, UpOne
  <2>2. MergeOf[x] # b
      BY <1>2, <1>3, <1>5, <1>6, <1>7, UpOne
  <2>3. PICK t \in SourcesUnder[a] \cap Nesting : NestedIn[t] = MergeOf[x]
      BY <1>2, <1>6, <2>1, UpOne
  <2>4. PICK u \in SourcesUnder[b] \cap Nesting : NestedIn[u] = MergeOf[x]
      BY <1>2, <1>6, <2>2, UpOne
  <2>5. t = u
      BY <2>3, <2>4, MergeAssumption
  <2>6. t \in Both
      BY <1>6, <2>3, <2>4, <2>5
  <2>7. Height[NestedIn[t]] < Height[MergeOf[t]]
      BY <2>3, HeightFacts
  <2> QED
      BY <2>3, <2>6, <2>7
<1>8. ASSUME Both # {} PROVE FALSE
  <2>1. PICK top : top = Cardinality(Merges)
      OBVIOUS
  <2>2. PICK H : H = {top - Height[MergeOf[x]] : x \in Both}
      OBVIOUS
  <2>3. \A x \in Both : /\ Height[MergeOf[x]] \in Nat /\ top \in Nat
                        /\ Height[MergeOf[x]] <= top
      BY <1>2, <1>4, <1>6, <2>1, HeightFacts, UnderFacts
  <2>4. H \subseteq Nat /\ H # {}
      BY <1>8, <2>2, <2>3
  <2>5. PICK h \in H : \A n \in H : h <= n
      BY <2>4, LeastNumber
  <2>6. PICK x \in Both : h = top - Height[MergeOf[x]]
      BY <2>2, <2>5
  <2>7. PICK t \in Both : Height[MergeOf[x]] < Height[MergeOf[t]]
      BY <1>7
  <2>8. h <= top - Height[MergeOf[t]]
      BY <2>2, <2>5
  <2> QED
      BY <2>3, <2>6, <2>7, <2>8
<1> QED
    BY <1>1, <1>6, <1>8

\* The sum over sets of numbers that add up to other numbers is their sum.
LEMMA SumByParts ==
    ASSUME NEW D, IsFiniteSet(D), NEW f \in [D -> Int], NEW g \in [D -> Int], NEW T, T \subseteq D,
           NEW P \in [T -> SUBSET D], \A s, r \in T : s # r => P[s] \cap P[r] = {},
           \A s \in T : f[s] = SumFunctionOnSet(g, P[s])
    PROVE  SumFunctionOnSet(f, T) = SumFunctionOnSet(g, UNION {P[s] : s \in T})
<1> DEFINE Parts(A) == UNION {P[s] : s \in A}
           Wrong == {n \in Nat : \E A \in SUBSET T : Cardinality(A) = n /\
                                   SumFunctionOnSet(f, A) # SumFunctionOnSet(g, Parts(A))}
<1>1. \A A \in SUBSET T : /\ IsFiniteSet(A) /\ Cardinality(A) \in Nat /\ A \subseteq D
                         /\ Parts(A) \subseteq D /\ IsFiniteSet(Parts(A))
  <2>1. \A A \in SUBSET T : A \subseteq D /\ Parts(A) \subseteq D
      OBVIOUS
  <2> QED
      BY <2>1, FS_Subset, FS_CardinalityType
<1>2. ASSUME Wrong # {} PROVE FALSE
  <2>1. PICK n \in Wrong : \A k \in Wrong : n <= k
      BY <1>2, LeastNumber
  <2>2. PICK A \in SUBSET T : Cardinality(A) = n /\ SumFunctionOnSet(f, A) # SumFunctionOnSet(g, Parts(A))
      BY <2>1
  <2>3. A # {}
    <3>1. Parts({}) = {}
        OBVIOUS
    <3>2. {} \subseteq D /\ IsFiniteSet({})
        BY FS_EmptySet
    <3>3. SumFunctionOnSet(f, {}) = 0
        BY ZenonT(40), <3>2, SumUnfolds
    <3>4. SumFunctionOnSet(g, {}) = 0
        BY <3>2, SumUnfolds
    <3> QED
        BY <2>2, <3>1, <3>3, <3>4
  <2>4. PICK p : p = Pick(A)
      OBVIOUS
  <2>5. /\ p \in A /\ Cardinality(A \ {p}) = n - 1 /\ n - 1 \in Nat
        /\ A \ {p} \in SUBSET T /\ p \in T
    <3>1. IsFiniteSet(A) /\ A \in SUBSET T
        BY <1>1, <2>2
    <3>2. /\ p \in A /\ Cardinality(A) \in Nat \ {0}
          /\ Cardinality(A \ {p}) = Cardinality(A) - 1
        BY <2>3, <2>4, <3>1, Smaller
    <3> QED
        BY <2>2, <3>1, <3>2
  <2>6. n - 1 \notin Wrong
    <3>1. n \in Nat
        BY <2>1
    <3> HIDE DEF Wrong
    <3> QED
        BY <2>1, <2>5, <3>1
  <2>7. SumFunctionOnSet(f, A \ {p}) = SumFunctionOnSet(g, Parts(A \ {p}))
      BY <2>5, <2>6
  <2>8. SumFunctionOnSet(f, A) = f[p] + SumFunctionOnSet(f, A \ {p})
    <3>1. IsFiniteSet(A) /\ A \subseteq D
        BY <1>1, <2>2
    <3> QED
        BY <2>5, <3>1, SumRemoves
  <2>9. PICK B : B = Parts(A \ {p})
      OBVIOUS
  <2>10. Parts(A) = P[p] \cup B
      BY <2>5, <2>9
  <2>11. P[p] \cap B = {}
      BY <2>5, <2>9
  <2>12. IsFiniteSet(P[p]) /\ P[p] \subseteq D /\ IsFiniteSet(B) /\ B \subseteq D
    <3>1. P[p] \subseteq D
        BY <2>5
    <3> QED
        BY <1>1, <2>5, <2>9, <3>1, FS_Subset
  <2>13. SumFunctionOnSet(g, P[p] \cup B) = SumFunctionOnSet(g, P[p]) + SumFunctionOnSet(g, B)
      BY <2>11, <2>12, SumUnion
  <2> QED
      BY <2>2, <2>5, <2>7, <2>8, <2>9, <2>10, <2>13
<1> QED
    BY <1>1, <1>2

\* The sources that a source of a merge stands for, without those that only
\* pass on what a nested merge has emitted
Below(s) == (IF s \in Nesting THEN SourcesUnder[NestedIn[s]] ELSE {s}) \ Nesting

\* The sources of a merge part what lies below it among them.
LEMMA BelowFacts ==
    ASSUME NEW m \in Merges
    PROVE  /\ UNION {Below(s) : s \in SourcesOf(m)} = SourcesUnder[m] \ Nesting
           /\ \A s \in SourcesOf(m) : Below(s) \subseteq Sources
           /\ \A s, r \in SourcesOf(m) : s # r => Below(s) \cap Below(r) = {}
<1>1. UNION {Below(s) : s \in SourcesOf(m)} = SourcesUnder[m] \ Nesting
  <2>1. SourcesUnder[m] = Collect(SourcesUnder, m)
      BY UnderUnfolds
  <2>2. ASSUME NEW s \in SourcesOf(m)
        PROVE  Below(s) \subseteq SourcesUnder[m] \ Nesting
    <3>1. CASE s \in Nesting
        BY <2>1, <3>1 DEF Below, Collect
    <3>2. CASE s \notin Nesting
        BY <2>1, <3>2 DEF Below, Collect
    <3> QED
        BY <3>1, <3>2
  <2>3. ASSUME NEW x \in SourcesUnder[m] \ Nesting
        PROVE  \E s \in SourcesOf(m) : x \in Below(s)
      BY <2>1, <2>3 DEF Below, Collect
  <2> QED
      BY <2>2, <2>3
<1>2. \A s \in SourcesOf(m) : Below(s) \subseteq Sources
  <2>1. \A s \in Nesting : SourcesUnder[NestedIn[s]] \subseteq Sources
      BY HeightFacts, UnderFacts
  <2> QED
      BY <2>1, HeightFacts DEF Below
<1>3. ASSUME NEW s \in SourcesOf(m), NEW r \in SourcesOf(m), s # r
      PROVE  Below(s) \cap Below(r) = {}
  <2>1. \A a \in SourcesOf(m), b \in SourcesOf(m) \cap Nesting : a \notin SourcesUnder[NestedIn[b]]
    <3>1. SUFFICES ASSUME NEW a \in SourcesOf(m), NEW b \in SourcesOf(m) \cap Nesting,
                          a \in SourcesUnder[NestedIn[b]]
                   PROVE  FALSE
        OBVIOUS
    <3>2. MergeOf[a] = m /\ NestedIn[b] \in Merges /\ Height[NestedIn[b]] < Height[m]
        BY HeightFacts
    <3>3. Height[m] <= Height[NestedIn[b]]
        BY <3>1, <3>2, UnderFacts
    <3>4. Height[m] \in Nat /\ Height[NestedIn[b]] \in Nat
        BY <3>2, HeightFacts
    <3> QED
        BY <3>2, <3>3, <3>4
  <2>2. s \in Nesting /\ r \in Nesting => SourcesUnder[NestedIn[s]] \cap SourcesUnder[NestedIn[r]] = {}
      BY <1>3, NothingTwice
  <2> QED
      BY <1>3, <2>1, <2>2 DEF Below
<1> QED
    BY <1>1, <1>2, <1>3

\* A merge that has returned without an error has lost none of those below it.
LEMMA NoTextBelow ==
    ASSUME MergeInv, SumInv
    PROVE  \A m \in Merges : Returned(m) /\ errors[m] = {} => \A x \in SourcesUnder[m] : terror[x] # "text"
<1> DEFINE Right(m) == Returned(m) /\ errors[m] = {} => \A x \in SourcesUnder[m] : terror[x] # "text"
           Wrong == {m \in Merges : ~Right(m)}
<1>1. ASSUME Wrong # {} PROVE FALSE
  <2>1. PICK m \in Wrong : \A s \in SourcesOf(m) \cap Nesting : NestedIn[s] \in Merges \ Wrong
    <3>1. Wrong \subseteq Merges
        OBVIOUS
    <3> QED
        BY <1>1, <3>1, LowestMerge
  <2>2. Returned(m) /\ errors[m] = {}
      BY <2>1
  <2>3. \A s \in SourcesOf(m) : Clean(s)
      BY <2>1, <2>2 DEF SumInv, ReturnsClean
  <2>4. ASSUME NEW s \in SourcesOf(m) \cap Nesting
        PROVE  \A x \in SourcesUnder[NestedIn[s]] : terror[x] # "text"
    <3>1. Right(NestedIn[s])
        BY <2>1
    <3> QED
        BY <2>3, <3>1 DEF Clean
  <2>5. \A x \in SourcesUnder[m] : terror[x] # "text"
      BY <2>1, <2>3, <2>4, UnderUnfolds DEF Collect, Clean
  <2> QED
      BY <2>1, <2>5
<1> QED
    BY <1>1

\* The groups of a merge that nothing went wrong below of are the total.
LEMMA TotalsRight ==
    ASSUME MergeInv, SumInv
    PROVE  \A m \in Merges :
             exec[m] = "emitted" /\ (\A x \in SourcesUnder[m] : terror[x] = "none") => groups[m] = Total(m)
<1> DEFINE Right(m) == exec[m] = "emitted" /\ (\A x \in SourcesUnder[m] : terror[x] = "none")
                         => groups[m] = Total(m)
           Wrong == {m \in Merges : ~Right(m)}
<1>1. ASSUME Wrong # {} PROVE FALSE
  <2>1. PICK m \in Wrong : \A s \in SourcesOf(m) \cap Nesting : NestedIn[s] \in Merges \ Wrong
    <3>1. Wrong \subseteq Merges
        OBVIOUS
    <3> QED
        BY <1>1, <3>1, LowestMerge
  <2>2. /\ m \in Merges /\ exec[m] = "emitted" /\ (\A x \in SourcesUnder[m] : terror[x] = "none")
        /\ groups[m] # Total(m)
      BY <2>1
  <2>3. MergeType
      BY DEF MergeInv
  <2>4. /\ SourcesOf(m) \subseteq SourcesUnder[m]
        /\ \A s \in SourcesOf(m) \cap Nesting : SourcesUnder[NestedIn[s]] \subseteq SourcesUnder[m]
    <3>1. SourcesUnder[m] = Collect(SourcesUnder, m)
        BY <2>2, UnderUnfolds
    <3> QED
        BY <3>1 DEF Collect
  <2>5. \A s \in SourcesOf(m) : Accumulated(s) /\ terror[s] = "none"
      BY <2>2, <2>4 DEF MergeInv, EmitsWhatSourcesGave
  <2>6. ASSUME NEW s \in SourcesOf(m) \cap Nesting
        PROVE  tgroups[s] = Total(NestedIn[s])
    <3>1. exec[NestedIn[s]] = "emitted" /\ tgroups[s] = groups[NestedIn[s]]
        BY <2>5 DEF Accumulated
    <3>2. Right(NestedIn[s])
        BY <2>1
    <3> QED
        BY <2>2, <2>4, <3>1, <3>2
  <2>7. ASSUME NEW k \in Keys
        PROVE  groups[m][k] = Total(m)[k]
    <3>1. PICK f, g : f = Given(k) /\ g = [s \in Sources |-> Rows[s][k]]
        OBVIOUS
    <3>2. f \in [Sources -> Int] /\ g \in [Sources -> Int]
        BY <2>3, <3>1, GivenFacts, MergeAssumption
    <3>3. PICK P : P = [s \in SourcesOf(m) |-> Below(s)]
        OBVIOUS
    <3>4. /\ P \in [SourcesOf(m) -> SUBSET Sources]
          /\ \A s, r \in SourcesOf(m) : s # r => P[s] \cap P[r] = {}
          /\ UNION {P[s] : s \in SourcesOf(m)} = SourcesUnder[m] \ Nesting
      <4>1. {P[s] : s \in SourcesOf(m)} = {Below(s) : s \in SourcesOf(m)}
          BY <3>3
      <4> QED
          BY <2>2, <3>3, <4>1, BelowFacts
    <3>5. ASSUME NEW s \in SourcesOf(m)
          PROVE  f[s] = SumFunctionOnSet(g, P[s])
      <4>1. s \in Sources /\ f[s] = tgroups[s][k] /\ P[s] = Below(s)
          BY <2>2, <3>1, <3>3, <3>5, HeightFacts DEF Given
      <4>2. CASE s \in Nesting
        <5>1. f[s] = Total(NestedIn[s])[k]
            BY <2>6, <4>1, <4>2
        <5> QED
            BY <3>1, <4>1, <4>2, <5>1 DEF Total, Below
      <4>3. CASE s \notin Nesting
        <5>1. P[s] = {s} /\ f[s] = g[s]
            BY <2>5, <3>1, <4>1, <4>3 DEF Below, Accumulated
        <5>2. IsFiniteSet({s}) /\ {s} \subseteq Sources /\ s \in {s} /\ {s} \ {s} = {}
            BY <4>1, FS_Singleton
        <5>3. SumFunctionOnSet(g, {s}) = g[s] + SumFunctionOnSet(g, {s} \ {s})
            BY <3>2, <5>2, SumRemoves
        <5>4. IsFiniteSet({}) /\ {} \subseteq Sources
            BY FS_EmptySet
        <5>5. SumFunctionOnSet(g, {}) = 0
            BY <3>2, <5>4, SumUnfolds
        <5>6. g[s] \in Int
            BY <3>2, <4>1
        <5>7. SumFunctionOnSet(g, {s}) = g[s] + 0
            BY <5>2, <5>3, <5>5
        <5>8. SumFunctionOnSet(g, {s}) = g[s]
            BY <5>6, <5>7
        <5> QED
            BY <5>1, <5>8
      <4> QED
          BY <4>2, <4>3
    <3>6. SourcesOf(m) \subseteq Sources /\ IsFiniteSet(Sources)
        BY <2>2, HeightFacts, MergeAssumption
    <3>7. SumFunctionOnSet(f, SourcesOf(m)) = SumFunctionOnSet(g, UNION {P[s] : s \in SourcesOf(m)})
        BY <3>2, <3>4, <3>5, <3>6, SumByParts
    <3>8. groups[m][k] = SumFunctionOnSet(f, SourcesOf(m))
        BY <2>2, <3>1 DEF SumInv, GroupsAddUp
    <3> QED
        BY <3>1, <3>4, <3>7, <3>8 DEF Total
  <2>8. groups[m] \in [Keys -> Int] /\ Total(m) = [k \in Keys |-> Total(m)[k]]
      BY <2>2, <2>3 DEF MergeType, Total
  <2> QED
      BY <2>2, <2>7, <2>8
<1> QED
    BY <1>1

\* A merge that emits has counted every row of every source below it, at any
\* depth, exactly once, and has passed over no error that has a message.
THEOREM GroupByEmitsComplete == Spec => []EmitsCompleteGroups
<1>1. MergeInv /\ SumInv => EmitsCompleteGroups
  <2>1. SUFFICES ASSUME MergeInv, SumInv, NEW m \in Merges, exec[m] = "emitted"
                 PROVE  /\ \A s \in SourcesUnder[m] : terror[s] # "text"
                        /\ (\A s \in SourcesUnder[m] : terror[s] # "blank") => groups[m] = Total(m)
      BY DEF EmitsCompleteGroups
  <2>2. Returned(m) /\ errors[m] = {}
      BY <2>1 DEF MergeInv, EmitsWhatSourcesGave, Returned
  <2>3. \A s \in SourcesUnder[m] : terror[s] # "text"
      BY <2>1, <2>2, NoTextBelow
  <2>4. \A s \in SourcesUnder[m] : terror[s] \in {"none", "text", "blank"}
      BY <2>1, UnderFacts DEF MergeInv, MergeType
  <2> QED
      BY <2>1, <2>3, <2>4, TotalsRight
<1> QED
    BY <1>1, SumsHold, PTL

-----------------------------------------------------------------------------
(* The result cache *)

Writing(q) == pc[q] \in {"write", "mv", "close"}

CacheType ==
    /\ chunks \in Nat /\ chunks > 0
    /\ tmp \in Inodes \cup {NoInode} /\ final \in Inodes \cup {NoInode}
    /\ content \in [Inodes -> Seq({"data", "hole"})]
    /\ pc \in [Queries -> {"new", "read", "scan", "open", "write", "mv", "close", "done", "dead"}]
    /\ fd \in [Queries -> Inodes \cup {NoInode}]
    /\ pos \in [Queries -> Nat]
    /\ outcome \in [Queries -> {"none", "right", "wrong", "error", "raised"}]
    /\ overlapped \in BOOLEAN /\ crashes \in Nat

\* Which part a writer is at, and that readers and writers have a file.
WritersOK ==
    \A q \in Queries :
        /\ Writing(q) \/ pc[q] = "read" => fd[q] \in Inodes
        /\ pc[q] = "write" => pos[q] < chunks - 1
        /\ pc[q] \in {"mv", "close"} => pos[q] = chunks - 1

LengthsOK == \A i \in Inodes : Len(content[i]) <= chunks

Has(i, n) == n <= Len(content[i]) /\ content[i][n] = "data"

\* A part that a file lacks is on its way.
PartsComing ==
    crashes = 0 =>
        \A i \in {tmp, final} \ {NoInode} : \A n \in 1..chunks :
            Has(i, n) \/ \E q \in Queries : Writing(q) /\ fd[q] = i /\ pos[q] < n

\* Queries that do not overlap leave no holes.
NoHoles ==
    ~overlapped =>
        /\ \A q, r \in C!Active : q = r
        /\ \A i \in Inodes : \A n \in 1..Len(content[i]) : content[i][n] = "data"
        /\ \A q \in Queries : Writing(q) => Len(content[fd[q]]) = pos[q]

CacheInv == CacheType /\ WritersOK /\ LengthsOK /\ PartsComing /\ NoHoles /\ C!AnswersRight

\* A query that neither writes nor ends up writing changes nothing for writers.
LEMMA QuietQuery ==
    ASSUME CacheInv, CacheType', NEW q \in Queries, ~Writing(q), ~Writing(q)',
           UNCHANGED <<chunks, tmp, final, content, crashes>>,
           \A r \in Queries \ {q} : pc'[r] = pc[r] /\ fd'[r] = fd[r] /\ pos'[r] = pos[r],
           pc'[q] = "read" => fd'[q] \in Inodes
    PROVE  WritersOK' /\ LengthsOK' /\ PartsComing'
<1>1. \A r \in Queries : Writing(r)' <=> Writing(r)
    BY DEF Writing
<1>2. \A r \in Queries : Writing(r) => r # q
    OBVIOUS
<1>3. WritersOK'
    BY <1>1, <1>2 DEF CacheInv, WritersOK, Writing
<1>4. LengthsOK'
    BY DEF CacheInv, LengthsOK
<1>5. PartsComing'
    BY <1>1, <1>2 DEF CacheInv, PartsComing, Has
<1> QED
    BY <1>3, <1>4, <1>5

\* ... nor for the holes, if it was under way before.
LEMMA QuietQueryHoles ==
    ASSUME CacheInv, CacheType', NEW q \in Queries, q \in C!Active, ~Writing(q), ~Writing(q)',
           UNCHANGED <<chunks, content, overlapped>>,
           \A r \in Queries \ {q} : pc'[r] = pc[r] /\ fd'[r] = fd[r] /\ pos'[r] = pos[r]
    PROVE  NoHoles'
<1>1. \A r \in Queries : Writing(r)' <=> Writing(r)
    BY DEF Writing
<1>2. \A r \in Queries : r \in C!Active' => r \in C!Active
    BY DEF C!Active, C!Over
<1> QED
    BY <1>1, <1>2 DEF CacheInv, NoHoles, C!Active

\* accumulate() begins.
LEMMA LookupInv == ASSUME CacheInv, NEW q \in Queries, C!Lookup(q) PROVE CacheInv'
<1>1. CacheType /\ NoHoles /\ C!AnswersRight
    BY DEF CacheInv
<1>2. /\ pc[q] = "new" /\ overlapped' = (overlapped \/ C!Active # {})
      /\ UNCHANGED <<chunks, tmp, final, content, pos, outcome, crashes>>
      /\ \/ final # NoInode /\ fd' = [fd EXCEPT ![q] = final] /\ pc' = [pc EXCEPT ![q] = "read"]
         \/ fd' = fd /\ pc' = [pc EXCEPT ![q] = "scan"]
    BY DEF C!Lookup, C!Goto, C!files
<1>3. CacheType'
    BY <1>1, <1>2 DEF CacheType
<1>4. WritersOK' /\ LengthsOK' /\ PartsComing'
  <2>1. ~Writing(q) /\ ~Writing(q)'
      BY <1>1, <1>2 DEF Writing, CacheType
  <2>2. pc'[q] = "read" => fd'[q] \in Inodes
      BY <1>1, <1>2 DEF CacheType
  <2>3. \A r \in Queries \ {q} : pc'[r] = pc[r] /\ fd'[r] = fd[r] /\ pos'[r] = pos[r]
      BY <1>1, <1>2 DEF CacheType
  <2> QED
      BY <1>2, <1>3, <2>1, <2>2, <2>3, QuietQuery
<1>5. NoHoles'
  <2> SUFFICES ASSUME ~overlapped' PROVE NoHoles'
      BY DEF NoHoles
  <2>1. ~overlapped /\ \A r \in Queries : pc[r] \in C!Over
      BY <1>1, <1>2 DEF C!Active, CacheType
  <2>2. \A r \in Queries \ {q} : pc'[r] = pc[r]
      BY <1>1, <1>2 DEF CacheType
  <2>3. \A r \in C!Active' : r = q
      BY <2>1, <2>2 DEF C!Active
  <2>4. \A r \in Queries : ~Writing(r)'
      BY <1>1, <1>2, <2>1, <2>2 DEF Writing, C!Over, CacheType
  <2> QED
      BY <1>1, <1>2, <2>1, <2>3, <2>4 DEF NoHoles
<1>6. C!AnswersRight'
    BY <1>1, <1>2, <1>3 DEF C!AnswersRight, CacheType
<1> QED
    BY <1>3, <1>4, <1>5, <1>6 DEF CacheInv

\* A reader and a scan.
LEMMA ReadInv == ASSUME CacheInv, NEW q \in Queries, C!Read(q) \/ C!Scan(q) PROVE CacheInv'
<1>1. CacheType /\ NoHoles /\ C!AnswersRight /\ WritersOK
    BY DEF CacheInv
<1>2. /\ UNCHANGED <<chunks, tmp, final, content, fd, overlapped, crashes>>
      /\ pc[q] \in {"read", "scan"}
      /\ pc' \in {pc, [pc EXCEPT ![q] = "scan"], [pc EXCEPT ![q] = "open"], [pc EXCEPT ![q] = "done"]}
      /\ pos' \in {pos, [pos EXCEPT ![q] = pos[q] + 1]}
    BY DEF C!Read, C!AtEOF, C!ReadPart, C!Scan, C!End, C!Goto, C!files
<1>3. \/ outcome' = outcome
      \/ \E o \in {"right", "error", "raised"} : outcome' = [outcome EXCEPT ![q] = o]
      \/ /\ outcome' = [outcome EXCEPT ![q] = "wrong"] /\ pc[q] = "read"
         /\ pos[q] + 1 > 1 /\ pos[q] < chunks
         /\ Len(content[fd[q]]) > pos[q] /\ content[fd[q]][pos[q] + 1] = "hole"
    BY DEF C!Read, C!AtEOF, C!ReadPart, C!Scan, C!End, C!Part
<1>4. CacheType'
  <2>1. pos' \in [Queries -> Nat]
      BY <1>1, <1>2 DEF CacheType
  <2>2. outcome' \in [Queries -> {"none", "right", "wrong", "error", "raised"}]
      BY <1>1, <1>3 DEF CacheType
  <2>3. pc' \in [Queries -> {"new", "read", "scan", "open", "write", "mv", "close", "done", "dead"}]
      BY <1>1, <1>2 DEF CacheType
  <2> QED
      BY <1>1, <1>2, <2>1, <2>2, <2>3 DEF CacheType
<1>5. /\ ~Writing(q) /\ ~Writing(q)' /\ q \in C!Active
      /\ pc'[q] = "read" => fd'[q] \in Inodes
    BY <1>1, <1>2 DEF Writing, C!Active, C!Over, CacheType, WritersOK
<1>6. \A r \in Queries \ {q} : pc'[r] = pc[r] /\ fd'[r] = fd[r] /\ pos'[r] = pos[r]
    BY <1>1, <1>2 DEF CacheType
<1>7. WritersOK' /\ LengthsOK' /\ PartsComing'
    BY <1>2, <1>4, <1>5, <1>6, QuietQuery
<1>8. NoHoles'
    BY <1>2, <1>4, <1>5, <1>6, QuietQueryHoles
<1>9. C!AnswersRight'
  <2> SUFFICES ASSUME chunks = 1 \/ ~overlapped PROVE \A r \in Queries : outcome'[r] # "wrong"
      BY <1>2 DEF C!AnswersRight
  <2>1. \A r \in Queries : outcome[r] # "wrong"
      BY <1>1 DEF C!AnswersRight
  <2>2. CASE outcome' = [outcome EXCEPT ![q] = "wrong"] /\ pc[q] = "read"
             /\ pos[q] + 1 > 1 /\ pos[q] < chunks
             /\ Len(content[fd[q]]) > pos[q] /\ content[fd[q]][pos[q] + 1] = "hole"
    <3>1. pos[q] \in Nat /\ fd[q] \in Inodes /\ chunks \in Nat
        BY <1>1, <2>2 DEF CacheType, WritersOK
    <3>2. Len(content[fd[q]]) \in Nat
        BY <1>1, <3>1, LenProperties DEF CacheType
    <3>3. pos[q] + 1 \in 1..Len(content[fd[q]])
        BY <2>2, <3>1, <3>2
    <3>4. chunks # 1
        BY <2>2, <3>1
    <3> QED
        BY <1>1, <2>2, <3>1, <3>3, <3>4 DEF NoHoles
  <2> QED
      BY <1>1, <1>3, <2>1, <2>2 DEF CacheType
<1> QED
    BY <1>4, <1>7, <1>8, <1>9 DEF CacheInv

\* Part n is written at its place.
LEMMA WrittenIs ==
    ASSUME NEW f \in Seq({"data", "hole"}), NEW n \in Nat, n > 0
    PROVE  /\ C!Written(f, n) \in Seq({"data", "hole"})
           /\ Len(C!Written(f, n)) = IF Len(f) < n THEN n ELSE Len(f)
           /\ C!Written(f, n)[n] = "data"
           /\ \A k \in 1..Len(f) : f[k] = "data" => C!Written(f, n)[k] = "data"
           /\ Len(f) = n - 1 /\ (\A k \in 1..Len(f) : f[k] = "data") =>
                 \A k \in 1..Len(C!Written(f, n)) : C!Written(f, n)[k] = "data"
<1> DEFINE m == IF Len(f) < n THEN n ELSE Len(f)
           w == C!Written(f, n)
<1>1. Len(f) \in Nat /\ \A k \in 1..Len(f) : f[k] \in {"data", "hole"}
    BY LenProperties, ElementOfSeq
<1>2. m \in Nat /\ n \in 1..m /\ \A k \in 1..Len(f) : k \in 1..m
    BY <1>1
<1>3. w = [k \in 1..m |-> IF k = n THEN "data" ELSE IF k <= Len(f) THEN f[k] ELSE "hole"]
    BY DEF C!Written
<1> HIDE DEF m, w
<1>4. \A k \in 1..m : w[k] = IF k = n THEN "data" ELSE IF k <= Len(f) THEN f[k] ELSE "hole"
    BY <1>3
<1>5. \A k \in 1..m : w[k] \in {"data", "hole"}
    BY <1>1, <1>2, <1>4
<1>6. w \in [1..m -> {"data", "hole"}]
    BY <1>3, <1>5
<1>7. w \in Seq({"data", "hole"}) /\ Len(w) = m
    BY <1>2, <1>6
<1>8. \A k \in 1..Len(f) : f[k] = "data" => w[k] = "data"
    BY <1>1, <1>2, <1>4
<1>9. Len(f) = n - 1 /\ (\A k \in 1..Len(f) : f[k] = "data") => \A k \in 1..m : w[k] = "data"
    BY <1>1, <1>2, <1>4 DEF m
<1> QED
    BY <1>2, <1>4, <1>7, <1>8, <1>9 DEF m, w

\* A writer writes its next part, into the buffer's file or from its destructor.
LEMMA WritePart ==
    ASSUME CacheInv, NEW q \in Queries, Writing(q),
           content' = [content EXCEPT ![fd[q]] = C!Written(@, pos[q] + 1)],
           pos' = [pos EXCEPT ![q] = pos[q] + 1],
           UNCHANGED <<chunks, tmp, final, fd, overlapped, crashes>>,
           NEW l \in {"write", "mv", "done"}, pc' = [pc EXCEPT ![q] = l],
           l = "write" => pos[q] + 1 < chunks - 1,
           l = "mv" => pos[q] + 1 = chunks - 1,
           l = "done" => pos[q] + 1 = chunks,
           outcome' \in [Queries -> {"none", "right", "wrong", "error", "raised"}],
           C!AnswersRight'
    PROVE  CacheInv'
<1> DEFINE n == pos[q] + 1
           j == fd[q]
<1>1. CacheType /\ WritersOK /\ LengthsOK /\ PartsComing /\ NoHoles
    BY DEF CacheInv
<1>2. /\ j \in Inodes /\ n \in Nat /\ n > 0 /\ n <= chunks /\ chunks \in Nat
      /\ n = pos[q] + 1 /\ fd[q] = j
    BY <1>1 DEF CacheType, WritersOK, Writing
<1>3. /\ content[j] \in Seq({"data", "hole"}) /\ Len(content[j]) \in Nat
      /\ content'[j] = C!Written(content[j], n)
      /\ \A i \in Inodes \ {j} : content'[i] = content[i]
    BY <1>1, <1>2, LenProperties DEF CacheType
<1> HIDE DEF n, j
<1>4. /\ content'[j] \in Seq({"data", "hole"})
      /\ Len(content'[j]) = IF Len(content[j]) < n THEN n ELSE Len(content[j])
      /\ content'[j][n] = "data"
      /\ \A k \in 1..Len(content[j]) : content[j][k] = "data" => content'[j][k] = "data"
      /\ Len(content[j]) = n - 1 /\ (\A k \in 1..Len(content[j]) : content[j][k] = "data") =>
            \A k \in 1..Len(content'[j]) : content'[j][k] = "data"
    BY SMTT(30), <1>2, <1>3, WrittenIs
<1>5. /\ \A r \in Queries \ {q} : pc'[r] = pc[r] /\ pos'[r] = pos[r]
      /\ pc'[q] = l /\ pos'[q] = n
    BY <1>1, <1>2 DEF CacheType
<1>6. CacheType'
  <2>1. content' \in [Inodes -> Seq({"data", "hole"})]
      BY <1>1, <1>2, <1>3, <1>4 DEF CacheType
  <2>2. pos' \in [Queries -> Nat]
      BY <1>1, <1>2 DEF CacheType
  <2>3. pc' \in [Queries -> {"new", "read", "scan", "open", "write", "mv", "close", "done", "dead"}]
      BY <1>1 DEF CacheType
  <2> QED
      BY <1>1, <2>1, <2>2, <2>3 DEF CacheType
<1>7. WritersOK'
    BY <1>1, <1>2, <1>5 DEF WritersOK, Writing
<1>8. LengthsOK'
    BY <1>1, <1>2, <1>3, <1>4 DEF LengthsOK
<1>9. PartsComing'
  <2> SUFFICES ASSUME crashes = 0, NEW i \in {tmp, final} \ {NoInode}, NEW k \in 1..chunks
               PROVE  \/ Has(i, k)'
                      \/ \E r \in Queries : Writing(r)' /\ fd[r] = i /\ pos'[r] < k
      BY DEF PartsComing
  <2>1. i \in Inodes /\ k \in Nat /\ k > 0 /\ k <= chunks
      BY <1>1, <1>2 DEF CacheType
  <2>2. CASE Has(i, k)
    <3>1. CASE i = j
      <4>1. k \in 1..Len(content[j]) /\ content[j][k] = "data"
          BY <1>3, <2>1, <2>2, <3>1 DEF Has
      <4>2. content'[j][k] = "data" /\ k <= Len(content'[j])
          BY <1>2, <1>3, <1>4, <4>1
      <4> QED
          BY <3>1, <4>2 DEF Has
    <3>2. CASE i # j
        BY <1>3, <2>1, <2>2, <3>2 DEF Has
    <3> QED
        BY <3>1, <3>2
  <2>3. ASSUME NEW r \in Queries, Writing(r), fd[r] = i, pos[r] < k, r # q
        PROVE  Writing(r)' /\ fd[r] = i /\ pos'[r] < k
      BY <1>5, <2>3 DEF Writing
  <2>4. CASE i = j /\ pos[q] < k
    <3>1. CASE k = n
      <4>1. n <= Len(content'[j])
          BY <1>2, <1>3, <1>4
      <4> QED
          BY <1>4, <2>4, <3>1, <4>1 DEF Has
    <3>2. CASE k # n
      <4>1. pos[q] \in Nat
          BY <1>1 DEF CacheType
      <4>2. n < k
          BY <1>2, <2>1, <2>4, <3>2, <4>1
      <4>3. l # "done"
          BY <1>2, <2>1, <4>2
      <4>4. Writing(q)' /\ fd[q] = i /\ pos'[q] < k
          BY <1>2, <1>5, <2>4, <4>2, <4>3 DEF Writing
      <4> QED
          BY <4>4
    <3> QED
        BY <3>1, <3>2
  <2> QED
      BY <1>1, <1>2, <2>2, <2>3, <2>4 DEF PartsComing
<1>10. NoHoles'
  <2> SUFFICES ASSUME ~overlapped PROVE NoHoles'
      BY DEF NoHoles
  <2>1. q \in C!Active
      BY DEF Writing, C!Active, C!Over
  <2>2. \A r \in Queries : r \in C!Active => r = q
      BY <1>1, <2>1 DEF NoHoles
  <2>3. \A r \in Queries \ {q} : pc'[r] \in C!Over
      BY <1>5, <2>2 DEF C!Active
  <2>4. Len(content[j]) = n - 1 /\ \A i \in Inodes : \A k \in 1..Len(content[i]) : content[i][k] = "data"
    <3>1. Len(content[j]) = pos[q] /\ pos[q] \in Nat
        BY <1>1, <1>2 DEF NoHoles, CacheType
    <3> QED
        BY <1>1, <1>2, <3>1 DEF NoHoles
  <2>5. \A k \in 1..Len(content'[j]) : content'[j][k] = "data"
      BY <1>2, <1>4, <2>4
  <2>6. Len(content'[j]) = n
      BY <1>2, <1>4, <2>4
  <2>7. \A r \in Queries : Writing(r)' => r = q
      BY <2>3 DEF Writing, C!Over
  <2>8. \A r \in C!Active' : r = q
      BY <2>3 DEF C!Active
  <2>9. \A i \in Inodes : \A k \in 1..Len(content'[i]) : content'[i][k] = "data"
      BY <1>3, <2>4, <2>5
  <2> QED
      BY <1>2, <1>5, <2>6, <2>7, <2>8, <2>9 DEF NoHoles
<1> QED
    BY <1>6, <1>7, <1>8, <1>9, <1>10 DEF CacheInv

\* encode() and the destructor.
LEMMA WritesInv == ASSUME CacheInv, NEW q \in Queries, C!Encode(q) \/ C!Close(q) PROVE CacheInv'
<1>1. CacheType /\ WritersOK /\ C!AnswersRight
    BY DEF CacheInv
<1>2. CASE C!Encode(q)
  <2>1. /\ Writing(q) /\ pos[q] \in Nat /\ pos[q] < chunks - 1 /\ chunks \in Nat
        /\ outcome' = outcome /\ UNCHANGED <<chunks, overlapped>>
      BY <1>1, <1>2 DEF C!Encode, Writing, WritersOK, CacheType
  <2>2. pos' = [pos EXCEPT ![q] = pos[q] + 1] /\ pos'[q] = pos[q] + 1
      BY <1>1, <1>2 DEF C!Encode, CacheType
  <2>3. PICK l \in {"write", "mv"} :
           /\ pc' = [pc EXCEPT ![q] = l]
           /\ l = IF pos[q] + 1 = chunks - 1 THEN "mv" ELSE "write"
      BY <1>2, <2>2 DEF C!Encode, C!Goto
  <2>4. outcome' \in [Queries -> {"none", "right", "wrong", "error", "raised"}] /\ C!AnswersRight'
      BY <1>1, <2>1 DEF CacheType, C!AnswersRight
  <2>5. (l = "write" => pos[q] + 1 < chunks - 1) /\ (l = "mv" => pos[q] + 1 = chunks - 1) /\ l # "done"
      BY <2>1, <2>3
  <2> QED
      BY <1>2, <2>1, <2>2, <2>3, <2>4, <2>5, WritePart DEF C!Encode
<1>3. CASE C!Close(q)
  <2>1. Writing(q) /\ pos[q] \in Nat /\ pos[q] + 1 = chunks /\ chunks \in Nat
      BY <1>1, <1>3 DEF C!Close, Writing, WritersOK, CacheType
  <2>2. /\ content' = [content EXCEPT ![fd[q]] = C!Written(@, pos[q] + 1)]
        /\ pos' = [pos EXCEPT ![q] = pos[q] + 1] /\ pc' = [pc EXCEPT ![q] = "done"]
        /\ UNCHANGED <<chunks, tmp, final, fd, overlapped, crashes>>
        /\ outcome' = [outcome EXCEPT ![q] = IF outcome[q] = "error" THEN "error" ELSE "right"]
      BY <1>3, <2>1 DEF C!Close, C!Goto
  <2>3. outcome' \in [Queries -> {"none", "right", "wrong", "error", "raised"}] /\ C!AnswersRight'
      BY <1>1, <2>2 DEF CacheType, C!AnswersRight
  <2> QED
      BY <2>1, <2>2, <2>3, WritePart
<1> QED
    BY <1>2, <1>3

\* The temporary file is opened and emptied.
LEMMA OpenTmpInv == ASSUME CacheInv, NEW q \in Queries, C!OpenTmp(q) PROVE CacheInv'
<1>1. CacheType /\ WritersOK /\ LengthsOK /\ PartsComing /\ NoHoles /\ C!AnswersRight
    BY DEF CacheInv
<1>2. PICK i \in Inodes :
         /\ IF tmp # NoInode THEN i = tmp ELSE i # final /\ \A r \in C!Active : fd[r] # i
         /\ tmp' = i /\ content' = [content EXCEPT ![i] = << >>] /\ fd' = [fd EXCEPT ![q] = i]
    BY DEF C!OpenTmp
<1>3. /\ pc[q] = "open" /\ pos' = [pos EXCEPT ![q] = 0]
      /\ pc' = [pc EXCEPT ![q] = IF chunks = 1 THEN "mv" ELSE "write"]
      /\ UNCHANGED <<chunks, final, outcome, overlapped, crashes>>
    BY DEF C!OpenTmp, C!Goto
<1>4. /\ \A r \in Queries \ {q} : pc'[r] = pc[r] /\ pos'[r] = pos[r] /\ fd'[r] = fd[r]
      /\ pc'[q] \in {"mv", "write"} /\ (pc'[q] = "mv" <=> chunks = 1) /\ pos'[q] = 0 /\ fd'[q] = i
      /\ content'[i] = << >> /\ \A k \in Inodes \ {i} : content'[k] = content[k]
      /\ chunks \in Nat /\ chunks > 0
    BY <1>1, <1>2, <1>3 DEF CacheType
<1>5. Len(content'[i]) = 0 /\ << >> \in Seq({"data", "hole"})
    BY <1>4, EmptySeq
<1>6. CacheType'
  <2>1. content' \in [Inodes -> Seq({"data", "hole"})]
      BY <1>1, <1>2, <1>5 DEF CacheType
  <2> QED
      BY <1>1, <1>2, <1>3, <2>1 DEF CacheType
<1>7. WritersOK'
    BY <1>1, <1>3, <1>4 DEF WritersOK, Writing
<1>8. LengthsOK'
    BY <1>1, <1>3, <1>4, <1>5 DEF LengthsOK
<1>w. Writing(q)' /\ fd'[q] = i /\ pos'[q] = 0 /\ ~Writing(q)
    BY <1>3, <1>4 DEF Writing
<1>9. PartsComing'
  <2> SUFFICES ASSUME crashes = 0, NEW k \in {i, final} \ {NoInode}, NEW n \in 1..chunks
               PROVE  \/ Has(k, n)'
                      \/ \E r \in Queries : Writing(r)' /\ fd'[r] = k /\ pos'[r] < n
      BY <1>2, <1>3 DEF PartsComing
  <2>1. CASE k = i
      BY <1>4, <1>w, <2>1
  <2>2. CASE k # i
    <3>1. k = final /\ k \in Inodes
        BY <1>1, <2>2 DEF CacheType
    <3>2. Has(k, n) => Has(k, n)'
        BY <1>4, <2>2, <3>1 DEF Has
    <3>3. \A r \in Queries : Writing(r) /\ fd[r] = k /\ pos[r] < n => Writing(r)' /\ fd'[r] = k /\ pos'[r] < n
        BY <1>4, <1>w DEF Writing
    <3> QED
        BY <1>1, <3>1, <3>2, <3>3 DEF PartsComing
  <2> QED
      BY <2>1, <2>2
<1>10. NoHoles'
  <2> SUFFICES ASSUME ~overlapped PROVE NoHoles'
      BY <1>3 DEF NoHoles
  <2>1. q \in C!Active
      BY <1>3 DEF C!Active, C!Over
  <2>2. \A r \in Queries \ {q} : pc'[r] \in C!Over
      BY <1>1, <1>4, <2>1 DEF NoHoles, C!Active
  <2>3. (\A r \in C!Active' : r = q) /\ \A r \in Queries : Writing(r)' => r = q
      BY <2>2 DEF C!Active, Writing, C!Over
  <2>4. \A k \in Inodes : \A n \in 1..Len(content'[k]) : content'[k][n] = "data"
      BY <1>1, <1>4, <1>5 DEF NoHoles
  <2> QED
      BY <1>4, <1>5, <2>3, <2>4 DEF NoHoles
<1>11. C!AnswersRight'
    BY <1>1, <1>3 DEF C!AnswersRight
<1> QED
    BY <1>6, <1>7, <1>8, <1>9, <1>10, <1>11 DEF CacheInv

\* mv().
LEMMA MoveInv == ASSUME CacheInv, NEW q \in Queries, C!Move(q) PROVE CacheInv'
<1>1. CacheType /\ WritersOK /\ LengthsOK /\ PartsComing /\ NoHoles /\ C!AnswersRight
    BY DEF CacheInv
<1>2. /\ pc[q] = "mv" /\ pc' = [pc EXCEPT ![q] = "close"]
      /\ UNCHANGED <<chunks, content, fd, pos, overlapped, crashes>>
      /\ \/ tmp # NoInode /\ final' = tmp /\ tmp' = NoInode /\ outcome' = outcome
         \/ outcome' = [outcome EXCEPT ![q] = "error"] /\ UNCHANGED <<tmp, final>>
    BY DEF C!Move, C!Goto
<1>3. CacheType'
    BY <1>1, <1>2 DEF CacheType
<1>4. \A r \in Queries : Writing(r)' <=> Writing(r)
    BY <1>1, <1>2 DEF CacheType, Writing
<1>5. WritersOK'
    BY <1>1, <1>2, <1>4 DEF WritersOK, CacheType, Writing
<1>6. LengthsOK' /\ C!AnswersRight'
    BY <1>1, <1>2 DEF LengthsOK, C!AnswersRight, CacheType
<1>7. PartsComing'
    BY <1>1, <1>2, <1>4 DEF PartsComing, Has
<1>8. NoHoles'
  <2>1. \A r \in Queries : r \in C!Active' => r \in C!Active
      BY <1>1, <1>2 DEF C!Active, C!Over, CacheType
  <2> QED
      BY <1>1, <1>2, <1>4, <2>1 DEF NoHoles, C!Active
<1> QED
    BY <1>3, <1>5, <1>6, <1>7, <1>8 DEF CacheInv

\* The process dies.
LEMMA CrashInv == ASSUME CacheInv, C!Crash PROVE CacheInv'
<1>1. CacheType /\ WritersOK /\ LengthsOK /\ PartsComing /\ NoHoles /\ C!AnswersRight
    BY DEF CacheInv
<1>2. /\ crashes' = crashes + 1
      /\ pc' = [q \in Queries |-> IF q \in C!Active THEN "dead" ELSE pc[q]]
      /\ UNCHANGED <<chunks, tmp, final, content, fd, pos, outcome, overlapped>>
    BY DEF C!Crash, C!files
<1>3. CacheType'
    BY <1>1, <1>2 DEF CacheType
<1>4. \A q \in Queries : ~Writing(q)' /\ pc'[q] # "read" /\ q \notin C!Active'
    BY <1>2 DEF Writing, C!Active, C!Over
<1>5. WritersOK' /\ LengthsOK'
    BY <1>1, <1>2, <1>4 DEF WritersOK, LengthsOK, Writing
<1>6. PartsComing'
    BY <1>1, <1>2 DEF PartsComing, CacheType
<1>7. NoHoles' /\ C!AnswersRight'
    BY <1>1, <1>2, <1>4 DEF NoHoles, C!AnswersRight, C!Active
<1> QED
    BY <1>3, <1>5, <1>6, <1>7 DEF CacheInv

\* Every step of the cache.
LEMMA CacheStep == CacheInv /\ [C!Next]_(C!vars) => CacheInv'
<1> SUFFICES ASSUME CacheInv, [C!Next]_(C!vars) PROVE CacheInv'
    OBVIOUS
<1>1. CASE UNCHANGED C!vars
    BY <1>1
    DEF C!vars, C!files, CacheInv, CacheType, WritersOK, LengthsOK, PartsComing, Has, NoHoles, Writing,
        C!Active, C!AnswersRight
<1> QED
    BY <1>1, LookupInv, ReadInv, WritesInv, OpenTmpInv, MoveInv, CrashInv DEF C!Next

\* There is nothing in the cache, and nobody uses it.
LEMMA CacheStarts == C!Init => CacheInv
<1> SUFFICES ASSUME C!Init PROVE CacheInv
    OBVIOUS
<1>1. CacheType
  <2>1. chunks \in Nat /\ chunks > 0
      BY CacheAssumption DEF C!Init
  <2>2. << >> \in Seq({"data", "hole"})
      BY EmptySeq
  <2> QED
      BY <2>1, <2>2 DEF C!Init, CacheType
<1>2. \A i \in Inodes : Len(content[i]) = 0
    BY EmptySeq DEF C!Init
<1>3. \A q \in Queries : ~Writing(q) /\ pc[q] # "read" /\ q \notin C!Active
    BY DEF C!Init, Writing, C!Active, C!Over
<1> QED
    BY <1>1, <1>2, <1>3
    DEF C!Init, CacheInv, CacheType, WritersOK, LengthsOK, PartsComing, NoHoles, C!AnswersRight, C!Active

\* The result cache of accumulate(), for any number of queries, crashes and
\* flushes: an answer from the cache is the whole answer if queries do not
\* overlap or the encoding fits the buffer, and without crashes the file is
\* complete once nobody writes any more, however writers were interleaved.
THEOREM QueryCacheRight == C!Spec => []CacheRight
<1>1. CacheInv => CacheRight
  <2> SUFFICES ASSUME CacheInv PROVE C!CacheSettles
      BY DEF CacheInv, CacheRight, C!CacheRight
  <2> SUFFICES ASSUME C!Active = {}, crashes = 0, final # NoInode
               PROVE  C!Complete(final)
      BY DEF C!CacheSettles
  <2>1. CacheType /\ LengthsOK /\ PartsComing
      BY DEF CacheInv
  <2>2. final \in Inodes /\ content[final] \in Seq({"data", "hole"}) /\ chunks \in Nat
      BY <2>1 DEF CacheType
  <2>3. \A q \in Queries : ~Writing(q)
      BY DEF Writing, C!Active, C!Over
  <2>4. \A n \in 1..chunks : Has(final, n)
      BY <2>1, <2>2, <2>3 DEF PartsComing
  <2>5. /\ Len(content[final]) \in Nat /\ Len(content[final]) <= chunks
        /\ content[final] = [n \in 1..Len(content[final]) |-> content[final][n]]
      BY <2>1, <2>2, LenProperties DEF LengthsOK
  <2>6. chunks <= Len(content[final])
      BY <2>2, <2>4, <2>5 DEF Has
  <2>7. Len(content[final]) = chunks
      BY <2>2, <2>5, <2>6
  <2>8. \A n \in 1..chunks : content[final][n] = "data"
      BY <2>4 DEF Has
  <2> QED
      BY <2>5, <2>7, <2>8 DEF C!Complete
<1> QED
    BY <1>1, CacheStarts, CacheStep, PTL DEF C!Spec
=============================================================================
