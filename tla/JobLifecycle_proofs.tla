------------------------ MODULE JobLifecycle_proofs ------------------------
(***************************************************************************)
(* What holds of JobLifecycle for every set of jobs, servers and workers,  *)
(* every choice of admitted faults and any number of them.                 *)
(***************************************************************************)
EXTENDS JobLifecycle, FiniteSetTheorems, TLAPS

LEMMA HealthForType == \A o \in Observation : HealthFor(o) \in Health
  BY DEF HealthFor, Observation, Health

LEMMA StatusForType == \A r \in RunnerStatus : StatusFor(r) \in Finished
  BY DEF StatusFor, RunnerStatus, Finished

LEMMA NoHostsType == NoHosts \in [Servers -> Observation]
  BY DEF NoHosts, Observation

\* Every step is one of the actions or leaves everything as it is.
LEMMA StepIsAction ==
  [Next]_vars =>
    \/ \E j \in Jobs, S \in SUBSET Servers : Submit(j, S)
    \/ \E j \in Jobs : AttachServers(j)
    \/ \E j \in Jobs : AttachRefused(j)
    \/ \E j \in Jobs : RecordLaunch(j)
    \/ \E j \in Jobs : Publish(j)
    \/ \E j \in Jobs : LoadForRemoval(j)
    \/ \E j \in Jobs : RecordRemoval(j)
    \/ \E j \in Jobs : RemoveRow(j)
    \/ \E s \in Servers : DeleteServer(s)
    \/ \E w \in Workers, j \in Jobs : Receive(w, j)
    \/ \E w \in Workers : Fetch(w)
    \/ \E w \in Workers : MarkRunning(w)
    \/ \E w \in Workers : ReadServers(w)
    \/ \E w \in Workers : StartRun(w)
    \/ \E w \in Workers, r \in RunnerStatus, h \in [Servers -> Observation] : RunEnds(w, r, h)
    \/ \E w \in Workers : RunRaises(w)
    \/ \E w \in Workers : MarkFinished(w)
    \/ \E w \in Workers : SaveRaises(w)
    \/ \E w \in Workers, s \in Servers : RecordServer(w, s)
    \/ \E w \in Workers, s \in Servers : RecordServerRaises(w, s)
    \/ \E w \in Workers : AllRecorded(w)
    \/ \E w \in Workers : Ack(w)
    \/ \E j \in Jobs : CreatorDies(j)
    \/ \E j \in Jobs : RemoverDies(j)
    \/ \E j \in Jobs : LoseMessage(j)
    \/ \E w \in Workers : WorkerLost(w)
    \/ \E w \in Workers : SoftLimit(w)
    \/ \E w \in Workers : HardLimit(w)
    \/ \E w \in Workers : Redeliver(w)
    \/ UNCHANGED vars
  BY DEF Next, Creating, Removing, Working, Running, Failing

----------------------------------------------------------------------------
(* Types.  TypeOK alone is not inductive: a worker's steps index the rows by *)
(* the job in its hand, and the number of directories on disk stays natural  *)
(* only because every run that ends had created one: each directory is that  *)
(* of a run in progress or one a run was cut off from.                       *)

\* A worker has a job in hand exactly while it is in a task.
HoldsTask == \A w \in Workers : pc[w] = "idle" <=> task[w] = Nobody

TypeInv == TypeOK /\ HoldsTask /\ LeftoversAreExplained

LEMMA RunningOnIsFinite ==
  \A j : IsFiniteSet(RunningOn(j)) /\ Cardinality(RunningOn(j)) \in Nat
<1> TAKE j
<1>1. RunningOn(j) \in SUBSET Workers
  BY DEF RunningOn
<1>. QED
  BY <1>1, WorkersAreFinite, FS_Subset, FS_CardinalityType

LEMMA RunningHasDir ==
  ASSUME TypeInv, NEW w \in Workers, pc[w] = "running"
  PROVE  task[w] \in Jobs /\ dirs[task[w]] > 0
<1>1. task[w] \in Jobs
  BY DEF TypeInv, TypeOK, HoldsTask
<1>2. w \in RunningOn(task[w])
  BY DEF RunningOn
<1>3. Cardinality(RunningOn(task[w])) # 0
  BY <1>2, RunningOnIsFinite, FS_EmptySet
<1>4. /\ dirs[task[w]] = Cardinality(RunningOn(task[w])) + left[task[w]]
      /\ left[task[w]] \in Nat
  BY <1>1 DEF TypeInv, TypeOK, LeftoversAreExplained
<1>5. Cardinality(RunningOn(task[w])) \in Nat
  BY RunningOnIsFinite
<1>. QED
  BY <1>1, <1>3, <1>4, <1>5

\* What a step of worker w that ends in no run does to the directories.
DirFrame(w) ==
    \/ pc[w] # "running" /\ UNCHANGED <<dirs, left>>
    \/ pc[w] = "running" /\ (Removes(w) \/ Leaves(w))

LEMMA DirTypes ==
  ASSUME TypeInv, NEW w \in Workers, DirFrame(w)
  PROVE  dirs' \in [Jobs -> Nat] /\ left' \in [Jobs -> Nat]
<1>1. dirs \in [Jobs -> Nat] /\ left \in [Jobs -> Nat]
  BY DEF TypeInv, TypeOK
<1>2. CASE pc[w] = "running" /\ Removes(w)
  <2>1. task[w] \in Jobs /\ dirs[task[w]] > 0 /\ dirs[task[w]] \in Nat
    BY <1>1, <1>2, RunningHasDir
  <2>2. dirs[task[w]] - 1 \in Nat
    BY <2>1
  <2>. QED
    BY <1>1, <1>2, <2>2 DEF Removes
<1>3. CASE pc[w] = "running" /\ Leaves(w)
  <2>1. task[w] \in Jobs /\ left[task[w]] + 1 \in Nat
    BY <1>1, <1>3, RunningHasDir
  <2>. QED
    BY <1>1, <1>3, <2>1 DEF Leaves
<1>. QED
  BY <1>1, <1>2, <1>3 DEF DirFrame

LEMMA TypeStep ==
  ASSUME TypeInv, [Next]_vars
  PROVE  TypeOK' /\ HoldsTask'
<1> USE DEF TypeInv, TypeOK, HoldsTask, rowVars, webVars, taskVars, localVars,
            histVars, GoTo, Fault
<1>1. ASSUME NEW j \in Jobs, NEW S \in SUBSET Servers, Submit(j, S)
      PROVE  TypeOK' /\ HoldsTask'
    BY <1>1 DEF Submit, RowStatus, Unfinished
<1>2. ASSUME NEW j \in Jobs, AttachServers(j) PROVE TypeOK' /\ HoldsTask'
    BY <1>2 DEF AttachServers, Attached, LiveServers
<1>3. ASSUME NEW j \in Jobs, AttachRefused(j) PROVE TypeOK' /\ HoldsTask'
    BY <1>3 DEF AttachRefused
<1>4. ASSUME NEW j \in Jobs, RecordLaunch(j) PROVE TypeOK' /\ HoldsTask'
    BY <1>4 DEF RecordLaunch
<1>5. ASSUME NEW j \in Jobs, Publish(j) PROVE TypeOK' /\ HoldsTask'
    BY <1>5 DEF Publish, PublishAfter
<1>6. ASSUME NEW j \in Jobs, LoadForRemoval(j) PROVE TypeOK' /\ HoldsTask'
    BY <1>6 DEF LoadForRemoval
<1>7. ASSUME NEW j \in Jobs, RecordRemoval(j) PROVE TypeOK' /\ HoldsTask'
    BY <1>7 DEF RecordRemoval
<1>8. ASSUME NEW j \in Jobs, RemoveRow(j) PROVE TypeOK' /\ HoldsTask'
    BY <1>8, NoHostsType DEF RemoveRow, RemoveRowAfter, RowStatus
<1>9. ASSUME NEW s \in Servers, DeleteServer(s) PROVE TypeOK' /\ HoldsTask'
    BY <1>9 DEF DeleteServer, Health
<1>10. ASSUME NEW w \in Workers, NEW j \in Jobs, Receive(w, j)
      PROVE  TypeOK' /\ HoldsTask'
    BY <1>10, NobodyIsNoJob DEF Receive, Step
<1>11. ASSUME NEW w \in Workers, Fetch(w) PROVE TypeOK' /\ HoldsTask'
    BY <1>11 DEF Fetch, Step
<1>12. ASSUME NEW w \in Workers, MarkRunning(w) PROVE TypeOK' /\ HoldsTask'
    BY <1>12 DEF MarkRunning, Step, RowStatus, Unfinished
<1>13. ASSUME NEW w \in Workers, ReadServers(w) PROVE TypeOK' /\ HoldsTask'
    BY <1>13 DEF ReadServers, Step
<1>14. ASSUME NEW w \in Workers, StartRun(w) PROVE TypeOK' /\ HoldsTask'
    BY <1>14 DEF StartRun, Step
<1>15. ASSUME NEW w \in Workers, NEW r \in RunnerStatus,
              NEW h \in [Servers -> Observation], RunEnds(w, r, h)
      PROVE  TypeOK' /\ HoldsTask'
  <2>1. DirFrame(w) /\ faults' \in Nat
    BY <1>15 DEF RunEnds, CleanUp, DirFrame
  <2>. QED
    BY <1>15, <2>1, StatusForType, DirTypes DEF RunEnds, Step
<1>16. ASSUME NEW w \in Workers, RunRaises(w) PROVE TypeOK' /\ HoldsTask'
  <2>1. DirFrame(w) /\ faults' \in Nat
    BY <1>16 DEF RunRaises, CleanUp, DirFrame
  <2>. QED
    BY <1>16, <2>1, DirTypes DEF RunRaises, Step
<1>17. ASSUME NEW w \in Workers, MarkFinished(w) PROVE TypeOK' /\ HoldsTask'
  <2>1. AfterFinish(w) \in Step
    BY DEF AfterFinish, Step
  <2>2. RowExists(task[w])
    BY <1>17 DEF MarkFinished, FinishStoring
  <2>3. /\ status' = [status EXCEPT ![task[w]] = verdict[w]]
        /\ recap'  = [recap EXCEPT ![task[w]] = seen[w]]
        /\ pc' = [pc EXCEPT ![w] = AfterFinish(w)]
    BY <1>17, <2>2 DEF MarkFinished, FinishStoring
  <2>4. status' \in [Jobs -> RowStatus] /\ recap' \in [Jobs -> [Servers -> Observation]]
    BY <2>3 DEF RowStatus
  <2>5. AfterFinish(w) # "idle"
    BY DEF AfterFinish
  <2>6. pc' \in [Workers -> Step] /\ HoldsTask'
    BY <2>3, <2>5, <2>1, <1>17 DEF MarkFinished, FinishStoring
  <2>. QED
    BY <2>4, <2>6, <1>17 DEF MarkFinished, FinishStoring
<1>18. ASSUME NEW w \in Workers, NEW s \in Servers, RecordServer(w, s)
      PROVE  TypeOK' /\ HoldsTask'
  <2>1. s \in LiveServers
    BY <1>18 DEF RecordServer
  <2>2. seen[w][s] \in Observation
    OBVIOUS
  <2>3. (IF pc[w] = "record" THEN HealthFor(seen[w][s]) ELSE "ERROR") \in Health
    BY <2>2, HealthForType DEF Health
  <2>4. /\ health' = [health EXCEPT ![s] =
                        IF pc[w] = "record" THEN HealthFor(seen[w][s]) ELSE "ERROR"]
        /\ todo' = [todo EXCEPT ![w] = @ \ {s}]
        /\ pc' = pc
    BY <1>18, <2>1 DEF RecordServer
  <2>5. health' \in [Servers -> Health]
    BY <2>3, <2>4
  <2>6. todo' \in [Workers -> SUBSET Servers]
    BY <2>4
  <2>. QED
    BY <1>18, <2>4, <2>5, <2>6 DEF RecordServer
<1>19. ASSUME NEW w \in Workers, AllRecorded(w) PROVE TypeOK' /\ HoldsTask'
    BY <1>19 DEF AllRecorded, Step
<1>20. ASSUME NEW w \in Workers, Ack(w) PROVE TypeOK' /\ HoldsTask'
    BY <1>20, NoHostsType DEF Ack, Step, Release, Finished
<1>21. ASSUME NEW j \in Jobs, CreatorDies(j) PROVE TypeOK' /\ HoldsTask'
    BY <1>21 DEF CreatorDies
<1>22. ASSUME NEW j \in Jobs, RemoverDies(j) PROVE TypeOK' /\ HoldsTask'
    BY <1>22 DEF RemoverDies
<1>23. ASSUME NEW j \in Jobs, LoseMessage(j) PROVE TypeOK' /\ HoldsTask'
    BY <1>23 DEF LoseMessage
<1>24. ASSUME NEW w \in Workers, WorkerLost(w) PROVE TypeOK' /\ HoldsTask'
  <2>1. DirFrame(w)
    BY <1>24 DEF WorkerLost, LoseWorker, Killed, DirFrame
  <2>. QED
    BY <1>24, <2>1, DirTypes, NoHostsType
       DEF WorkerLost, LoseWorker, Killed, Step, Release, Finished
<1>25. ASSUME NEW w \in Workers, SoftLimit(w) PROVE TypeOK' /\ HoldsTask'
  <2>1. DirFrame(w)
    BY <1>25 DEF SoftLimit, DirFrame
  <2>. QED
    BY <1>25, <2>1, DirTypes DEF SoftLimit, Step
<1>26. ASSUME NEW w \in Workers, HardLimit(w) PROVE TypeOK' /\ HoldsTask'
  <2>1. DirFrame(w)
    BY <1>26 DEF HardLimit, Killed, DirFrame
  <2>. QED
    BY <1>26, <2>1, DirTypes, NoHostsType DEF HardLimit, Killed, Step, Release, Finished
<1>27. ASSUME NEW w \in Workers, Redeliver(w) PROVE TypeOK' /\ HoldsTask'
    BY <1>27 DEF Redeliver
<1>28. ASSUME NEW w \in Workers, SaveRaises(w) PROVE TypeOK' /\ HoldsTask'
    BY <1>28 DEF SaveRaises, Step
<1>29. ASSUME NEW w \in Workers, NEW s \in Servers, RecordServerRaises(w, s)
      PROVE  TypeOK' /\ HoldsTask'
    BY <1>29 DEF RecordServerRaises, Step
<1>30. CASE UNCHANGED vars
    BY <1>30 DEF vars
<1>. QED
    BY <1>1, <1>2, <1>3, <1>4, <1>5, <1>6, <1>7, <1>8, <1>9, <1>10, <1>11,
       <1>12, <1>13, <1>14, <1>15, <1>16, <1>17, <1>18, <1>19, <1>20, <1>21,
       <1>22, <1>23, <1>24, <1>25, <1>26, <1>27, <1>28, <1>29,
     <1>30, StepIsAction

\* What a step does to the runs in progress: it starts one, or one worker is
\* no longer in a run and has removed its directory or left it, or none of
\* this moves.
LEMMA RunningFrame ==
  ASSUME TypeInv, [Next]_vars
  PROVE  \/ \E w \in Workers : StartRun(w)
         \/ \E w \in Workers :
              /\ \A v \in Workers \ {w} : pc'[v] = pc[v] /\ task'[v] = task[v]
              /\ pc'[w] # "running"
              /\ DirFrame(w) /\ faults' \in {faults, faults + 1}
         \/ UNCHANGED <<pc, task, dirs, left>> /\ faults' \in {faults, faults + 1}
<1> DEFINE Frame ==
         \/ \E w \in Workers : StartRun(w)
         \/ \E w \in Workers :
              /\ \A v \in Workers \ {w} : pc'[v] = pc[v] /\ task'[v] = task[v]
              /\ pc'[w] # "running"
              /\ DirFrame(w) /\ faults' \in {faults, faults + 1}
         \/ UNCHANGED <<pc, task, dirs, left>> /\ faults' \in {faults, faults + 1}
<1> USE DEF TypeInv, TypeOK, HoldsTask, rowVars, webVars, taskVars, localVars,
            histVars, GoTo, Fault, DirFrame, Removes, Leaves
<1>1. ASSUME NEW j \in Jobs, NEW S \in SUBSET Servers, Submit(j, S) PROVE Frame
    BY <1>1 DEF Submit
<1>2. ASSUME NEW j \in Jobs, AttachServers(j) PROVE Frame
    BY <1>2 DEF AttachServers
<1>3. ASSUME NEW j \in Jobs, AttachRefused(j) PROVE Frame
    BY <1>3 DEF AttachRefused
<1>4. ASSUME NEW j \in Jobs, RecordLaunch(j) PROVE Frame
    BY <1>4 DEF RecordLaunch
<1>5. ASSUME NEW j \in Jobs, Publish(j) PROVE Frame
    BY <1>5 DEF Publish, PublishAfter
<1>6. ASSUME NEW j \in Jobs, LoadForRemoval(j) PROVE Frame
    BY <1>6 DEF LoadForRemoval
<1>7. ASSUME NEW j \in Jobs, RecordRemoval(j) PROVE Frame
    BY <1>7 DEF RecordRemoval
<1>8. ASSUME NEW j \in Jobs, RemoveRow(j) PROVE Frame
    BY <1>8 DEF RemoveRow, RemoveRowAfter
<1>9. ASSUME NEW s \in Servers, DeleteServer(s) PROVE Frame
    BY <1>9 DEF DeleteServer
<1>10. ASSUME NEW w \in Workers, NEW j \in Jobs, Receive(w, j) PROVE Frame
    BY <1>10 DEF Receive
<1>11. ASSUME NEW w \in Workers, Fetch(w) PROVE Frame
    BY <1>11 DEF Fetch
<1>12. ASSUME NEW w \in Workers, MarkRunning(w) PROVE Frame
    BY <1>12 DEF MarkRunning
<1>13. ASSUME NEW w \in Workers, ReadServers(w) PROVE Frame
    BY <1>13 DEF ReadServers
<1>14. ASSUME NEW w \in Workers, StartRun(w) PROVE Frame
    BY <1>14 DEF StartRun
<1>15. ASSUME NEW w \in Workers, NEW r \in RunnerStatus,
              NEW h \in [Servers -> Observation], RunEnds(w, r, h) PROVE Frame
    BY <1>15 DEF RunEnds, CleanUp
<1>16. ASSUME NEW w \in Workers, RunRaises(w) PROVE Frame
    BY <1>16 DEF RunRaises, CleanUp
<1>17. ASSUME NEW w \in Workers, MarkFinished(w) PROVE Frame
    BY <1>17 DEF MarkFinished, FinishStoring, AfterFinish
<1>18. ASSUME NEW w \in Workers, NEW s \in Servers, RecordServer(w, s) PROVE Frame
    BY <1>18 DEF RecordServer
<1>19. ASSUME NEW w \in Workers, AllRecorded(w) PROVE Frame
    BY <1>19 DEF AllRecorded
<1>20. ASSUME NEW w \in Workers, Ack(w) PROVE Frame
    BY <1>20 DEF Ack, Release
<1>21. ASSUME NEW j \in Jobs, CreatorDies(j) PROVE Frame
    BY <1>21 DEF CreatorDies
<1>22. ASSUME NEW j \in Jobs, RemoverDies(j) PROVE Frame
    BY <1>22 DEF RemoverDies
<1>23. ASSUME NEW j \in Jobs, LoseMessage(j) PROVE Frame
    BY <1>23 DEF LoseMessage
<1>24. ASSUME NEW w \in Workers, WorkerLost(w) PROVE Frame
    BY <1>24 DEF WorkerLost, LoseWorker, Killed, Release
<1>25. ASSUME NEW w \in Workers, SoftLimit(w) PROVE Frame
    BY <1>25 DEF SoftLimit
<1>26. ASSUME NEW w \in Workers, HardLimit(w) PROVE Frame
    BY <1>26 DEF HardLimit, Killed, Release
<1>27. ASSUME NEW w \in Workers, Redeliver(w) PROVE Frame
    BY <1>27 DEF Redeliver
<1>28. ASSUME NEW w \in Workers, SaveRaises(w) PROVE Frame
    BY <1>28 DEF SaveRaises, Step
<1>29. ASSUME NEW w \in Workers, NEW s \in Servers, RecordServerRaises(w, s)
      PROVE  Frame
    BY <1>29 DEF RecordServerRaises, Step
<1>30. CASE UNCHANGED vars
    BY <1>30 DEF vars
<1>. QED
    BY <1>1, <1>2, <1>3, <1>4, <1>5, <1>6, <1>7, <1>8, <1>9, <1>10, <1>11,
       <1>12, <1>13, <1>14, <1>15, <1>16, <1>17, <1>18, <1>19, <1>20, <1>21,
       <1>22, <1>23, <1>24, <1>25, <1>26, <1>27, <1>28, <1>29,
     <1>30, StepIsAction

LEMMA DirsStep ==
  ASSUME TypeInv, [Next]_vars
  PROVE  LeftoversAreExplained'
<1> SUFFICES ASSUME NEW j \in Jobs
             PROVE  dirs'[j] = Cardinality(RunningOn(j)') + left'[j]
  BY DEF LeftoversAreExplained
<1>0. /\ Cardinality(RunningOn(j)) \in Nat /\ dirs[j] \in Nat /\ left[j] \in Nat
      /\ dirs[j] = Cardinality(RunningOn(j)) + left[j]
  BY RunningOnIsFinite DEF TypeInv, TypeOK, LeftoversAreExplained
<1>1. ASSUME NEW w \in Workers, StartRun(w)
      PROVE  dirs'[j] = Cardinality(RunningOn(j)') + left'[j]
  <2>0. left' = left
    BY <1>1 DEF StartRun
  <2>1. CASE task[w] = j
    <3>1. RunningOn(j)' = RunningOn(j) \cup {w}
      BY <1>1, <2>1 DEF StartRun, GoTo, localVars, RunningOn, TypeInv, TypeOK
    <3>2. w \notin RunningOn(j)
      BY <1>1 DEF StartRun, RunningOn
    <3>3. dirs'[j] = dirs[j] + 1
      BY <1>1, <2>1 DEF StartRun, TypeInv, TypeOK
    <3>4. Cardinality(RunningOn(j) \cup {w}) = Cardinality(RunningOn(j)) + 1
      BY <3>2, RunningOnIsFinite, FS_AddElement
    <3>. QED
      BY <3>1, <3>3, <3>4, <2>0, <1>0
  <2>2. CASE task[w] # j
    <3>1. RunningOn(j)' = RunningOn(j)
      BY <1>1, <2>2 DEF StartRun, GoTo, localVars, RunningOn, TypeInv, TypeOK
    <3>2. dirs'[j] = dirs[j]
      BY <1>1, <2>2 DEF StartRun, TypeInv, TypeOK
    <3>. QED
      BY <3>1, <3>2, <2>0, <1>0
  <2>. QED
    BY <2>1, <2>2
<1>2. ASSUME NEW w \in Workers,
             \A v \in Workers \ {w} : pc'[v] = pc[v] /\ task'[v] = task[v],
             pc'[w] # "running",
             DirFrame(w)
      PROVE  dirs'[j] = Cardinality(RunningOn(j)') + left'[j]
  <2>1. RunningOn(j)' = RunningOn(j) \ {w}
    BY <1>2 DEF RunningOn
  <2>2. Cardinality(RunningOn(j)') =
          IF w \in RunningOn(j) THEN Cardinality(RunningOn(j)) - 1
                                ELSE Cardinality(RunningOn(j))
    BY <2>1, RunningOnIsFinite, FS_RemoveElement
  <2>3. CASE w \in RunningOn(j)
    <3>1. pc[w] = "running" /\ task[w] = j
      BY <2>3 DEF RunningOn
    <3>2. \/ dirs'[j] = dirs[j] - 1 /\ left'[j] = left[j]
          \/ dirs'[j] = dirs[j] /\ left'[j] = left[j] + 1
      BY <3>1, <1>2 DEF DirFrame, Removes, Leaves, TypeInv, TypeOK
    <3>. QED
      BY <2>2, <2>3, <3>2, <1>0
  <2>4. CASE w \notin RunningOn(j)
    <3>1. dirs'[j] = dirs[j] /\ left'[j] = left[j]
      BY <2>4, <1>2 DEF DirFrame, Removes, Leaves, RunningOn, TypeInv, TypeOK
    <3>. QED
      BY <2>2, <2>4, <3>1, <1>0
  <2>. QED
    BY <2>3, <2>4
<1>3. CASE UNCHANGED <<pc, task, dirs, left>>
  BY <1>3, <1>0 DEF RunningOn
<1>. QED
  BY <1>1, <1>2, <1>3, RunningFrame

\* The inductive form of type correctness.
THEOREM TypeInvariant == Spec => []TypeInv
<1>1. Init => TypeInv
  <2> SUFFICES ASSUME Init PROVE TypeInv
    OBVIOUS
  <2>1. TypeOK /\ HoldsTask
    BY NoHostsType DEF Init, TypeOK, HoldsTask, RowStatus, Health, Step, Finished, Jobs
  <2>2. \A j \in Jobs : RunningOn(j) = {}
    BY DEF Init, RunningOn
  <2>3. \A j \in Jobs : Cardinality(RunningOn(j)) = 0 /\ dirs[j] = 0 /\ left[j] = 0
    BY <2>2, FS_EmptySet DEF Init
  <2>. QED
    BY <2>1, <2>3 DEF TypeInv, LeftoversAreExplained
<1>2. TypeInv /\ [Next]_vars => TypeInv'
  BY TypeStep, DirsStep DEF TypeInv
<1>. QED
  BY <1>1, <1>2, PTL DEF Spec

\* Every variable keeps its type, the number of directories included.
THEOREM TypesAreCorrect == Spec => []TypeOK
<1>1. TypeInv => TypeOK
  BY DEF TypeInv
<1>. QED
  BY <1>1, TypeInvariant, PTL

\* automation/runner.py: the directory of a run is there exactly while the run is,
\* unless that very run was cut off from it, and then for good.
THEOREM LeftoversHaveAReason == Spec => []LeftoversAreExplained
<1>1. TypeInv => LeftoversAreExplained
  BY DEF TypeInv
<1>. QED
  BY <1>1, TypeInvariant, PTL

----------------------------------------------------------------------------
(* Records.  Everything that runs was recorded before, and leaves its record. *)

\* Past mark_running.
Begun == {"targets", "run", "running", "finish_result", "finish_error",
          "finish_empty", "record", "mark_error"}

RecordInv ==
    /\ \A j \in Jobs : queue[j] > 0 \/ runs[j] > 0 => creator[j] = "published"
    /\ \A w \in Workers : pc[w] # "idle" => creator[task[w]] = "published"
    /\ \A j \in Jobs : creator[j] \in {"recorded", "published"} => "LAUNCH" \in trail[j]
    /\ \A j \in Jobs : creator[j] = "new" <=> status[j] = "none"
    /\ \A j \in Jobs : runs[j] > 0 => status[j] \notin {"none", "QUEUED"}
    /\ \A w \in Workers : pc[w] \in Begun => status[task[w]] \notin {"none", "QUEUED"}
    /\ \A j \in Jobs : remover[j] # "none" => status[j] # "none"
    /\ \A j \in Jobs : status[j] = "deleted" => remover[j] = "done"
    /\ \A j \in Jobs : remover[j] \in {"recorded", "done"} => "DELETE" \in trail[j]

LEMMA RecordStep ==
  ASSUME TypeInv, RecordInv, [Next]_vars
  PROVE  RecordInv'
<1> USE DEF TypeInv, TypeOK, HoldsTask, RecordInv, Begun, rowVars, webVars,
            taskVars, localVars, histVars, GoTo, Fault
<1>1. ASSUME NEW j \in Jobs, NEW S \in SUBSET Servers, Submit(j, S) PROVE RecordInv'
  BY <1>1 DEF Submit
<1>2. ASSUME NEW j \in Jobs, AttachServers(j) PROVE RecordInv'
  BY <1>2 DEF AttachServers
<1>3. ASSUME NEW j \in Jobs, AttachRefused(j) PROVE RecordInv'
  BY <1>3 DEF AttachRefused
<1>4. ASSUME NEW j \in Jobs, RecordLaunch(j) PROVE RecordInv'
  BY <1>4 DEF RecordLaunch
<1>5. ASSUME NEW j \in Jobs, Publish(j) PROVE RecordInv'
  BY <1>5 DEF Publish, PublishAfter
<1>6. ASSUME NEW j \in Jobs, LoadForRemoval(j) PROVE RecordInv'
  BY <1>6 DEF LoadForRemoval, RowExists
<1>7. ASSUME NEW j \in Jobs, RecordRemoval(j) PROVE RecordInv'
  BY <1>7 DEF RecordRemoval
<1>8. ASSUME NEW j \in Jobs, RemoveRow(j) PROVE RecordInv'
  BY <1>8 DEF RemoveRow, RemoveRowAfter
<1>9. ASSUME NEW s \in Servers, DeleteServer(s) PROVE RecordInv'
  BY <1>9 DEF DeleteServer
<1>10. ASSUME NEW w \in Workers, NEW j \in Jobs, Receive(w, j) PROVE RecordInv'
  BY <1>10 DEF Receive
<1>11. ASSUME NEW w \in Workers, Fetch(w) PROVE RecordInv'
  BY <1>11 DEF Fetch, Skips
<1>12. ASSUME NEW w \in Workers, MarkRunning(w) PROVE RecordInv'
  <2>1. RowExists(task[w])
    BY <1>12 DEF MarkRunning
  <2>2. /\ status' = [status EXCEPT ![task[w]] = "RUNNING"]
        /\ pc' = [pc EXCEPT ![w] = "targets"]
        /\ task[w] \in Jobs
    BY <1>12, <2>1 DEF MarkRunning
  <2>3. /\ \A j \in Jobs : status'[j] = status[j] \/ status'[j] = "RUNNING"
        /\ \A j \in Jobs : status'[j] = "none" <=> status[j] = "none"
        /\ status'[task[w]] = "RUNNING"
    BY <2>1, <2>2 DEF RowExists
  <2>. QED
    BY <1>12, <2>2, <2>3 DEF MarkRunning
<1>13. ASSUME NEW w \in Workers, ReadServers(w) PROVE RecordInv'
  BY <1>13 DEF ReadServers
<1>14. ASSUME NEW w \in Workers, StartRun(w) PROVE RecordInv'
  BY <1>14 DEF StartRun
<1>15. ASSUME NEW w \in Workers, NEW r \in RunnerStatus,
            NEW h \in [Servers -> Observation], RunEnds(w, r, h) PROVE RecordInv'
  BY <1>15 DEF RunEnds, CleanUp, Removes, Leaves
<1>16. ASSUME NEW w \in Workers, RunRaises(w) PROVE RecordInv'
  BY <1>16 DEF RunRaises, CleanUp, Removes, Leaves
<1>17. ASSUME NEW w \in Workers, MarkFinished(w) PROVE RecordInv'
  <2>1. RowExists(task[w])
    BY <1>17 DEF MarkFinished, FinishStoring
  <2>2. /\ status' = [status EXCEPT ![task[w]] = verdict[w]]
        /\ pc' = [pc EXCEPT ![w] = AfterFinish(w)]
        /\ task[w] \in Jobs /\ pc[w] \in Begun /\ verdict[w] \in Finished
    BY <1>17, <2>1 DEF MarkFinished, FinishStoring
  <2>3. /\ \A j \in Jobs : status'[j] = status[j] \/ status'[j] \in Finished
        /\ \A j \in Jobs : status'[j] = "none" <=> status[j] = "none"
        /\ status'[task[w]] \in Finished
    BY <2>1, <2>2 DEF RowExists, Finished
  <2>4. AfterFinish(w) # "idle"
    BY DEF AfterFinish
  <2>. QED
    BY <1>17, <2>2, <2>3, <2>4 DEF MarkFinished, FinishStoring, Finished
<1>18. ASSUME NEW w \in Workers, NEW s \in Servers, RecordServer(w, s) PROVE RecordInv'
  BY <1>18 DEF RecordServer
<1>19. ASSUME NEW w \in Workers, AllRecorded(w) PROVE RecordInv'
  BY <1>19 DEF AllRecorded
<1>20. ASSUME NEW w \in Workers, Ack(w) PROVE RecordInv'
  BY <1>20 DEF Ack, Release
<1>21. ASSUME NEW j \in Jobs, CreatorDies(j) PROVE RecordInv'
  BY <1>21 DEF CreatorDies
<1>22. ASSUME NEW j \in Jobs, RemoverDies(j) PROVE RecordInv'
  BY <1>22 DEF RemoverDies
<1>23. ASSUME NEW j \in Jobs, LoseMessage(j) PROVE RecordInv'
  BY <1>23 DEF LoseMessage
<1>24. ASSUME NEW w \in Workers, WorkerLost(w) PROVE RecordInv'
  BY <1>24 DEF WorkerLost, LoseWorker, Killed, Leaves, Release
<1>25. ASSUME NEW w \in Workers, SoftLimit(w) PROVE RecordInv'
  BY <1>25 DEF SoftLimit, Removes, Leaves
<1>26. ASSUME NEW w \in Workers, HardLimit(w) PROVE RecordInv'
  BY <1>26 DEF HardLimit, Killed, Leaves, Release
<1>27. ASSUME NEW w \in Workers, Redeliver(w) PROVE RecordInv'
  BY <1>27 DEF Redeliver
<1>28. ASSUME NEW w \in Workers, SaveRaises(w) PROVE RecordInv'
  BY <1>28 DEF SaveRaises, Step
<1>29. ASSUME NEW w \in Workers, NEW s \in Servers, RecordServerRaises(w, s)
      PROVE  RecordInv'
  BY <1>29 DEF RecordServerRaises, Step
<1>30. CASE UNCHANGED vars
  BY <1>30 DEF vars
<1>. QED
  BY <1>1, <1>2, <1>3, <1>4, <1>5, <1>6, <1>7, <1>8, <1>9, <1>10, <1>11,
     <1>12, <1>13, <1>14, <1>15, <1>16, <1>17, <1>18, <1>19, <1>20, <1>21,
     <1>22, <1>23, <1>24, <1>25, <1>26, <1>27, <1>28, <1>29,
     <1>30, StepIsAction

\* jobs/views.py, jobs/tasks.py: the requests, the queue, the workers and the row of a
\* job are never further than what the audit trail says.
THEOREM RecordInvariant == Spec => []RecordInv
<1>1. Init => RecordInv
  BY DEF Init, RecordInv, Begun
<1>2. TypeInv /\ RecordInv /\ [Next]_vars => RecordInv'
  BY RecordStep
<1>. QED
  BY <1>1, <1>2, TypeInvariant, PTL DEF Spec

\* job_create and server_test: nothing is executed that the trail does not know of.
THEOREM LaunchesAreOnRecord == Spec => []LaunchOnRecord
<1>1. RecordInv => LaunchOnRecord
  BY DEF RecordInv, LaunchOnRecord
<1>. QED
  BY <1>1, RecordInvariant, PTL

\* jobs/models.py: every run leaves its row, or the record of the row's removal.
THEOREM RunsLeaveRecords == Spec => []RunLeavesRecord
<1>1. RecordInv => RunLeavesRecord
  BY DEF RecordInv, RunLeavesRecord
<1>. QED
  BY <1>1, RecordInvariant, PTL

----------------------------------------------------------------------------
(* Deliveries.  A published job without a verdict is owed one: a message for *)
(* it waits, or a worker has yet to reach mark_finished.  Redeliveries only  *)
(* add to what is owed.                                                      *)

AtWork == {"fetch", "start", "targets", "run", "running", "finish_result",
           "finish_error", "finish_empty"}

Lossless == Faults \cap {"soft_limit", "hard_limit", "broker_loss"} = {}

OwedInv ==
    \A j \in Jobs :
        creator[j] = "published" /\ status[j] \in Unfinished =>
            queue[j] > 0 \/ \E w \in Workers : task[w] = j /\ pc[w] \in AtWork

LEMMA OwedStep ==
  ASSUME TypeInv, RecordInv, OwedInv, Lossless \/ faults' = 0, [Next]_vars
  PROVE  OwedInv'
<1> USE DEF TypeInv, TypeOK, HoldsTask, OwedInv, AtWork, Lossless, Unfinished,
            rowVars, webVars, taskVars, localVars, histVars, GoTo, Fault
<1>1. ASSUME NEW j \in Jobs, NEW S \in SUBSET Servers, Submit(j, S) PROVE OwedInv'
  BY <1>1 DEF Submit, RecordInv
<1>2. ASSUME NEW j \in Jobs, AttachServers(j) PROVE OwedInv'
  BY <1>2 DEF AttachServers
<1>3. ASSUME NEW j \in Jobs, AttachRefused(j) PROVE OwedInv'
  BY <1>3 DEF AttachRefused
<1>4. ASSUME NEW j \in Jobs, RecordLaunch(j) PROVE OwedInv'
  BY <1>4 DEF RecordLaunch
<1>5. ASSUME NEW j \in Jobs, Publish(j) PROVE OwedInv'
  BY <1>5 DEF Publish, PublishAfter
<1>6. ASSUME NEW j \in Jobs, LoadForRemoval(j) PROVE OwedInv'
  BY <1>6 DEF LoadForRemoval, RowExists
<1>7. ASSUME NEW j \in Jobs, RecordRemoval(j) PROVE OwedInv'
  BY <1>7 DEF RecordRemoval
<1>8. ASSUME NEW j \in Jobs, RemoveRow(j) PROVE OwedInv'
  BY <1>8 DEF RemoveRow, RemoveRowAfter
<1>9. ASSUME NEW s \in Servers, DeleteServer(s) PROVE OwedInv'
  BY <1>9 DEF DeleteServer
<1>10. ASSUME NEW w \in Workers, NEW j \in Jobs, Receive(w, j) PROVE OwedInv'
  <2>1. /\ queue' = [queue EXCEPT ![j] = @ - 1]
        /\ task' = [task EXCEPT ![w] = j] /\ pc' = [pc EXCEPT ![w] = "fetch"]
        /\ pc[w] = "idle" /\ UNCHANGED <<status, creator>>
    BY <1>10 DEF Receive
  <2>2. \A v \in Workers : pc[v] \in AtWork => v # w
    BY <2>1
  <2>3. task'[w] = j /\ pc'[w] \in AtWork
    BY <2>1
  <2>4. \A k \in Jobs : k # j => queue'[k] = queue[k]
    BY <2>1
  <2>5. \A v \in Workers : v # w => task'[v] = task[v] /\ pc'[v] = pc[v]
    BY <2>1
  <2>. QED
    BY <2>1, <2>2, <2>3, <2>4, <2>5
<1>11. ASSUME NEW w \in Workers, Fetch(w) PROVE OwedInv'
  BY <1>11 DEF Fetch, Skips, RowExists, Finished
<1>12. ASSUME NEW w \in Workers, MarkRunning(w) PROVE OwedInv'
  <2>1. RowExists(task[w])
    BY <1>12 DEF MarkRunning
  <2>2. /\ pc' = [pc EXCEPT ![w] = "targets"] /\ UNCHANGED <<task, queue, creator>>
        /\ \A j \in Jobs : j # task[w] => status'[j] = status[j]
    BY <1>12, <2>1 DEF MarkRunning
  <2>3. pc[w] \in AtWork /\ pc'[w] \in AtWork
    BY <1>12, <2>2 DEF MarkRunning
  <2>4. \A v \in Workers : pc[v] \in AtWork => pc'[v] \in AtWork
    BY <2>2, <2>3
  <2>. QED
    BY <2>2, <2>3, <2>4
<1>13. ASSUME NEW w \in Workers, ReadServers(w) PROVE OwedInv'
  BY <1>13 DEF ReadServers
<1>14. ASSUME NEW w \in Workers, StartRun(w) PROVE OwedInv'
  BY <1>14 DEF StartRun
<1>15. ASSUME NEW w \in Workers, NEW r \in RunnerStatus,
            NEW h \in [Servers -> Observation], RunEnds(w, r, h) PROVE OwedInv'
  BY <1>15 DEF RunEnds, CleanUp, Removes, Leaves
<1>16. ASSUME NEW w \in Workers, RunRaises(w) PROVE OwedInv'
  BY <1>16 DEF RunRaises, CleanUp, Removes, Leaves
<1>17. ASSUME NEW w \in Workers, MarkFinished(w) PROVE OwedInv'
  <2>1. UNCHANGED <<task, queue, creator>> /\ \A v \in Workers : v # w => pc'[v] = pc[v]
    BY <1>17 DEF MarkFinished, FinishStoring
  <2>2. /\ status'[task[w]] \notin Unfinished
        /\ \A j \in Jobs : j # task[w] => status'[j] = status[j]
    <3>1. RowExists(task[w])
      BY <1>17 DEF MarkFinished, FinishStoring
    <3>2. status' = [status EXCEPT ![task[w]] = verdict[w]] /\ task[w] \in Jobs
      BY <1>17, <3>1 DEF MarkFinished, FinishStoring
    <3>3. verdict[w] \notin Unfinished
      BY DEF Finished
    <3>. QED
      BY <3>2, <3>3
  <2>3. SUFFICES ASSUME NEW j \in Jobs, creator'[j] = "published",
                        status'[j] \in Unfinished
                 PROVE  queue'[j] > 0 \/ \E v \in Workers : task'[v] = j /\ pc'[v] \in AtWork
    OBVIOUS
  <2>4. j # task[w] /\ status[j] \in Unfinished /\ creator[j] = "published"
    BY <2>1, <2>2, <2>3
  <2>5. queue[j] > 0 \/ \E v \in Workers : task[v] = j /\ pc[v] \in AtWork
    BY <2>4
  <2>. QED
    BY <2>1, <2>4, <2>5
<1>18. ASSUME NEW w \in Workers, NEW s \in Servers, RecordServer(w, s) PROVE OwedInv'
  BY <1>18 DEF RecordServer
<1>19. ASSUME NEW w \in Workers, AllRecorded(w) PROVE OwedInv'
  BY <1>19 DEF AllRecorded
<1>20. ASSUME NEW w \in Workers, Ack(w) PROVE OwedInv'
  BY <1>20 DEF Ack, Release
<1>21. ASSUME NEW j \in Jobs, CreatorDies(j) PROVE OwedInv'
  BY <1>21 DEF CreatorDies
<1>22. ASSUME NEW j \in Jobs, RemoverDies(j) PROVE OwedInv'
  BY <1>22 DEF RemoverDies
<1>23. ASSUME NEW j \in Jobs, LoseMessage(j) PROVE OwedInv'
  BY <1>23 DEF LoseMessage
<1>24. ASSUME NEW w \in Workers, WorkerLost(w) PROVE OwedInv'
  BY <1>24 DEF WorkerLost, LoseWorker, Killed, Leaves, Release
<1>25. ASSUME NEW w \in Workers, SoftLimit(w) PROVE OwedInv'
  BY <1>25 DEF SoftLimit, Removes, Leaves
<1>26. ASSUME NEW w \in Workers, HardLimit(w) PROVE OwedInv'
  BY <1>26 DEF HardLimit, Killed, Leaves, Release
<1>27. ASSUME NEW w \in Workers, Redeliver(w) PROVE OwedInv'
  BY <1>27 DEF Redeliver
<1>28. ASSUME NEW w \in Workers, SaveRaises(w) PROVE OwedInv'
  <2>1. /\ pc' = [pc EXCEPT ![w] = "return"] /\ UNCHANGED <<task, queue, creator, status>>
        /\ status[task[w]] \notin Unfinished
    BY <1>28 DEF SaveRaises, RowExists
  <2>. QED
    BY <2>1
<1>29. ASSUME NEW w \in Workers, NEW s \in Servers, RecordServerRaises(w, s)
      PROVE  OwedInv'
  <2>1. /\ pc' = [pc EXCEPT ![w] = "return"] /\ UNCHANGED <<task, queue, creator, status>>
        /\ pc[w] \notin AtWork
    BY <1>29 DEF RecordServerRaises
  <2>. QED
    BY <2>1
<1>30. CASE UNCHANGED vars
  BY <1>30 DEF vars
<1>. QED
  BY <1>1, <1>2, <1>3, <1>4, <1>5, <1>6, <1>7, <1>8, <1>9, <1>10, <1>11,
     <1>12, <1>13, <1>14, <1>15, <1>16, <1>17, <1>18, <1>19, <1>20, <1>21,
     <1>22, <1>23, <1>24, <1>25, <1>26, <1>27, <1>28, <1>29,
     <1>30, StepIsAction

\* ADR 0003: with acks_late and reject_on_worker_lost no task is silently lost
\* when a worker dies, however often workers die or the broker redelivers.
THEOREM NothingSilentlyLost == Spec => []NotSilentlyLost
<1>1. CASE Lossless
  <2>1. Init => OwedInv
    BY DEF Init, OwedInv
  <2>2. TypeInv /\ RecordInv /\ OwedInv /\ [Next]_vars => OwedInv'
    BY <1>1, OwedStep
  <2>3. TypeInv /\ OwedInv => NotSilentlyLost
    BY DEF OwedInv, NotSilentlyLost, InHand
  <2>. QED
    BY <2>1, <2>2, <2>3, TypeInvariant, RecordInvariant, PTL DEF Spec
<1>2. CASE ~Lossless
  <2>1. NotSilentlyLost
    BY <1>2 DEF Lossless, NotSilentlyLost
  <2>. QED
    BY <2>1, PTL
<1>. QED
  BY <1>1, <1>2

\* What is not published yet was never started.
UnpublishedInv ==
    \A j \in Jobs : creator[j] # "published" => status[j] \in {"none", "QUEUED", "deleted"}

LEMMA UnpublishedStep ==
  ASSUME TypeInv, RecordInv, UnpublishedInv, [Next]_vars
  PROVE  UnpublishedInv'
<1>1. ASSUME NEW w \in Workers, MarkRunning(w) \/ MarkFinished(w) PROVE UnpublishedInv'
  <2>1. pc[w] # "idle" /\ RowExists(task[w]) /\ UNCHANGED creator
    BY <1>1 DEF MarkRunning, MarkFinished, FinishStoring, webVars
  <2>2. creator[task[w]] = "published"
    BY <2>1 DEF RecordInv
  <2>3. \A j \in Jobs : j # task[w] => status'[j] = status[j]
    BY <1>1, <2>1 DEF MarkRunning, MarkFinished, FinishStoring, TypeInv, TypeOK
  <2>. QED
    BY <2>1, <2>2, <2>3 DEF UnpublishedInv
<1>2. ASSUME NEW j \in Jobs, RemoveRow(j) PROVE UnpublishedInv'
  BY <1>2 DEF RemoveRow, RemoveRowAfter, webVars, UnpublishedInv, TypeInv, TypeOK
<1>3. ASSUME NEW j \in Jobs, NEW S \in SUBSET Servers, Submit(j, S) PROVE UnpublishedInv'
  BY <1>3 DEF Submit, UnpublishedInv, TypeInv, TypeOK
<1>4. ASSUME UNCHANGED status, \A j \in Jobs : creator[j] = "published" => creator'[j] = "published"
      PROVE  UnpublishedInv'
  BY <1>4 DEF UnpublishedInv
<1>5. \/ \E w \in Workers : MarkRunning(w) \/ MarkFinished(w)
      \/ \E j \in Jobs : RemoveRow(j)
      \/ \E j \in Jobs, S \in SUBSET Servers : Submit(j, S)
      \/ /\ UNCHANGED status
         /\ \A j \in Jobs : creator[j] = "published" => creator'[j] = "published"
  BY StepIsAction DEF TypeInv, TypeOK, AttachServers, AttachRefused, RecordLaunch, Publish,
     PublishAfter, CreatorDies, LoadForRemoval, RecordRemoval, RemoverDies,
     DeleteServer, Receive, Fetch, ReadServers, StartRun, RunEnds, RunRaises,
     SaveRaises, RecordServer, RecordServerRaises, AllRecorded, Ack, WorkerLost,
     LoseWorker, SoftLimit, HardLimit, Redeliver, LoseMessage, rowVars, webVars, vars
<1>. QED
  BY <1>1, <1>2, <1>3, <1>4, <1>5

LEMMA FaultsOnlyGrow ==
  ASSUME TypeInv, [Next]_vars
  PROVE  faults' \in Nat /\ faults <= faults'
<1>1. faults' \in {faults, faults + 1}
  BY RunningFrame DEF StartRun
<1>. QED
  BY <1>1 DEF TypeInv, TypeOK

\* A row that waits for nobody was never published, or something failed.
THEOREM OrphansHaveAReason == Spec => []OrphansAreExplained
<1> DEFINE Inv == faults > 0 \/ OwedInv
<1>1. Init => Inv /\ UnpublishedInv
  BY DEF Init, OwedInv, UnpublishedInv
<1>2. TypeInv /\ RecordInv /\ Inv /\ [Next]_vars => Inv'
  <2> SUFFICES ASSUME TypeInv, RecordInv, Inv, [Next]_vars PROVE Inv'
    OBVIOUS
  <2>1. CASE faults' = 0
    <3>1. faults = 0
      BY <2>1, FaultsOnlyGrow DEF TypeInv, TypeOK
    <3>2. OwedInv'
      BY <2>1, <3>1, OwedStep
    <3>. QED
      BY <3>2
  <2>2. CASE faults' # 0
    BY <2>2, FaultsOnlyGrow
  <2>. QED
    BY <2>1, <2>2
<1>3. TypeInv /\ RecordInv /\ UnpublishedInv /\ [Next]_vars => UnpublishedInv'
  BY UnpublishedStep
<1>4. TypeInv /\ RecordInv /\ UnpublishedInv /\ Inv => OrphansAreExplained
  <2> SUFFICES ASSUME TypeInv, RecordInv, UnpublishedInv, Inv,
                      NEW j \in Jobs, status[j] \in Unfinished, Abandoned(j)
               PROVE  \/ creator[j] = "died" /\ status[j] = "QUEUED" /\ runs[j] = 0
                      \/ creator[j] = "published" /\ faults > 0
    BY DEF OrphansAreExplained
  <2>1. CASE creator[j] = "published"
    BY <2>1 DEF OwedInv, Abandoned, InHand
  <2>2. CASE creator[j] = "died"
    <3>1. status[j] = "QUEUED"
      BY <2>2 DEF UnpublishedInv, Unfinished
    <3>2. runs[j] = 0
      <4>1. ~(runs[j] > 0)
        BY <2>2 DEF RecordInv
      <4>2. runs[j] \in Nat
        BY DEF TypeInv, TypeOK
      <4>. QED
        BY <4>1, <4>2
    <3>. QED
      BY <2>2, <3>1, <3>2
  <2>. QED
    BY <2>1, <2>2 DEF Abandoned
<1>. QED
  BY <1>1, <1>2, <1>3, <1>4, TypeInvariant, RecordInvariant, PTL DEF Spec

----------------------------------------------------------------------------
(* One delivery at a time.  As long as the broker does not hand out a message *)
(* that is still being worked on, a job has one delivery: a message, or a     *)
(* worker.  From this follow that its runs do not overlap, that only a lost   *)
(* worker is made up for, and that a verdict is never revised.                *)

NoRedelivery == "redelivery" \notin Faults

SingleInv ==
    /\ \A v, w \in Workers : pc[v] # "idle" /\ pc[w] # "idle" /\ task[v] = task[w] => v = w
    /\ \A w \in Workers : pc[w] # "idle" => queue[task[w]] = 0
    /\ \A j \in Jobs : queue[j] <= 1

\* A worker moving on within its task changes no delivery.
LEMMA SingleKept ==
  ASSUME SingleInv, UNCHANGED <<queue, task>>,
         \A v \in Workers : pc'[v] # "idle" => pc[v] # "idle"
  PROVE  SingleInv'
  BY DEF SingleInv

LEMMA SingleStep ==
  ASSUME TypeInv, RecordInv, SingleInv, NoRedelivery, [Next]_vars
  PROVE  SingleInv'
<1> USE DEF TypeInv, TypeOK, HoldsTask, RecordInv, SingleInv, NoRedelivery, rowVars,
            webVars, taskVars, localVars, histVars, GoTo, Fault
<1>1. ASSUME NEW j \in Jobs, NEW S \in SUBSET Servers, Submit(j, S) PROVE SingleInv'
  BY <1>1 DEF Submit
<1>2. ASSUME NEW j \in Jobs, AttachServers(j) PROVE SingleInv'
  BY <1>2 DEF AttachServers
<1>3. ASSUME NEW j \in Jobs, AttachRefused(j) PROVE SingleInv'
  BY <1>3 DEF AttachRefused
<1>4. ASSUME NEW j \in Jobs, RecordLaunch(j) PROVE SingleInv'
  BY <1>4 DEF RecordLaunch
<1>5. ASSUME NEW j \in Jobs, Publish(j) PROVE SingleInv'
  BY <1>5 DEF Publish, PublishAfter
<1>6. ASSUME NEW j \in Jobs, LoadForRemoval(j) PROVE SingleInv'
  BY <1>6 DEF LoadForRemoval
<1>7. ASSUME NEW j \in Jobs, RecordRemoval(j) PROVE SingleInv'
  BY <1>7 DEF RecordRemoval
<1>8. ASSUME NEW j \in Jobs, RemoveRow(j) PROVE SingleInv'
  BY <1>8 DEF RemoveRow, RemoveRowAfter
<1>9. ASSUME NEW s \in Servers, DeleteServer(s) PROVE SingleInv'
  BY <1>9 DEF DeleteServer
<1>10. ASSUME NEW w \in Workers, NEW j \in Jobs, Receive(w, j) PROVE SingleInv'
  BY <1>10 DEF Receive
<1>11. ASSUME NEW w \in Workers, Fetch(w) PROVE SingleInv'
  BY <1>11 DEF Fetch, Skips
<1>12. ASSUME NEW w \in Workers, MarkRunning(w) PROVE SingleInv'
  <2>1. UNCHANGED <<queue, task>> /\ \A v \in Workers : v # w => pc'[v] = pc[v]
    BY <1>12 DEF MarkRunning
  <2>2. pc[w] # "idle"
    BY <1>12 DEF MarkRunning
  <2>. QED
    BY <2>1, <2>2, SingleKept
<1>13. ASSUME NEW w \in Workers, ReadServers(w) PROVE SingleInv'
  BY <1>13 DEF ReadServers
<1>14. ASSUME NEW w \in Workers, StartRun(w) PROVE SingleInv'
  BY <1>14 DEF StartRun
<1>15. ASSUME NEW w \in Workers, NEW r \in RunnerStatus,
            NEW h \in [Servers -> Observation], RunEnds(w, r, h) PROVE SingleInv'
  BY <1>15 DEF RunEnds, CleanUp, Removes, Leaves
<1>16. ASSUME NEW w \in Workers, RunRaises(w) PROVE SingleInv'
  BY <1>16 DEF RunRaises, CleanUp, Removes, Leaves
<1>17. ASSUME NEW w \in Workers, MarkFinished(w) PROVE SingleInv'
  <2>1. UNCHANGED <<queue, task>> /\ \A v \in Workers : v # w => pc'[v] = pc[v]
    BY <1>17 DEF MarkFinished, FinishStoring
  <2>2. pc[w] # "idle"
    BY <1>17 DEF MarkFinished, FinishStoring
  <2>. QED
    BY <2>1, <2>2, SingleKept
<1>18. ASSUME NEW w \in Workers, NEW s \in Servers, RecordServer(w, s) PROVE SingleInv'
  <2>1. UNCHANGED <<queue, task>> /\ \A v \in Workers : v # w => pc'[v] = pc[v]
    BY <1>18 DEF RecordServer
  <2>2. pc[w] # "idle"
    BY <1>18 DEF RecordServer
  <2>. QED
    BY <2>1, <2>2, SingleKept
<1>19. ASSUME NEW w \in Workers, AllRecorded(w) PROVE SingleInv'
  BY <1>19 DEF AllRecorded
<1>20. ASSUME NEW w \in Workers, Ack(w) PROVE SingleInv'
  BY <1>20 DEF Ack, Release
<1>21. ASSUME NEW j \in Jobs, CreatorDies(j) PROVE SingleInv'
  BY <1>21 DEF CreatorDies
<1>22. ASSUME NEW j \in Jobs, RemoverDies(j) PROVE SingleInv'
  BY <1>22 DEF RemoverDies
<1>23. ASSUME NEW j \in Jobs, LoseMessage(j) PROVE SingleInv'
  BY <1>23 DEF LoseMessage
<1>24. ASSUME NEW w \in Workers, WorkerLost(w) PROVE SingleInv'
  BY <1>24 DEF WorkerLost, LoseWorker, Killed, Leaves, Release
<1>25. ASSUME NEW w \in Workers, SoftLimit(w) PROVE SingleInv'
  <2>1. UNCHANGED <<queue, task>> /\ \A v \in Workers : v # w => pc'[v] = pc[v]
    BY <1>25 DEF SoftLimit
  <2>2. pc[w] # "idle"
    BY <1>25 DEF SoftLimit
  <2>. QED
    BY <2>1, <2>2, SingleKept
<1>26. ASSUME NEW w \in Workers, HardLimit(w) PROVE SingleInv'
  BY <1>26 DEF HardLimit, Killed, Leaves, Release
<1>27. ASSUME NEW w \in Workers, Redeliver(w) PROVE SingleInv'
  BY <1>27 DEF Redeliver
<1>28. ASSUME NEW w \in Workers, SaveRaises(w) PROVE SingleInv'
  BY <1>28 DEF SaveRaises, Step
<1>29. ASSUME NEW w \in Workers, NEW s \in Servers, RecordServerRaises(w, s)
      PROVE  SingleInv'
  BY <1>29 DEF RecordServerRaises, Step
<1>30. CASE UNCHANGED vars
  BY <1>30 DEF vars
<1>. QED
  BY <1>1, <1>2, <1>3, <1>4, <1>5, <1>6, <1>7, <1>8, <1>9, <1>10, <1>11,
     <1>12, <1>13, <1>14, <1>15, <1>16, <1>17, <1>18, <1>19, <1>20, <1>21,
     <1>22, <1>23, <1>24, <1>25, <1>26, <1>27, <1>28, <1>29,
     <1>30, StepIsAction

LEMMA SingleInvariant ==
  ASSUME NoRedelivery
  PROVE  Spec => []SingleInv
<1>1. Init => SingleInv
  BY DEF Init, SingleInv
<1>2. TypeInv /\ RecordInv /\ SingleInv /\ [Next]_vars => SingleInv'
  BY SingleStep
<1>. QED
  BY <1>1, <1>2, TypeInvariant, RecordInvariant, PTL DEF Spec

\* Ansible never works twice at the same time on one job.
THEOREM RunsDoNotOverlap == Spec => []OneRunAtATime
<1>1. CASE NoRedelivery
  <2>1. SingleInv => OneRunAtATime
    BY DEF SingleInv, OneRunAtATime
  <2>2. Spec => []SingleInv
    BY <1>1, SingleInvariant
  <2>. QED
    BY <2>1, <2>2, PTL
<1>2. CASE ~NoRedelivery
  <2>1. OneRunAtATime
    BY <1>2 DEF NoRedelivery, OneRunAtATime
  <2>. QED
    BY <2>1, PTL
<1>. QED
  BY <1>1, <1>2

\* A run more than the workers lost with the job needs a delivery that has not
\* reached Ansible yet.
RerunInv ==
    /\ \A j \in Jobs : runs[j] <= lost[j] + 1
    /\ \A j \in Jobs : queue[j] > 0 => runs[j] <= lost[j]
    /\ \A w \in Workers : pc[w] \in {"fetch", "start", "targets", "run"} =>
                            runs[task[w]] <= lost[task[w]]

LEMMA RerunStep ==
  ASSUME TypeInv, RecordInv, SingleInv, RerunInv, NoRedelivery, [Next]_vars
  PROVE  RerunInv'
<1> USE DEF TypeInv, TypeOK, HoldsTask, RerunInv, NoRedelivery, rowVars, webVars,
            taskVars, localVars, histVars, GoTo, Fault
<1>1. ASSUME NEW j \in Jobs, NEW S \in SUBSET Servers, Submit(j, S) PROVE RerunInv'
  BY <1>1 DEF Submit
<1>2. ASSUME NEW j \in Jobs, AttachServers(j) PROVE RerunInv'
  BY <1>2 DEF AttachServers
<1>3. ASSUME NEW j \in Jobs, AttachRefused(j) PROVE RerunInv'
  BY <1>3 DEF AttachRefused
<1>4. ASSUME NEW j \in Jobs, RecordLaunch(j) PROVE RerunInv'
  BY <1>4 DEF RecordLaunch
<1>5. ASSUME NEW j \in Jobs, Publish(j) PROVE RerunInv'
  <2>1. creator[j] # "published" /\ UNCHANGED <<runs, lost, pc, task>>
    BY <1>5 DEF Publish, PublishAfter
  <2>2. runs[j] = 0
    BY <2>1 DEF RecordInv
  <2>3. \A k \in Jobs : k # j => queue'[k] = queue[k]
    BY <1>5 DEF Publish, PublishAfter
  <2>4. runs[j] <= lost[j]
    BY <2>2
  <2>5. \A k \in Jobs : queue'[k] > 0 => runs[k] <= lost[k]
    BY <2>3, <2>4
  <2>. QED
    BY <2>1, <2>5
<1>6. ASSUME NEW j \in Jobs, LoadForRemoval(j) PROVE RerunInv'
  BY <1>6 DEF LoadForRemoval
<1>7. ASSUME NEW j \in Jobs, RecordRemoval(j) PROVE RerunInv'
  BY <1>7 DEF RecordRemoval
<1>8. ASSUME NEW j \in Jobs, RemoveRow(j) PROVE RerunInv'
  BY <1>8 DEF RemoveRow, RemoveRowAfter
<1>9. ASSUME NEW s \in Servers, DeleteServer(s) PROVE RerunInv'
  BY <1>9 DEF DeleteServer
<1>10. ASSUME NEW w \in Workers, NEW j \in Jobs, Receive(w, j) PROVE RerunInv'
  BY <1>10 DEF Receive, SingleInv
<1>11. ASSUME NEW w \in Workers, Fetch(w) PROVE RerunInv'
  BY <1>11 DEF Fetch, Skips
<1>12. ASSUME NEW w \in Workers, MarkRunning(w) PROVE RerunInv'
  BY <1>12 DEF MarkRunning
<1>13. ASSUME NEW w \in Workers, ReadServers(w) PROVE RerunInv'
  BY <1>13 DEF ReadServers
<1>14. ASSUME NEW w \in Workers, StartRun(w) PROVE RerunInv'
  BY <1>14 DEF StartRun, SingleInv
<1>15. ASSUME NEW w \in Workers, NEW r \in RunnerStatus,
            NEW h \in [Servers -> Observation], RunEnds(w, r, h) PROVE RerunInv'
  BY <1>15 DEF RunEnds, CleanUp, Removes, Leaves
<1>16. ASSUME NEW w \in Workers, RunRaises(w) PROVE RerunInv'
  BY <1>16 DEF RunRaises, CleanUp, Removes, Leaves
<1>17. ASSUME NEW w \in Workers, MarkFinished(w) PROVE RerunInv'
  BY <1>17 DEF MarkFinished, FinishStoring, AfterFinish
<1>18. ASSUME NEW w \in Workers, NEW s \in Servers, RecordServer(w, s) PROVE RerunInv'
  BY <1>18 DEF RecordServer
<1>19. ASSUME NEW w \in Workers, AllRecorded(w) PROVE RerunInv'
  BY <1>19 DEF AllRecorded
<1>20. ASSUME NEW w \in Workers, Ack(w) PROVE RerunInv'
  BY <1>20 DEF Ack, Release
<1>21. ASSUME NEW j \in Jobs, CreatorDies(j) PROVE RerunInv'
  BY <1>21 DEF CreatorDies
<1>22. ASSUME NEW j \in Jobs, RemoverDies(j) PROVE RerunInv'
  BY <1>22 DEF RemoverDies
<1>23. ASSUME NEW j \in Jobs, LoseMessage(j) PROVE RerunInv'
  BY <1>23 DEF LoseMessage
<1>24. ASSUME NEW w \in Workers, WorkerLost(w) PROVE RerunInv'
  BY <1>24 DEF WorkerLost, LoseWorker, Killed, Leaves, Release
<1>25. ASSUME NEW w \in Workers, SoftLimit(w) PROVE RerunInv'
  BY <1>25 DEF SoftLimit, Removes, Leaves
<1>26. ASSUME NEW w \in Workers, HardLimit(w) PROVE RerunInv'
  BY <1>26 DEF HardLimit, Killed, Leaves, Release
<1>27. ASSUME NEW w \in Workers, Redeliver(w) PROVE RerunInv'
  BY <1>27 DEF Redeliver
<1>28. ASSUME NEW w \in Workers, SaveRaises(w) PROVE RerunInv'
  BY <1>28 DEF SaveRaises, Step
<1>29. ASSUME NEW w \in Workers, NEW s \in Servers, RecordServerRaises(w, s)
      PROVE  RerunInv'
  BY <1>29 DEF RecordServerRaises, Step
<1>30. CASE UNCHANGED vars
  BY <1>30 DEF vars
<1>. QED
  BY <1>1, <1>2, <1>3, <1>4, <1>5, <1>6, <1>7, <1>8, <1>9, <1>10, <1>11,
     <1>12, <1>13, <1>14, <1>15, <1>16, <1>17, <1>18, <1>19, <1>20, <1>21,
     <1>22, <1>23, <1>24, <1>25, <1>26, <1>27, <1>28, <1>29,
     <1>30, StepIsAction

\* Ansible is started again only to make up for a worker lost with the job.
THEOREM RerunsMakeUpForLosses == Spec => []RerunOnlyAfterLoss
<1>1. CASE NoRedelivery
  <2>1. Init => RerunInv
    BY DEF Init, RerunInv
  <2>2. TypeInv /\ RecordInv /\ SingleInv /\ RerunInv /\ [Next]_vars => RerunInv'
    BY <1>1, RerunStep
  <2>3. RerunInv => RerunOnlyAfterLoss
    BY DEF RerunInv, RerunOnlyAfterLoss
  <2>4. Spec => []SingleInv
    BY <1>1, SingleInvariant
  <2>. QED
    BY <2>1, <2>2, <2>3, <2>4, TypeInvariant, RecordInvariant, PTL DEF Spec
<1>2. CASE ~NoRedelivery
  <2>1. RerunOnlyAfterLoss
    BY <1>2 DEF NoRedelivery, RerunOnlyAfterLoss
  <2>. QED
    BY <2>1, PTL
<1>. QED
  BY <1>1, <1>2

----------------------------------------------------------------------------
(* The history of the playbook jobs implements JobRecord.                    *)

\* Between the finished check and mark_finished, nobody else moves the status
\* of a playbook job, except to delete its row.
PlaybookInv ==
    \A w \in Workers : pc[w] # "idle" /\ task[w] \in PlaybookJobs =>
        /\ pc[w] = "start" => status[task[w]] \in {"QUEUED", "RUNNING", "deleted"}
        /\ pc[w] \in {"targets", "run", "running", "finish_result", "finish_error",
                      "finish_empty"} => status[task[w]] \in {"RUNNING", "deleted"}

LEMMA PlaybookStep ==
  ASSUME TypeInv, RecordInv, SingleInv, PlaybookInv, NoRedelivery, [Next]_vars
  PROVE  PlaybookInv'
<1> USE DEF TypeInv, TypeOK, HoldsTask, PlaybookInv, NoRedelivery, rowVars, webVars,
            taskVars, localVars, histVars, GoTo, Fault
<1>1. ASSUME NEW j \in Jobs, NEW S \in SUBSET Servers, Submit(j, S) PROVE PlaybookInv'
  BY <1>1 DEF Submit, RecordInv
<1>2. ASSUME NEW j \in Jobs, AttachServers(j) PROVE PlaybookInv'
  BY <1>2 DEF AttachServers
<1>3. ASSUME NEW j \in Jobs, AttachRefused(j) PROVE PlaybookInv'
  BY <1>3 DEF AttachRefused
<1>4. ASSUME NEW j \in Jobs, RecordLaunch(j) PROVE PlaybookInv'
  BY <1>4 DEF RecordLaunch
<1>5. ASSUME NEW j \in Jobs, Publish(j) PROVE PlaybookInv'
  BY <1>5 DEF Publish, PublishAfter
<1>6. ASSUME NEW j \in Jobs, LoadForRemoval(j) PROVE PlaybookInv'
  BY <1>6 DEF LoadForRemoval
<1>7. ASSUME NEW j \in Jobs, RecordRemoval(j) PROVE PlaybookInv'
  BY <1>7 DEF RecordRemoval
<1>8. ASSUME NEW j \in Jobs, RemoveRow(j) PROVE PlaybookInv'
  BY <1>8 DEF RemoveRow, RemoveRowAfter
<1>9. ASSUME NEW s \in Servers, DeleteServer(s) PROVE PlaybookInv'
  BY <1>9 DEF DeleteServer
<1>10. ASSUME NEW w \in Workers, NEW j \in Jobs, Receive(w, j) PROVE PlaybookInv'
  BY <1>10 DEF Receive
<1>11. ASSUME NEW w \in Workers, Fetch(w) PROVE PlaybookInv'
  BY <1>11 DEF Fetch, Skips, RowExists, RowStatus, Unfinished
<1>12. ASSUME NEW w \in Workers, MarkRunning(w) PROVE PlaybookInv'
  <2>1. RowExists(task[w])
    BY <1>12 DEF MarkRunning
  <2>2. /\ status' = [status EXCEPT ![task[w]] = "RUNNING"] /\ task' = task
        /\ pc' = [pc EXCEPT ![w] = "targets"] /\ task[w] \in Jobs
    BY <1>12, <2>1 DEF MarkRunning
  <2>3. \A k \in Jobs : status'[k] \in {status[k], "RUNNING"}
    BY <2>2
  <2>4. status'[task[w]] = "RUNNING"
    BY <2>2
  <2>. QED
    BY <2>2, <2>3, <2>4
<1>13. ASSUME NEW w \in Workers, ReadServers(w) PROVE PlaybookInv'
  BY <1>13 DEF ReadServers
<1>14. ASSUME NEW w \in Workers, StartRun(w) PROVE PlaybookInv'
  BY <1>14 DEF StartRun
<1>15. ASSUME NEW w \in Workers, NEW r \in RunnerStatus,
            NEW h \in [Servers -> Observation], RunEnds(w, r, h) PROVE PlaybookInv'
  BY <1>15 DEF RunEnds, CleanUp, Removes, Leaves
<1>16. ASSUME NEW w \in Workers, RunRaises(w) PROVE PlaybookInv'
  BY <1>16 DEF RunRaises, CleanUp, Removes, Leaves
<1>17. ASSUME NEW w \in Workers, MarkFinished(w) PROVE PlaybookInv'
  BY <1>17 DEF MarkFinished, FinishStoring, AfterFinish, SingleInv
<1>18. ASSUME NEW w \in Workers, NEW s \in Servers, RecordServer(w, s) PROVE PlaybookInv'
  BY <1>18 DEF RecordServer
<1>19. ASSUME NEW w \in Workers, AllRecorded(w) PROVE PlaybookInv'
  BY <1>19 DEF AllRecorded
<1>20. ASSUME NEW w \in Workers, Ack(w) PROVE PlaybookInv'
  BY <1>20 DEF Ack, Release
<1>21. ASSUME NEW j \in Jobs, CreatorDies(j) PROVE PlaybookInv'
  BY <1>21 DEF CreatorDies
<1>22. ASSUME NEW j \in Jobs, RemoverDies(j) PROVE PlaybookInv'
  BY <1>22 DEF RemoverDies
<1>23. ASSUME NEW j \in Jobs, LoseMessage(j) PROVE PlaybookInv'
  BY <1>23 DEF LoseMessage
<1>24. ASSUME NEW w \in Workers, WorkerLost(w) PROVE PlaybookInv'
  BY <1>24 DEF WorkerLost, LoseWorker, Killed, Leaves, Release
<1>25. ASSUME NEW w \in Workers, SoftLimit(w) PROVE PlaybookInv'
  BY <1>25 DEF SoftLimit, Removes, Leaves
<1>26. ASSUME NEW w \in Workers, HardLimit(w) PROVE PlaybookInv'
  BY <1>26 DEF HardLimit, Killed, Leaves, Release
<1>27. ASSUME NEW w \in Workers, Redeliver(w) PROVE PlaybookInv'
  BY <1>27 DEF Redeliver
<1>28. ASSUME NEW w \in Workers, SaveRaises(w) PROVE PlaybookInv'
  BY <1>28 DEF SaveRaises, Step
<1>29. ASSUME NEW w \in Workers, NEW s \in Servers, RecordServerRaises(w, s)
      PROVE  PlaybookInv'
  BY <1>29 DEF RecordServerRaises, Step
<1>30. CASE UNCHANGED vars
  BY <1>30 DEF vars
<1>. QED
  BY <1>1, <1>2, <1>3, <1>4, <1>5, <1>6, <1>7, <1>8, <1>9, <1>10, <1>11,
     <1>12, <1>13, <1>14, <1>15, <1>16, <1>17, <1>18, <1>19, <1>20, <1>21,
     <1>22, <1>23, <1>24, <1>25, <1>26, <1>27, <1>28, <1>29,
     <1>30, StepIsAction

\* The playbook jobs' part of the status column, which JobRecord sees.
Watched == [j \in PlaybookJobs |-> status[j]]

\* Every step is, to the history, one of JobRecord's or no step at all.
LEMMA HistoryStep ==
  ASSUME TypeInv, RecordInv, PlaybookInv, [Next]_vars
  PROVE  [History!Next]_Watched
<1> DEFINE Seen == [History!Next]_Watched
<1>0. ASSUME NEW j \in Jobs, NEW x, status' = [status EXCEPT ![j] = x],
             j \in PlaybookJobs => \/ status[j] = x
                                   \/ status[j] = "none" /\ x = "QUEUED"
                                   \/ status[j] = "QUEUED" /\ x = "RUNNING"
                                   \/ status[j] = "RUNNING" /\ x \in Finished
                                   \/ status[j] \in Unfinished \cup Finished /\ x = "deleted"
      PROVE  Seen
  <2>1. CASE j \notin PlaybookJobs \/ status[j] = x
    <3>1. Watched' = Watched
      BY <1>0, <2>1 DEF Watched, TypeInv, TypeOK, Jobs
    <3>. QED
      BY <3>1
  <2>2. CASE j \in PlaybookJobs /\ status[j] # x
    <3>1. Watched' = [Watched EXCEPT ![j] = x] /\ Watched[j] = status[j]
      BY <1>0, <2>2 DEF Watched, TypeInv, TypeOK, Jobs
    <3>2. History!Queue(j) \/ History!Start(j) \/ History!Finish(j) \/ History!Remove(j)
      BY <1>0, <2>2, <3>1 DEF History!Queue, History!Start, History!Finish, History!Remove,
         History!Become, History!Finished, History!Unfinished, Finished, Unfinished, Watched
    <3>. QED
      BY <2>2, <3>2 DEF History!Next
  <2>. QED
    BY <2>1, <2>2
<1>1. ASSUME UNCHANGED status PROVE Seen
  BY <1>1 DEF Watched
<1>2. ASSUME NEW j \in Jobs, NEW S \in SUBSET Servers, Submit(j, S) PROVE Seen
  <2>1. status' = [status EXCEPT ![j] = "QUEUED"] /\ status[j] = "none"
    BY <1>2 DEF Submit, RecordInv
  <2>. QED
    BY <2>1, <1>0
<1>3. ASSUME NEW j \in Jobs, RemoveRow(j) PROVE Seen
  <2>1. status' = [status EXCEPT ![j] = "deleted"] /\ status[j] # "none"
    BY <1>3 DEF RemoveRow, RemoveRowAfter, RecordInv
  <2>2. status[j] = "deleted" \/ status[j] \in Unfinished \cup Finished
    BY <2>1 DEF TypeInv, TypeOK, RowStatus
  <2>. QED
    BY <2>1, <2>2, <1>0
<1>4. ASSUME NEW w \in Workers, MarkRunning(w) PROVE Seen
  <2>1. RowExists(task[w])
    BY <1>4 DEF MarkRunning
  <2>2. task[w] \in Jobs /\ status' = [status EXCEPT ![task[w]] = "RUNNING"]
    BY <1>4, <2>1 DEF MarkRunning, TypeInv, TypeOK, HoldsTask
  <2>3. task[w] \in PlaybookJobs => status[task[w]] \in {"QUEUED", "RUNNING"}
    BY <1>4, <2>1 DEF MarkRunning, PlaybookInv, RowExists
  <2>. QED
    BY <2>2, <2>3, <1>0
<1>5. ASSUME NEW w \in Workers, MarkFinished(w) PROVE Seen
  <2>1. RowExists(task[w])
    BY <1>5 DEF MarkFinished, FinishStoring
  <2>2. /\ task[w] \in Jobs /\ verdict[w] \in Finished
        /\ status' = [status EXCEPT ![task[w]] = verdict[w]]
    BY <1>5, <2>1 DEF MarkFinished, FinishStoring, TypeInv, TypeOK, HoldsTask
  <2>3. task[w] \in PlaybookJobs => status[task[w]] = "RUNNING"
    BY <1>5, <2>1 DEF MarkFinished, FinishStoring, PlaybookInv, RowExists
  <2>. QED
    BY <2>2, <2>3, <1>0
<1>6. \/ \E j \in Jobs, S \in SUBSET Servers : Submit(j, S)
      \/ \E j \in Jobs : RemoveRow(j)
      \/ \E w \in Workers : MarkRunning(w) \/ MarkFinished(w)
      \/ UNCHANGED status
  BY StepIsAction DEF AttachServers, AttachRefused, RecordLaunch, Publish,
     PublishAfter, CreatorDies, LoadForRemoval, RecordRemoval, RemoverDies,
     DeleteServer, Receive, Fetch, ReadServers, StartRun, RunEnds, RunRaises,
     SaveRaises, RecordServer, RecordServerRaises, AllRecorded, Ack, WorkerLost,
     LoseWorker, SoftLimit, HardLimit, Redeliver, LoseMessage, rowVars, vars
<1>. QED
  BY <1>1, <1>2, <1>3, <1>4, <1>5, <1>6

\* What the rows of playbook jobs show is a behaviour of JobRecord: queued,
\* running, one verdict that is never revised, and gone only by removal, however
\* web processes and workers die.
THEOREM HistoryIsImplemented ==
  ASSUME NoRedelivery
  PROVE  Spec => HistoryIsKept
<1>1. Init => History!Init
  BY DEF Init, History!Init, Jobs
<1>2. Init => PlaybookInv
  BY DEF Init, PlaybookInv
<1>3. TypeInv /\ RecordInv /\ SingleInv /\ PlaybookInv /\ [Next]_vars => PlaybookInv'
  BY PlaybookStep
<1>4. TypeInv /\ RecordInv /\ PlaybookInv /\ [Next]_vars => [History!Next]_Watched
  BY HistoryStep
<1>5. Spec => []SingleInv
  BY SingleInvariant
<1>. QED
  BY <1>1, <1>2, <1>3, <1>4, <1>5, TypeInvariant, RecordInvariant, PTL
  DEF Spec, HistoryIsKept, History!Spec, Watched
----------------------------------------------------------------------------
(* Reachability.  The status of a server and the recap of the job that set it *)
(* are written one after the other; what explains a status is a job that is   *)
(* removed, a job that finished and says so, or a connection test that is at  *)
(* it again and will write both once more.                                    *)

Calm == Faults \cap {"soft_limit", "hard_limit", "broker_loss", "redelivery"} = {}

\* Where a worker has its own copy of the job's servers, not written to yet, and
\* where it is writing to them.
HasRead   == {"run", "running", "finish_result", "finish_error"}
Recording == {"record", "mark_error"}

\* seen is empty until the run's result is read.
SeenInv ==
    \A w \in Workers : pc[w] \notin {"finish_result", "record", "return"} => seen[w] = NoHosts

\* The worker's copy of the job's servers holds every one that is left, and until
\* the row is removed the rows hold every one it has yet to write to.
TodoInv ==
    /\ \A w \in Workers : pc[w] = "finish_empty" => servers[task[w]] = {}
    /\ \A w \in Workers : pc[w] \in HasRead => servers[task[w]] \subseteq todo[w]
    /\ \A w \in Workers : pc[w] \in HasRead \cup Recording =>
           \/ status[task[w]] = "deleted"
           \/ todo[w] \cap LiveServers \subseteq servers[task[w]]

\* While the servers are written to, the row says what is written.
StoredInv ==
    \A w \in Workers : pc[w] \in Recording =>
        \/ status[task[w]] = "deleted"
        \/ status[task[w]] \in Finished /\ recap[task[w]] = seen[w]

\* Nothing but the servers asked for is attached or copied: a test has one.
AskedInv ==
    /\ \A j \in Jobs : creator[j] \in {"new", "saved"} => servers[j] = {}
    /\ \A j \in Jobs : servers[j] \subseteq asked[j]
    /\ \A w \in Workers : pc[w] \in HasRead \cup Recording => todo[w] \subseteq asked[task[w]]
    /\ \A j \in TestJobs : \A s, t \in asked[j] : s = t

LocalInv == SeenInv /\ TodoInv /\ StoredInv /\ AskedInv

LEMMA LocalStep ==
  ASSUME TypeInv, RecordInv, SingleInv, LocalInv, NoRedelivery, [Next]_vars
  PROVE  LocalInv'
<1> USE DEF TypeInv, TypeOK, HoldsTask, LocalInv, SeenInv, TodoInv,
            StoredInv, AskedInv, HasRead, Recording, rowVars,
            webVars, taskVars, localVars, histVars, GoTo, Fault, LiveServers
<1>1. ASSUME NEW j \in Jobs, NEW S \in SUBSET Servers, Submit(j, S) PROVE LocalInv'
  <2>1. /\ status' = [status EXCEPT ![j] = "QUEUED"] /\ asked' = [asked EXCEPT ![j] = S]
        /\ UNCHANGED <<servers, recap, health, pc, task, todo, seen>>
    BY <1>1 DEF Submit
  <2>2. creator[j] = "new" /\ servers[j] = {} /\ (j \in TestJobs => \E s \in S : S = {s})
    BY <1>1 DEF Submit, RecordInv
  <2>3. \A w \in Workers : pc[w] # "idle" => task[w] # j
    BY <2>2 DEF RecordInv
  <2>4. \A w \in Workers : pc[w] # "idle" =>
          status'[task[w]] = status[task[w]] /\ asked'[task[w]] = asked[task[w]]
    BY <2>1, <2>3
  <2>5. \A k \in TestJobs : \A s, t \in asked'[k] : s = t
    BY <2>1, <2>2 DEF Jobs
  <2>6. \A k \in Jobs : servers'[k] \subseteq asked'[k]
    BY <2>1, <2>2
  <2>7. creator' = [creator EXCEPT ![j] = "saved"]
    BY <1>1 DEF Submit
  <2>8. SeenInv' /\ StoredInv'
    BY <2>1, <2>4
  <2>9. TodoInv'
    BY <2>1, <2>4
  <2>10. AskedInv'
    <3>1. \A w \in Workers : pc[w] \in HasRead \cup Recording => todo[w] \subseteq asked'[task[w]]
      BY <2>4
    <3>. QED
      BY <2>1, <2>2, <2>5, <2>6, <2>7, <3>1
  <2>. QED
    BY <2>8, <2>9, <2>10
<1>2. ASSUME NEW j \in Jobs, AttachServers(j) PROVE LocalInv'
  <2>1. /\ servers' = [servers EXCEPT ![j] = Attached(j)]
        /\ UNCHANGED <<status, recap, health, asked, pc, task, todo, seen>>
    BY <1>2 DEF AttachServers
  <2>2. \A w \in Workers : pc[w] # "idle" => task[w] # j
    BY <1>2 DEF AttachServers, RecordInv
  <2>3. \A w \in Workers : pc[w] # "idle" => servers'[task[w]] = servers[task[w]]
    BY <2>1, <2>2
  <2>4. \A k \in Jobs : servers'[k] \subseteq asked'[k]
    BY <2>1 DEF Attached
  <2>5. creator' = [creator EXCEPT ![j] = "attached"]
    BY <1>2 DEF AttachServers
  <2>6. SeenInv' /\ StoredInv'
    BY <2>1
  <2>7. TodoInv'
    <3>1. ASSUME NEW w \in Workers, pc[w] \in {"finish_empty"} \cup HasRead \cup Recording
          PROVE  servers'[task[w]] = servers[task[w]]
      BY <2>3, <3>1
    <3>. QED
      BY <2>1, <3>1
  <2>8. AskedInv'
    BY <2>1, <2>4, <2>5
  <2>. QED
    BY <2>6, <2>7, <2>8
<1>3. ASSUME NEW j \in Jobs, AttachRefused(j) PROVE LocalInv'
  BY <1>3 DEF AttachRefused
<1>4. ASSUME NEW j \in Jobs, RecordLaunch(j) PROVE LocalInv'
  BY <1>4 DEF RecordLaunch
<1>5. ASSUME NEW j \in Jobs, Publish(j) PROVE LocalInv'
  BY <1>5 DEF Publish, PublishAfter
<1>6. ASSUME NEW j \in Jobs, LoadForRemoval(j) PROVE LocalInv'
  BY <1>6 DEF LoadForRemoval
<1>7. ASSUME NEW j \in Jobs, RecordRemoval(j) PROVE LocalInv'
  BY <1>7 DEF RecordRemoval
<1>8. ASSUME NEW j \in Jobs, RemoveRow(j) PROVE LocalInv'
  BY <1>8 DEF RemoveRow, RemoveRowAfter
<1>9. ASSUME NEW s \in Servers, DeleteServer(s) PROVE LocalInv'
  BY <1>9 DEF DeleteServer
<1>10. ASSUME NEW w \in Workers, NEW j \in Jobs, Receive(w, j) PROVE LocalInv'
  BY <1>10 DEF Receive
<1>11. ASSUME NEW w \in Workers, Fetch(w) PROVE LocalInv'
  BY <1>11 DEF Fetch, Skips, RowExists
<1>12. ASSUME NEW w \in Workers, MarkRunning(w) PROVE LocalInv'
  <2>1. RowExists(task[w])
    BY <1>12 DEF MarkRunning
  <2>2. /\ pc[w] = "start" /\ pc' = [pc EXCEPT ![w] = "targets"] /\ task[w] \in Jobs
        /\ status' = [status EXCEPT ![task[w]] = "RUNNING"]
        /\ UNCHANGED <<servers, recap, health, asked, task, todo, seen>>
    BY <1>12, <2>1 DEF MarkRunning
  <2>3. \A v \in Workers : v # w /\ pc[v] # "idle" => status'[task[v]] = status[task[v]]
    BY <2>2 DEF SingleInv
  <2>4. UNCHANGED creator /\ \A v \in Workers : v # w => pc'[v] = pc[v]
    BY <1>12, <2>2 DEF MarkRunning
  <2>5. StoredInv'
    <3> SUFFICES ASSUME NEW v \in Workers, pc'[v] \in Recording
                 PROVE  \/ status'[task'[v]] = "deleted"
                        \/ /\ status'[task'[v]] \in Finished
                           /\ recap'[task'[v]] = seen'[v]
      OBVIOUS
    <3>1. v # w /\ pc[v] \in Recording /\ pc[v] # "idle"
      BY <2>2, <2>4
    <3>2. status'[task'[v]] = status[task[v]] /\ recap'[task'[v]] = recap[task[v]]
      BY <2>2, <2>3, <3>1
    <3>. QED
      BY <2>2, <3>1, <3>2
  <2>6. TodoInv'
    BY <2>2, <2>3, <2>4
  <2>. QED
    BY <2>2, <2>4, <2>5, <2>6
<1>13. ASSUME NEW w \in Workers, ReadServers(w) PROVE LocalInv'
  BY <1>13 DEF ReadServers
<1>14. ASSUME NEW w \in Workers, StartRun(w) PROVE LocalInv'
  BY <1>14 DEF StartRun
<1>15. ASSUME NEW w \in Workers, NEW r \in RunnerStatus,
            NEW h \in [Servers -> Observation], RunEnds(w, r, h)
      PROVE  LocalInv'
  BY <1>15 DEF RunEnds
<1>16. ASSUME NEW w \in Workers, RunRaises(w) PROVE LocalInv'
  BY <1>16 DEF RunRaises
<1>17. ASSUME NEW w \in Workers, MarkFinished(w) PROVE LocalInv'
  <2>1. RowExists(task[w])
    BY <1>17 DEF MarkFinished, FinishStoring
  <2>2. /\ pc[w] \in {"finish_result", "finish_error", "finish_empty"} /\ task[w] \in Jobs
        /\ status' = [status EXCEPT ![task[w]] = verdict[w]]
        /\ recap' = [recap EXCEPT ![task[w]] = seen[w]]
        /\ pc' = [pc EXCEPT ![w] = AfterFinish(w)]
        /\ UNCHANGED <<servers, health, asked, task, todo, seen>>
    BY <1>17, <2>1 DEF MarkFinished, FinishStoring
  <2>3. \A v \in Workers : v # w /\ pc[v] # "idle" =>
          status'[task[v]] = status[task[v]] /\ recap'[task[v]] = recap[task[v]]
    BY <2>2 DEF SingleInv
  <2>4. status'[task[w]] \in Finished /\ recap'[task[w]] = seen[w]
    BY <2>2
  <2>5. /\ AfterFinish(w) \in {"record", "mark_error", "return"}
        /\ AfterFinish(w) = "mark_error" => pc[w] = "finish_error"
        /\ AfterFinish(w) = "record" => pc[w] = "finish_result"
        /\ pc[w] = "finish_result" => AfterFinish(w) = "record"
    BY DEF AfterFinish
  <2>6. todo[w] \cap LiveServers \subseteq servers[task[w]] \/ pc[w] = "finish_empty"
    BY <2>1, <2>2 DEF RowExists
  <2>7. UNCHANGED creator /\ \A v \in Workers : v # w => pc'[v] = pc[v]
    BY <1>17, <2>2 DEF MarkFinished, FinishStoring
  <2>8. SeenInv'
    BY <2>2, <2>5, <2>7
  <2>9. StoredInv'
    BY <2>2, <2>3, <2>4, <2>7
  <2>10. TodoInv'
    BY <2>2, <2>3, <2>5, <2>6, <2>7
  <2>11. AskedInv'
    BY <2>2, <2>5, <2>7
  <2>. QED
    BY <2>8, <2>9, <2>10, <2>11
<1>18. ASSUME NEW w \in Workers, NEW s \in Servers, RecordServer(w, s) PROVE LocalInv'
  BY <1>18 DEF RecordServer
<1>19. ASSUME NEW w \in Workers, AllRecorded(w) PROVE LocalInv'
  BY <1>19 DEF AllRecorded
<1>20. ASSUME NEW w \in Workers, Ack(w) PROVE LocalInv'
  BY <1>20 DEF Ack, Release
<1>21. ASSUME NEW j \in Jobs, CreatorDies(j) PROVE LocalInv'
  BY <1>21 DEF CreatorDies
<1>22. ASSUME NEW j \in Jobs, RemoverDies(j) PROVE LocalInv'
  BY <1>22 DEF RemoverDies
<1>23. ASSUME NEW j \in Jobs, LoseMessage(j) PROVE LocalInv'
  BY <1>23 DEF LoseMessage
<1>24. ASSUME NEW w \in Workers, WorkerLost(w) PROVE LocalInv'
  BY <1>24 DEF WorkerLost, LoseWorker, Killed, Leaves, Release
<1>25. ASSUME NEW w \in Workers, SoftLimit(w) PROVE LocalInv'
  <2>1. UNCHANGED <<servers, status, recap, health, asked, creator, task, todo, seen>>
    BY <1>25 DEF SoftLimit
  <2>2. pc' = [pc EXCEPT ![w] = IF pc[w] \in {"run", "running"} THEN "finish_error"
                                                                ELSE "return"]
    BY <1>25 DEF SoftLimit
  <2>3. CASE pc[w] \in {"run", "running"}
    <3>1. pc' = [pc EXCEPT ![w] = "finish_error"]
      BY <2>2, <2>3
    <3>. QED
      BY <2>1, <2>3, <3>1
  <2>4. CASE pc[w] \notin {"run", "running"}
    <3>1. pc' = [pc EXCEPT ![w] = "return"]
      BY <2>2, <2>4
    <3>. QED
      BY <2>1, <3>1
  <2>. QED
    BY <2>3, <2>4
<1>26. ASSUME NEW w \in Workers, HardLimit(w) PROVE LocalInv'
  BY <1>26 DEF HardLimit, Killed, Leaves, Release
<1>27. ASSUME NEW w \in Workers, Redeliver(w) PROVE LocalInv'
  BY <1>27 DEF Redeliver
<1>28. ASSUME NEW w \in Workers, SaveRaises(w) PROVE LocalInv'
  BY <1>28 DEF SaveRaises, RowExists
<1>29. ASSUME NEW w \in Workers, NEW s \in Servers, RecordServerRaises(w, s) PROVE LocalInv'
  BY <1>29 DEF RecordServerRaises
<1>30. CASE UNCHANGED vars
  BY <1>30 DEF vars
<1>. QED
  BY <1>1, <1>2, <1>3, <1>4, <1>5, <1>6, <1>7, <1>8, <1>9, <1>10, <1>11,
     <1>12, <1>13, <1>14, <1>15, <1>16, <1>17, <1>18, <1>19, <1>20, <1>21,
     <1>22, <1>23, <1>24, <1>25, <1>26, <1>27, <1>28, <1>29,
     <1>30, StepIsAction

\* A worker on its way to write the status of s.
Heading(w, s) ==
    \/ pc[w] \in {"fetch", "start", "targets"} \cup HasRead
    \/ pc[w] \in Recording /\ s \in todo[w]

\* Job j waits to be worked on again, or a worker with it will write the status of s.
Repeating(j, s) == queue[j] > 0 \/ \E w \in Workers : task[w] = j /\ Heading(w, s)

Explains(j, s) ==
    \/ status[j] = "deleted"
    \/ s \in servers[j] /\ status[j] \in Finished /\ health[s] = HealthFor(recap[j][s])
    \/ j \in TestJobs /\ s \in servers[j] /\ Repeating(j, s)

ExplainedInv ==
    \A s \in LiveServers : health[s] # "UNKNOWN" => \E j \in Jobs : Explains(j, s)

\* The status just written is what the row of the job says, if it has one.
LEMMA WrittenIsExplained ==
  ASSUME TypeInv, LocalInv, NEW w \in Workers, NEW s \in Servers, RecordServer(w, s),
         NEW j, j = task[w]
  PROVE  Explains(j, s)'
<1> USE DEF TypeInv, TypeOK, HoldsTask
<1>1. /\ pc[w] \in Recording /\ s \in todo[w] \cap LiveServers
      /\ health' = [health EXCEPT ![s] =
                      IF pc[w] = "record" THEN HealthFor(seen[w][s]) ELSE "ERROR"]
      /\ UNCHANGED <<status, servers, recap, task>>
  BY DEF RecordServer, Recording, rowVars
<1>2. CASE status[j] = "deleted"
  BY <1>1, <1>2 DEF Explains
<1>3. CASE status[j] # "deleted"
  <2>1. s \in servers[j] /\ status[j] \in Finished /\ recap[j] = seen[w]
    BY <1>1, <1>3 DEF LocalInv, TodoInv, StoredInv
  <2>2. pc[w] = "mark_error" => HealthFor(seen[w][s]) = "ERROR"
    <3>1. pc[w] = "mark_error" => seen[w] = NoHosts
      BY DEF LocalInv, SeenInv
    <3>2. NoHosts[s] = "absent"
      BY DEF NoHosts
    <3>3. HealthFor("absent") = "ERROR"
      BY DEF HealthFor
    <3>. QED
      BY <3>1, <3>2, <3>3
  <2>3. health'[s] = HealthFor(seen[w][s])
    BY <1>1, <2>2 DEF Recording
  <2>. QED
    BY <1>1, <2>1, <2>3 DEF Explains
<1>. QED
  BY <1>2, <1>3

\* A step of one worker that takes no message keeps what the others are heading for.
LEMMA RepeatingKept ==
  ASSUME NEW k, NEW t, NEW w \in Workers, Repeating(k, t), UNCHANGED <<queue, task>>,
         \A v \in Workers : v # w => pc'[v] = pc[v] /\ todo'[v] = todo[v],
         task[w] = k /\ Heading(w, t) => Heading(w, t)'
  PROVE  Repeating(k, t)'
<1>1. CASE queue[k] > 0
  BY <1>1 DEF Repeating
<1>2. ASSUME NEW v \in Workers, task[v] = k, Heading(v, t) PROVE Repeating(k, t)'
  <2>1. Heading(v, t)'
    BY <1>2 DEF Heading
  <2>. QED
    BY <1>2, <2>1 DEF Repeating
<1>. QED
  BY <1>1, <1>2 DEF Repeating

\* What explains a status goes on explaining it until the status is written to.
LEMMA StillExplained ==
  ASSUME TypeInv, RecordInv, SingleInv, PlaybookInv, LocalInv, Calm, [Next]_vars,
         NEW k \in Jobs, NEW t \in LiveServers, t \in LiveServers',
         health'[t] = health[t], Explains(k, t)
  PROVE  Explains(k, t)'
<1> USE DEF TypeInv, TypeOK, HoldsTask, LiveServers, Explains, Repeating, Heading,
            HasRead, Recording, Calm, rowVars, webVars, taskVars, localVars, histVars, GoTo, Fault
<1>1. ASSUME NEW j \in Jobs, NEW S \in SUBSET Servers, Submit(j, S) PROVE Explains(k, t)'
  <2>1. creator[j] = "new"
    BY <1>1 DEF Submit
  <2>2. k # j
    BY <2>1 DEF RecordInv, LocalInv, AskedInv
  <2>. QED
    BY <2>2, <1>1 DEF Submit
<1>2. ASSUME NEW j \in Jobs, AttachServers(j) PROVE Explains(k, t)'
  <2>1. creator[j] = "saved"
    BY <1>2 DEF AttachServers
  <2>2. k # j \/ status[k] = "deleted"
    BY <2>1 DEF LocalInv, AskedInv
  <2>. QED
    BY <2>2, <1>2 DEF AttachServers
<1>3. ASSUME NEW j \in Jobs, AttachRefused(j) PROVE Explains(k, t)'
  BY <1>3 DEF AttachRefused
<1>4. ASSUME NEW j \in Jobs, RecordLaunch(j) PROVE Explains(k, t)'
  BY <1>4 DEF RecordLaunch
<1>5. ASSUME NEW j \in Jobs, Publish(j) PROVE Explains(k, t)'
  BY <1>5 DEF Publish, PublishAfter
<1>6. ASSUME NEW j \in Jobs, LoadForRemoval(j) PROVE Explains(k, t)'
  BY <1>6 DEF LoadForRemoval
<1>7. ASSUME NEW j \in Jobs, RecordRemoval(j) PROVE Explains(k, t)'
  BY <1>7 DEF RecordRemoval
<1>8. ASSUME NEW j \in Jobs, RemoveRow(j) PROVE Explains(k, t)'
  BY <1>8 DEF RemoveRow, RemoveRowAfter
<1>9. ASSUME NEW s \in Servers, DeleteServer(s) PROVE Explains(k, t)'
  BY <1>9 DEF DeleteServer
<1>10. ASSUME NEW w \in Workers, NEW j \in Jobs, Receive(w, j) PROVE Explains(k, t)'
  BY <1>10 DEF Receive
<1>11. ASSUME NEW w \in Workers, Fetch(w) PROVE Explains(k, t)'
  <2>1. CASE Skips(task[w]) /\ task[w] = k /\ k \in TestJobs
    <3>1. status[k] # "none"
      BY <2>1, <1>11 DEF Fetch, RecordInv
    <3>2. status[k] = "deleted"
      BY <2>1, <3>1, KindsAreDisjoint DEF Skips, RowExists
    <3>. QED
      BY <3>2, <1>11 DEF Fetch
  <2>2. CASE Skips(task[w]) /\ task[w] # k
    BY <2>2, <1>11 DEF Fetch
  <2>3. CASE ~Skips(task[w]) \/ k \notin TestJobs
    BY <2>3, <1>11 DEF Fetch
  <2>. QED
    BY <2>1, <2>2, <2>3
<1>12. ASSUME NEW w \in Workers, MarkRunning(w) PROVE Explains(k, t)'
  <2>1. RowExists(task[w])
    BY <1>12 DEF MarkRunning
  <2>2. /\ pc[w] = "start" /\ task[w] \in Jobs /\ status' = [status EXCEPT ![task[w]] = "RUNNING"]
        /\ pc' = [pc EXCEPT ![w] = "targets"]
        /\ UNCHANGED <<servers, recap, queue, task, todo>>
    BY <1>12, <2>1 DEF MarkRunning
  <2>3. CASE task[w] = k /\ k \in PlaybookJobs
    BY <2>1, <2>2, <2>3, KindsAreDisjoint DEF PlaybookInv, RowExists, Finished
  <2>4. CASE task[w] = k /\ k \in TestJobs
    <3>1. t \in servers[k]
      BY <2>1, <2>4 DEF RowExists
    <3>. QED
      BY <2>2, <2>4, <3>1
  <2>5. CASE task[w] # k
    <3>1. Repeating(k, t) => Repeating(k, t)'
      BY <2>2, <2>5, RepeatingKept
    <3>. QED
      BY <2>2, <2>5, <3>1
  <2>. QED
    BY <2>3, <2>4, <2>5 DEF Jobs
<1>13. ASSUME NEW w \in Workers, ReadServers(w) PROVE Explains(k, t)'
  BY <1>13 DEF ReadServers
<1>14. ASSUME NEW w \in Workers, StartRun(w) PROVE Explains(k, t)'
  BY <1>14 DEF StartRun
<1>15. ASSUME NEW w \in Workers, NEW r \in RunnerStatus,
            NEW h \in [Servers -> Observation], RunEnds(w, r, h)
      PROVE  Explains(k, t)'
  BY <1>15 DEF RunEnds
<1>16. ASSUME NEW w \in Workers, RunRaises(w) PROVE Explains(k, t)'
  BY <1>16 DEF RunRaises
<1>17. ASSUME NEW w \in Workers, MarkFinished(w) PROVE Explains(k, t)'
  <2>1. RowExists(task[w])
    BY <1>17 DEF MarkFinished, FinishStoring
  <2>2. /\ pc[w] \in {"finish_result", "finish_error", "finish_empty"} /\ task[w] \in Jobs
        /\ status' = [status EXCEPT ![task[w]] = verdict[w]]
        /\ recap' = [recap EXCEPT ![task[w]] = seen[w]]
        /\ pc' = [pc EXCEPT ![w] = AfterFinish(w)]
        /\ UNCHANGED <<servers, queue, task, todo>>
    BY <1>17, <2>1 DEF MarkFinished, FinishStoring
  <2>3. CASE task[w] = k /\ k \in PlaybookJobs
    BY <2>1, <2>2, <2>3, KindsAreDisjoint DEF PlaybookInv, RowExists, Finished
  <2>4. CASE task[w] = k /\ k \in TestJobs
    <3>1. t \in servers[k]
      BY <2>1, <2>4 DEF RowExists
    <3>2. pc[w] \in {"finish_result", "finish_error"} /\ t \in todo[w]
      BY <2>2, <2>4, <3>1 DEF LocalInv, TodoInv
    <3>3. AfterFinish(w) \in Recording
      BY <2>4, <3>2 DEF AfterFinish
    <3>4. Heading(w, t)'
      BY <2>2, <3>2, <3>3
    <3>. QED
      BY <2>2, <2>4, <3>1, <3>4
  <2>5. CASE task[w] # k
    <3>1. Repeating(k, t) => Repeating(k, t)'
      BY <2>2, <2>5, RepeatingKept
    <3>. QED
      BY <2>2, <2>5, <3>1
  <2>. QED
    BY <2>3, <2>4, <2>5 DEF Jobs
<1>18. ASSUME NEW w \in Workers, NEW s \in Servers, RecordServer(w, s) PROVE Explains(k, t)'
  <2>1. ASSUME s = t, task[w] = k PROVE Explains(k, t)'
    <3>1. RecordServer(w, t) /\ k = task[w] /\ t \in Servers
      BY <2>1, <1>18
    <3>. HIDE DEF TypeInv, Explains
    <3>. QED
      BY <3>1, WrittenIsExplained
  <2>2. CASE s # t \/ task[w] # k
    <3>1. Repeating(k, t) => Repeating(k, t)'
      BY <2>2, <1>18, RepeatingKept DEF RecordServer
    <3>. QED
      BY <3>1, <1>18 DEF RecordServer
  <2>. QED
    BY <2>1, <2>2
<1>19. ASSUME NEW w \in Workers, AllRecorded(w) PROVE Explains(k, t)'
  BY <1>19 DEF AllRecorded
<1>20. ASSUME NEW w \in Workers, Ack(w) PROVE Explains(k, t)'
  BY <1>20 DEF Ack, Release
<1>21. ASSUME NEW j \in Jobs, CreatorDies(j) PROVE Explains(k, t)'
  BY <1>21 DEF CreatorDies
<1>22. ASSUME NEW j \in Jobs, RemoverDies(j) PROVE Explains(k, t)'
  BY <1>22 DEF RemoverDies
<1>23. ASSUME NEW j \in Jobs, LoseMessage(j) PROVE Explains(k, t)'
  BY <1>23 DEF LoseMessage
<1>24. ASSUME NEW w \in Workers, WorkerLost(w) PROVE Explains(k, t)'
  BY <1>24 DEF WorkerLost, LoseWorker, Killed, Leaves, Release
<1>25. ASSUME NEW w \in Workers, SoftLimit(w) PROVE Explains(k, t)'
  BY <1>25 DEF SoftLimit
<1>26. ASSUME NEW w \in Workers, HardLimit(w) PROVE Explains(k, t)'
  BY <1>26 DEF HardLimit, Killed, Leaves, Release
<1>27. ASSUME NEW w \in Workers, Redeliver(w) PROVE Explains(k, t)'
  BY <1>27 DEF Redeliver
<1>28. ASSUME NEW w \in Workers, SaveRaises(w) PROVE Explains(k, t)'
  <2>1. CASE task[w] = k
    <3>1. status[k] # "none"
      BY <2>1, <1>28 DEF SaveRaises, RecordInv
    <3>. QED
      BY <2>1, <3>1, <1>28 DEF SaveRaises, RowExists
  <2>2. CASE task[w] # k
    <3>1. Repeating(k, t) => Repeating(k, t)'
      BY <2>2, <1>28, RepeatingKept DEF SaveRaises
    <3>. QED
      BY <3>1, <1>28 DEF SaveRaises
  <2>. QED
    BY <2>1, <2>2
<1>29. ASSUME NEW w \in Workers, NEW s \in Servers, RecordServerRaises(w, s) PROVE Explains(k, t)'
  <2>1. pc[w] \in Recording /\ s \in todo[w] /\ s # t
    BY <1>29 DEF RecordServerRaises
  <2>2. k \in TestJobs /\ task[w] = k => t \notin todo[w]
    BY <2>1 DEF LocalInv, AskedInv
  <2>3. k \in TestJobs /\ Repeating(k, t) => Repeating(k, t)'
    BY <2>1, <2>2, <1>29, RepeatingKept DEF RecordServerRaises
  <2>. QED
    BY <2>3, <1>29 DEF RecordServerRaises
<1>30. CASE UNCHANGED vars
  BY <1>30 DEF vars
<1>. QED
  BY <1>1, <1>2, <1>3, <1>4, <1>5, <1>6, <1>7, <1>8, <1>9, <1>10, <1>11,
     <1>12, <1>13, <1>14, <1>15, <1>16, <1>17, <1>18, <1>19, <1>20, <1>21,
     <1>22, <1>23, <1>24, <1>25, <1>26, <1>27, <1>28, <1>29,
     <1>30, StepIsAction

LEMMA ExplainedStep ==
  ASSUME TypeInv, RecordInv, SingleInv, PlaybookInv, LocalInv, ExplainedInv, Calm, [Next]_vars
  PROVE  ExplainedInv'
<1> SUFFICES ASSUME NEW t \in LiveServers', health'[t] # "UNKNOWN"
             PROVE  \E j \in Jobs : Explains(j, t)'
  BY DEF ExplainedInv
<1> USE DEF TypeInv, TypeOK, HoldsTask
<1>1. ASSUME NEW w \in Workers, NEW s \in Servers, RecordServer(w, s) PROVE
        t \in LiveServers /\ (t = s \/ health'[t] = health[t])
  BY <1>1 DEF RecordServer, LiveServers
<1>2. \/ t \in LiveServers /\ health'[t] = health[t]
      \/ \E w \in Workers : RecordServer(w, t)
  <2>1. \/ \E w \in Workers, s \in Servers : RecordServer(w, s)
        \/ \E s \in Servers : DeleteServer(s)
        \/ UNCHANGED health
    BY StepIsAction DEF Submit, AttachServers, AttachRefused, RecordLaunch, Publish,
       PublishAfter, CreatorDies, LoadForRemoval, RecordRemoval, RemoveRow, RemoveRowAfter,
       RemoverDies, Receive, Fetch, MarkRunning, ReadServers, StartRun, RunEnds, RunRaises,
       MarkFinished, FinishStoring, SaveRaises, RecordServerRaises, AllRecorded, Ack,
       WorkerLost, LoseWorker, Killed, Leaves, SoftLimit, HardLimit, Redeliver, LoseMessage, vars
  <2>2. ASSUME NEW s \in Servers, DeleteServer(s) PROVE t \in LiveServers /\ health'[t] = health[t]
    BY <2>2 DEF DeleteServer, LiveServers
  <2>3. ASSUME UNCHANGED health PROVE t \in LiveServers /\ health'[t] = health[t]
    BY <2>3 DEF LiveServers
  <2>. QED
    BY <1>1, <2>1, <2>2, <2>3
<1>3. CASE t \in LiveServers /\ health'[t] = health[t]
  <2>1. PICK j \in Jobs : Explains(j, t)
    BY <1>3 DEF ExplainedInv
  <2>. QED
    BY <1>3, <2>1, StillExplained
<1>4. ASSUME NEW w \in Workers, RecordServer(w, t) PROVE \E j \in Jobs : Explains(j, t)'
  <2>1. t \in Servers
    BY DEF LiveServers
  <2>2. task[w] \in Jobs
    BY <1>4 DEF RecordServer
  <2>3. PICK j \in Jobs : j = task[w]
    BY <2>2
  <2>4. Explains(j, t)'
    BY <1>4, <2>1, <2>3, WrittenIsExplained
  <2>. QED
    BY <2>4
<1>. QED
  BY <1>2, <1>3, <1>4

\* Between two tasks, what the inventory shows of a server can be looked up in the
\* history: the two writes of a finished task never leave them apart, however
\* deliveries, removals and losses of workers interleave.
THEOREM StatusHasAReason == Spec => []StatusIsExplained
<1>1. CASE Calm
  <2>1. NoRedelivery
    BY <1>1 DEF Calm, NoRedelivery
  <2>2. Spec => []SingleInv
    BY <2>1, SingleInvariant
  <2>3. Init => PlaybookInv /\ LocalInv /\ ExplainedInv
    BY DEF Init, PlaybookInv, LocalInv, SeenInv, TodoInv, StoredInv, AskedInv, HasRead,
       Recording, ExplainedInv, LiveServers, Jobs
  <2>4. TypeInv /\ RecordInv /\ SingleInv /\ PlaybookInv /\ [Next]_vars => PlaybookInv'
    BY <2>1, PlaybookStep
  <2>5. TypeInv /\ RecordInv /\ SingleInv /\ LocalInv /\ [Next]_vars => LocalInv'
    BY <2>1, LocalStep
  <2>6. TypeInv /\ RecordInv /\ SingleInv /\ PlaybookInv /\ LocalInv /\ ExplainedInv
          /\ [Next]_vars => ExplainedInv'
    BY <1>1, ExplainedStep
  <2>7. TypeInv /\ ExplainedInv => StatusIsExplained
    <3> SUFFICES ASSUME TypeInv, ExplainedInv, \A j \in Jobs : queue[j] = 0 /\ ~InHand(j)
                 PROVE  \A s \in LiveServers : health[s] # "UNKNOWN" =>
                          \E j \in Jobs :
                            \/ status[j] = "deleted"
                            \/ /\ s \in servers[j] /\ status[j] \in Finished
                               /\ health[s] = HealthFor(recap[j][s])
      BY DEF StatusIsExplained
    <3>1. \A j \in Jobs, s \in Servers : ~Repeating(j, s)
      BY DEF Repeating, InHand
    <3>. QED
      BY <3>1 DEF ExplainedInv, Explains, LiveServers
  <2>. QED
    BY <2>2, <2>3, <2>4, <2>5, <2>6, <2>7, TypeInvariant, RecordInvariant, PTL DEF Spec
<1>2. CASE ~Calm
  <2>1. StatusIsExplained
    BY <1>2 DEF Calm, StatusIsExplained
  <2>. QED
    BY <2>1, PTL
<1>. QED
  BY <1>1, <1>2
=============================================================================
