------------------------ MODULE MonitorRegistryProofs ------------------------
(* Theorems about MonitorRegistry, for any names, monitors and limit.      *)
EXTENDS MonitorRegistry, BackgroundJobProofs

\* Where the watcher's thread is in run
ThreadInv ==
    /\ JobInv
    /\ body # "terminated"
    /\ body = "run" <=> step # "out"
    /\ step \in {"decide", "remove"} => it \in Names \X Monitors

\* The flags of the watcher follow its job, and tell whether it will go on.
FlagInv ==
    /\ StopIsHeard
    /\ ~started => body = "none"
    /\ (started /\ ~stopRequested /\ watcher) => body = "run"
    /\ (~started /\ ~stopRequested /\ watcher /\ closer # "stop")
            => state = "NotStarted"

\* The closer and the object it destroys
CloseInv ==
    /\ WatcherOutlivesItsThread
    /\ closer \in {"cancel", "stop", "wait"} => watcher
    /\ closer = "clear" => ~watcher

\* A monitor in the table was put there under a watcher that was started.
TableInv ==
    /\ (\E n \in Names : sets[n] \in Monitors) => started
    /\ ShutdownLeavesNothing

\* The inductive invariant
RegInv == TypeOK /\ ThreadInv /\ FlagInv /\ CloseInv /\ TableInv

-----------------------------------------------------------------------------
\* A new program satisfies the invariant.
LEMMA RegInvInit == Init => RegInv
<1> SUFFICES ASSUME Init PROVE RegInv
  OBVIOUS
<1>1. TypeOK
  <2>1. JobTypeOK
    BY DEF Init, JobInit, JobTypeOK
  <2>2. fails \in [Monitors -> 0..FailsCap]
    BY RegistryAssumption DEF Init, FailsCap
  <2>3. sets \in [Names -> Monitors \cup {None, NullPtr}]
    BY DEF Init
  <2> QED
    BY <2>1, <2>2, <2>3 DEF Init, TypeOK
<1>2. JobInv
  BY JobInvInit DEF Init
<1>3. ThreadInv
  BY <1>2 DEF Init, JobInit, ThreadInv
<1>4. FlagInv /\ CloseInv /\ TableInv
  BY RegistryAssumption DEF Init, JobInit, FlagInv, CloseInv, TableInv,
     StopIsHeard, WatcherOutlivesItsThread, ShutdownLeavesNothing
<1> QED
  BY <1>1, <1>3, <1>4 DEF RegInv

\* Every step of the registry is a step of its job, leaves the job alone, or
\* makes a new job.
LEMMA JobStep ==
  ASSUME RegInv, [Next]_vars
  PROVE  [JobNext]_jobVars \/ JobInit'
<1> USE DEF jobVars
<1>0. Closer \in Waiters
  BY RegistryAssumption
<1>1. body # "terminated"
  BY DEF RegInv, ThreadInv
<1>2. CASE Table
  BY <1>1, <1>2 DEF Table, CreateIfNeeded, CreateFromNothing, Get, Remove,
     ClientScan, SafeGo, JobNext
<1>3. CASE Watch
  BY <1>1, <1>3 DEF Watch, CheckSets, Top, LeaveRun, WatchStep, CopySets, Decide,
     StopPolling, CheckedAll, Pause, Refresh, RefreshNull, RefreshThrows, WakeUp,
     EndJob, JobNext, Job
<1>4. CASE Close \/ GraceEnds
  BY <1>0, <1>1, <1>4 DEF Close, GraceEnds, CancelWatcher, StopWatcher, WaitForWatcher,
     GiveUp, ResetWatcher, ClearSets, JobNext, Job
<1>5. CASE Initialize
  BY <1>5 DEF Initialize, JobInit
<1>6. CASE Shutdown
  BY <1>6 DEF Shutdown
<1>7. CASE UNCHANGED vars
  BY <1>7 DEF vars
<1> QED
  BY <1>2, <1>3, <1>4, <1>5, <1>6, <1>7 DEF Next

\* The invariant of the job is kept.
LEMMA JobKept ==
  ASSUME RegInv, [Next]_vars
  PROVE  JobInv'
<1>1. JobInv
  BY DEF RegInv, ThreadInv
<1>2. CASE [JobNext]_jobVars
  BY <1>1, <1>2, JobInvStep
<1>3. CASE JobInit'
  BY <1>3 DEF JobInit, JobInv, JobTypeOK, SleepersAreTold
<1> QED
  BY <1>2, <1>3, JobStep

\* After safeGo the watcher runs and has not been told to stop.
LEMMA SafeGoRuns ==
  ASSUME RegInv, Usable, SafeGo
  PROVE  /\ started' = TRUE /\ stopRequested' = FALSE /\ body' = "run"
         /\ step' = "top" \/ (step' = step /\ step # "out")
<1>1. started' = TRUE /\ stopRequested' = FALSE
  BY DEF RegInv, TypeOK, Usable, SafeGo
<1>2. body' = "run" /\ (step' = "top" \/ (step' = step /\ step # "out"))
  BY DEF RegInv, ThreadInv, FlagInv, TypeOK, Usable, SafeGo, Go, jobVars
<1> QED
  BY <1>1, <1>2

\* createIfNeeded and get with a new monitor keep the types of the table.
LEMMA NewMonitorTyped ==
  ASSUME RegInv, NEW n \in Names, NewMonitor(n)
  PROVE  /\ sets' \in [Names -> Monitors \cup {None, NullPtr}]
         /\ fails' \in [Monitors -> 0..FailsCap]
  BY RegistryAssumption DEF RegInv, TypeOK, NewMonitor, Free, FailsCap

\* The end of a scan keeps the type of the counts.
LEMMA ScanTyped ==
  ASSUME RegInv, NEW m \in Monitors, ScanEnds(m)
  PROVE  fails' \in [Monitors -> 0..FailsCap]
  BY RegistryAssumption DEF RegInv, TypeOK, ScanEnds, FailsCap

\* A step that starts the watcher if need be and changes the table keeps the
\* invariant.
LEMMA GoKept ==
  ASSUME RegInv, JobInv', Usable, SafeGo,
         sets' \in [Names -> Monitors \cup {None, NullPtr}],
         fails' \in [Monitors -> 0..FailsCap],
         UNCHANGED <<seedServers, watcher, setsCopy, it, closeVars, crashed>>
  PROVE  RegInv'
<1>0. /\ started' = TRUE /\ stopRequested' = FALSE /\ body' = "run"
      /\ step' = "top" \/ (step' = step /\ step # "out")
  BY SafeGoRuns
<1>1. TypeOK'
  BY <1>0 DEF RegInv, TypeOK, JobInv, closeVars
<1>2. ThreadInv'
  BY <1>0 DEF RegInv, ThreadInv
<1>3. FlagInv'
  BY <1>0 DEF FlagInv, StopIsHeard
<1>4. CloseInv' /\ TableInv'
  BY <1>0 DEF RegInv, CloseInv, TableInv, WatcherOutlivesItsThread,
     ShutdownLeavesNothing, Usable, closeVars
<1> QED
  BY <1>1, <1>2, <1>3, <1>4 DEF RegInv

\* The operations of clients on the table keep the invariant.
LEMMA TableKept ==
  ASSUME RegInv, JobInv', Table
  PROVE  RegInv'
<1>1. ASSUME NEW n \in Names, CreateIfNeeded(n) PROVE RegInv'
  <2>1. sets' \in [Names -> Monitors \cup {None, NullPtr}]
        /\ fails' \in [Monitors -> 0..FailsCap]
    BY <1>1, NewMonitorTyped DEF CreateIfNeeded, RegInv, TypeOK
  <2> QED
    BY <1>1, <2>1, GoKept DEF CreateIfNeeded
<1>2. ASSUME NEW n \in Names, Get(n) PROVE RegInv'
  BY <1>2, NewMonitorTyped, GoKept DEF Get
<1> USE DEF RegInv, ThreadInv, FlagInv, CloseInv, TableInv, TypeOK, StopIsHeard,
        WatcherOutlivesItsThread, ShutdownLeavesNothing, Usable, watchVars,
        stopVars, closeVars, jobVars
<1>3. ASSUME NEW n \in Names, CreateFromNothing(n) PROVE RegInv'
  BY <1>3, RegistryAssumption DEF CreateFromNothing, JobTypeOK
<1>4. ASSUME NEW n \in Names, NEW c \in BOOLEAN, Remove(n, c) PROVE RegInv'
  <2>1. /\ sets' \in [Names -> Monitors \cup {None, NullPtr}]
        /\ seedServers' \subseteq Names
        /\ \A k \in Names : sets'[k] \in Monitors => sets[k] \in Monitors
    BY <1>4, RegistryAssumption DEF Remove, RemoveSet
  <2>2. crashed' \in BOOLEAN
    BY <1>4 DEF Remove, RemoveSet
  <2> QED
    BY <1>4, <2>1, <2>2 DEF Remove, JobTypeOK
<1>5. ASSUME NEW m \in Monitors, ClientScan(m) PROVE RegInv'
  BY <1>5, ScanTyped DEF ClientScan, JobTypeOK
<1> QED
  BY <1>1, <1>2, <1>3, <1>4, <1>5 DEF Table

\* A step of the watcher's thread that is still in run, and that changes at most
\* the table, by taking a monitor out of it, and its own place, keeps the
\* invariant.
LEMMA WatchKept ==
  ASSUME RegInv, JobInv', TypeOK', body = "run", step # "out", step' # "out",
         step' = "asleep" => ~stopRequested,
         step' \in {"decide", "remove"} => it' \in Names \X Monitors,
         UNCHANGED <<stopVars, closeVars, jobVars>>,
         \A n \in Names : sets'[n] \in Monitors => sets[n] \in Monitors
  PROVE  RegInv'
<1>1. watcher
  BY DEF RegInv, CloseInv, WatcherOutlivesItsThread
<1>2. ThreadInv'
  BY DEF RegInv, ThreadInv, jobVars
<1>3. FlagInv' /\ CloseInv'
  BY DEF RegInv, FlagInv, CloseInv, StopIsHeard, WatcherOutlivesItsThread,
     stopVars, closeVars, jobVars
<1>4. TableInv'
  BY <1>1 DEF RegInv, TableInv, ShutdownLeavesNothing, stopVars
<1> QED
  BY <1>2, <1>3, <1>4 DEF RegInv

\* The watcher's thread keeps the invariant.
LEMMA WatcherKept ==
  ASSUME RegInv, JobInv', Watch
  PROVE  RegInv'
<1> USE DEF WatchStep
<1>t. TypeOK /\ JobTypeOK'
  BY DEF RegInv, JobInv
<1>1. CASE LeaveRun /\ stopRequested
  BY <1>1 DEF LeaveRun, RunReturns, RegInv, ThreadInv, FlagInv, CloseInv,
     TableInv, TypeOK, JobInv, StopIsHeard, WatcherOutlivesItsThread,
     ShutdownLeavesNothing, tableVars, stopVars, closeVars
<1>2. CASE ~stopRequested /\ UNCHANGED <<tableVars, setsCopy, it, crashed>>
           /\ (WatchStep("top", "copy") \/ WatchStep("pause", "asleep"))
  <2>1. TypeOK'
    BY <1>t, <1>2 DEF TypeOK, tableVars, stopVars, closeVars
  <2> QED
    BY <1>2, <2>1, WatchKept DEF tableVars
<1>3. CASE CopySets
  <2>1. setsCopy' \subseteq Entry
    BY <1>3, <1>t, RegistryAssumption DEF CopySets, TypeOK, Entry
  <2>2. TypeOK'
    BY <1>t, <1>3, <2>1 DEF CopySets, TypeOK, tableVars, stopVars, closeVars
  <2> QED
    BY <1>3, <2>2, WatchKept DEF CopySets, tableVars
<1>4. ASSUME NEW e \in setsCopy, Refresh(e) PROVE RegInv'
  <2>1. e \in Names \X Monitors /\ e \in Entry /\ e[2] \in Monitors
    BY <1>4, <1>t DEF Refresh, TypeOK, Entry
  <2>2. fails' \in [Monitors -> 0..FailsCap]
    BY <1>4, <2>1, ScanTyped DEF Refresh
  <2>3. TypeOK'
    BY <1>t, <1>4, <2>1, <2>2 DEF Refresh, TypeOK, stopVars, closeVars
  <2> QED
    BY <1>4, <2>1, <2>3, WatchKept DEF Refresh
<1>5. ASSUME NEW e \in setsCopy, RefreshNull(e) PROVE RegInv'
  <2>1. TypeOK'
    BY <1>t, <1>5 DEF RefreshNull, TypeOK, tableVars, stopVars, closeVars
  <2> QED
    BY <1>5, <2>1, WatchKept DEF RefreshNull, tableVars
<1>6. CASE RefreshThrows \/ CheckedAll
  <2>1. TypeOK'
    BY <1>t, <1>6 DEF RefreshThrows, CheckedAll, TypeOK, tableVars, stopVars,
       closeVars
  <2> QED
    BY <1>6, <2>1, WatchKept DEF RefreshThrows, CheckedAll, tableVars
<1>7. CASE Decide
  <2>1. TypeOK'
    BY <1>t, <1>7 DEF Decide, TypeOK, tableVars, stopVars, closeVars
  <2>2. it \in Names \X Monitors
    BY <1>7 DEF Decide, RegInv, ThreadInv
  <2> QED
    BY <1>7, <2>1, <2>2, WatchKept DEF Decide, tableVars
<1>8. CASE StopPolling
  <2>1. it[1] \in Names
    BY <1>8 DEF StopPolling, RegInv, ThreadInv
  <2>2. TypeOK' /\ \A n \in Names : sets'[n] \in Monitors => sets[n] \in Monitors
    BY <1>t, <1>8, <2>1, RegistryAssumption DEF StopPolling, RemoveSet, TypeOK,
       stopVars, closeVars
  <2> QED
    BY <1>8, <2>2, WatchKept DEF StopPolling
<1>9. CASE WakeUp
  <2>1. TypeOK'
    BY <1>t, <1>9 DEF WakeUp, TypeOK, tableVars, stopVars, closeVars
  <2> QED
    BY <1>9, <2>1, WatchKept DEF WakeUp, tableVars
<1>10. CASE EndJob
  BY <1>10, <1>t DEF EndJob, Finish, RegInv, ThreadInv, FlagInv, CloseInv,
     TableInv, TypeOK, JobInv, StopIsHeard, WatcherOutlivesItsThread,
     ShutdownLeavesNothing, tableVars, watchVars, stopVars, closeVars
<1> QED
  BY <1>1, <1>2, <1>3, <1>4, <1>5, <1>6, <1>7, <1>8, <1>9, <1>10
  DEF Watch, CheckSets, Top, Pause

\* initialize and the steps of shutdown keep the invariant: shutdown destroys
\* the watcher only after wait returned true.
LEMMA CloserKept ==
  ASSUME RegInv, JobInv', Initialize \/ Shutdown \/ Close \/ GraceEnds
  PROVE  RegInv'
<1> USE DEF RegInv, ThreadInv, FlagInv, CloseInv, TableInv, TypeOK, StopIsHeard,
        WatcherOutlivesItsThread, ShutdownLeavesNothing, tableVars, watchVars,
        stopVars, closeVars, jobVars
<1>t. JobTypeOK'
  BY DEF JobInv
<1>1. CASE Initialize
  <2>1. CASE watcher
    BY <1>1, <1>t, <2>1 DEF Initialize
  <2>2. CASE ~watcher
    BY <1>1, <1>t, <2>2, RegistryAssumption DEF Initialize
  <2> QED
    BY <2>1, <2>2
<1>2. CASE Shutdown
  BY <1>2, <1>t DEF Shutdown
<1>3. CASE CancelWatcher
  BY <1>3, <1>t DEF CancelWatcher, Cancel
<1>4. CASE StopWatcher
  <2>1. step' # "asleep" /\ (step' = "out" <=> step = "out")
        /\ (step' = step \/ step' = "top")
    BY <1>4 DEF StopWatcher
  <2> QED
    BY <1>4, <1>t, <2>1 DEF StopWatcher, Wait
<1>5. CASE WaitForWatcher \/ GraceEnds
  BY <1>5, <1>t DEF WaitForWatcher, GraceEnds, CheckDone, TimeOut
<1>6. CASE GiveUp
  BY <1>6, <1>t DEF GiveUp
<1>7. CASE ResetWatcher
  <2>1. body \in {"none", "ended"}
    BY <1>7, RegistryAssumption DEF ResetWatcher, JobInv
  <2> QED
    BY <1>7, <1>t, <2>1 DEF ResetWatcher
<1>8. CASE ClearSets
  BY <1>8, <1>t, RegistryAssumption DEF ClearSets
<1> QED
  BY <1>1, <1>2, <1>3, <1>4, <1>5, <1>6, <1>7, <1>8 DEF Close

\* No step breaks the invariant.
LEMMA RegInvStep == RegInv /\ [Next]_vars => RegInv'
<1> SUFFICES ASSUME RegInv, [Next]_vars PROVE RegInv'
  OBVIOUS
<1>1. JobInv'
  BY JobKept
<1>2. CASE UNCHANGED vars
  BY <1>1, <1>2 DEF RegInv, ThreadInv, FlagInv, CloseInv, TableInv, TypeOK,
     JobTypeOK, StopIsHeard, WatcherOutlivesItsThread, ShutdownLeavesNothing,
     vars, tableVars, watchVars, stopVars, closeVars, jobVars
<1> QED
  BY <1>1, <1>2, TableKept, WatcherKept, CloserKept DEF Next

-----------------------------------------------------------------------------
\* The invariant holds in every behaviour of the registry.
THEOREM RegistryInvariance == Spec => []RegInv
  BY RegInvInit, RegInvStep, PTL DEF Spec

\* The variables of the registry keep their types.
THEOREM RegistryTypes == Spec => []TypeOK
<1>1. RegInv => TypeOK
  BY DEF RegInv
<1> QED
  BY <1>1, RegistryInvariance, PTL

\* stop is never missed by the watcher: it is not in its pause afterwards.
THEOREM StopSafety == Spec => []StopIsHeard
<1>1. RegInv => StopIsHeard
  BY DEF RegInv, FlagInv
<1> QED
  BY <1>1, RegistryInvariance, PTL

\* A usable table with a monitor in it has a running watcher.
THEOREM WatchSafety == Spec => []TrackedSetsAreWatched
<1>1. RegInv => TrackedSetsAreWatched
  BY DEF RegInv, ThreadInv, JobInv, JobTypeOK, FlagInv, TableInv, Usable,
     TrackedSetsAreWatched
<1> QED
  BY <1>1, RegistryInvariance, PTL

\* shutdown never destroys a watcher whose thread still runs, and when it has
\* returned OK nothing is left in the table.
THEOREM ShutdownSafety ==
  Spec => [](WatcherOutlivesItsThread /\ ShutdownLeavesNothing)
<1>1. RegInv => WatcherOutlivesItsThread /\ ShutdownLeavesNothing
  BY DEF RegInv, CloseInv, TableInv
<1> QED
  BY <1>1, RegistryInvariance, PTL
=============================================================================
