------------------------ MODULE DriverLifecycleProofs ------------------------
(* Theorems about DriverLifecycle: it uses the registry as the registry    *)
(* demands, and shuts the networking down last.                            *)
EXTENDS DriverLifecycle, MonitorRegistryProofs

\* A client::shutdown is the only one, its watcher is gone unless it timed out,
\* and once the networking is down nobody can bring a watcher back.
LifeInv ==
    /\ RegInv
    /\ by # "nobody" => networking /\ isInitialized = -1
    /\ (by # "nobody" /\ closer = "idle") => (status = "ExceededTimeLimit" \/ ~watcher)
    /\ ~networking => ~watcher /\ isInitialized = -1 /\ closer = "idle"

\* A new program satisfies the invariant.
LEMMA LifeInvInit == LifeInit => LifeInv
  BY RegInvInit DEF LifeInit, LifeInv

\* A step of the driver is a step of the registry.
LEMMA RegistryStep == LifeNext => [Next]_vars
  BY DEF LifeNext, ClientInitialize, ClientInitializeAgain, ClientShutdown,
     ClientShutdownReturns, ManualShutdown, ManualInitialize, Next

\* No step of the driver breaks the invariant.
LEMMA LifeInvStep == LifeInv /\ [LifeNext]_allVars => LifeInv'
<1> SUFFICES ASSUME LifeInv, [LifeNext]_allVars PROVE LifeInv'
  OBVIOUS
<1>1. RegInv'
  BY RegistryStep, RegInvStep DEF LifeInv, allVars
<1>2. ~watcher => closer \in {"idle", "clear"}
  BY DEF LifeInv, RegInv, CloseInv, TypeOK
<1>3. CASE ClientInitialize
  BY <1>1, <1>3 DEF LifeInv, ClientInitialize, Quiet, Initialize, vars,
     stopVars, closeVars
<1>4. CASE ClientInitializeAgain
  BY <1>1, <1>4 DEF LifeInv, ClientInitializeAgain, vars, stopVars, closeVars
<1>5. ASSUME NEW who \in {"application", "instance", "destructor"},
             ClientShutdown(who)
      PROVE  LifeInv'
  <2>1. CASE isInitialized = 1
    <3>1. networking
      BY <2>1 DEF LifeInv
    <3>2. /\ isInitialized' = -1 /\ networking' = networking
          /\ watcher' = watcher /\ (closer' = "idle" => ~watcher)
      BY <1>5, <2>1 DEF ClientShutdown, Shutdown, stopVars
    <3> QED
      BY <1>1, <3>1, <3>2 DEF LifeInv
  <2>2. CASE isInitialized # 1
    BY <1>1, <1>5, <2>2 DEF LifeInv, ClientShutdown, Returned, vars, stopVars,
       closeVars
  <2> QED
    BY <2>1, <2>2
<1>6. CASE ClientShutdownReturns
  BY <1>1, <1>6 DEF LifeInv, ClientShutdownReturns, Returned, vars, stopVars,
     closeVars
<1>7. CASE ManualShutdown \/ ManualInitialize
  BY <1>1, <1>7 DEF LifeInv, ManualShutdown, ManualInitialize, Quiet, Shutdown,
     Initialize, lifeVars, stopVars
<1>8. CASE (by = "nobody" /\ Table) /\ UNCHANGED lifeVars
  BY <1>1, <1>8 DEF LifeInv, Table, Usable, CreateIfNeeded, CreateFromNothing,
     Get, Remove, ClientScan, lifeVars, stopVars, closeVars
<1>9. CASE Watch /\ UNCHANGED lifeVars
  <2>1. UNCHANGED <<watcher, closer, status>>
    <3>1. CASE \E e \in setsCopy : Refresh(e) \/ RefreshNull(e)
      BY <3>1 DEF Refresh, RefreshNull, WatchStep, stopVars, closeVars
    <3>2. CASE LeaveRun \/ EndJob
      BY <3>2 DEF LeaveRun, EndJob, stopVars, closeVars
    <3> QED
      BY <1>9, <3>1, <3>2 DEF Watch, CheckSets, Top, CopySets, Decide,
         StopPolling, CheckedAll, Pause, RefreshThrows, WakeUp, WatchStep,
         stopVars, closeVars
  <2> QED
    BY <1>1, <1>9, <2>1 DEF LifeInv, lifeVars
<1>10. CASE (Close \/ GraceEnds) /\ UNCHANGED lifeVars
  BY <1>1, <1>2, <1>10 DEF LifeInv, RegInv, CloseInv, Close, CancelWatcher,
     StopWatcher, WaitForWatcher, GraceEnds, GiveUp, ResetWatcher, ClearSets,
     lifeVars, stopVars, closeVars
<1>11. CASE UNCHANGED allVars
  BY <1>1, <1>11 DEF LifeInv, allVars, vars, lifeVars, stopVars, closeVars
<1> QED
  BY <1>3, <1>4, <1>5, <1>6, <1>7, <1>8, <1>9, <1>10, <1>11 DEF LifeNext

-----------------------------------------------------------------------------
\* The driver uses the registry as its specification allows, so that what is
\* proved of the registry holds of the driver.
THEOREM DriverUsesRegistry == LifeSpec => Spec
<1>1. LifeInit => Init
  BY DEF LifeInit
<1>2. [LifeNext]_allVars => [Next]_vars
  BY RegistryStep DEF allVars
<1> QED
  BY <1>1, <1>2, PTL DEF LifeSpec, Spec

\* The networking is shut down only after the last watcher has ended.
THEOREM NetworkingSafety == LifeSpec => []NetworkingOutlivesWatcher
<1>1. LifeInv => NetworkingOutlivesWatcher
  BY DEF LifeInv, RegInv, CloseInv, WatcherOutlivesItsThread,
     NetworkingOutlivesWatcher
<1> QED
  BY <1>1, LifeInvInit, LifeInvStep, PTL DEF LifeSpec
=============================================================================
