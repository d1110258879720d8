--------------------------- MODULE MonitorRegistry ---------------------------
(***************************************************************************)
(* The table of replica set monitors and the background job that refreshes *)
(* them, ReplicaSetMonitorWatcher (src/mongo/client/replica_set_monitor.   *)
(* cpp).  setsLock protects sets and seedServers, _monitorMutex protects   *)
(* started and stopRequested, and watcherLifetimeLock is held during a     *)
(* whole initialize or shutdown, so that one closer stands for all the     *)
(* threads that call them.  What a scan does is the subject of Refresher;  *)
(* here it only counts the failed scans in a row.                          *)
(***************************************************************************)
EXTENDS BackgroundJob, Naturals

CONSTANTS
    Names,          \* the names of the replica sets
    Monitors,       \* the ReplicaSetMonitor objects; one is reused once freed
    None,           \* no entry in sets
    NullPtr,        \* an entry in sets that holds a null pointer
    Closer,         \* the thread that is in shutdown, the one waiter of the job
    MaxFails        \* ReplicaSetMonitor::maxConsecutiveFailedChecks

ASSUME RegistryAssumption ==
    /\ Waiters = {Closer}
    /\ MaxFails \in Nat \ {0}
    /\ None \notin Monitors /\ NullPtr \notin Monitors /\ None # NullPtr

FailsCap == MaxFails + 1   \* the counts above the limit are alike

VARIABLES
    sets,            \* name -> monitor
    seedServers,     \* the names with a cached seed list
    fails,           \* consecutiveFailedScans of each monitor
    watcher,         \* whether replicaSetMonitorWatcher holds an object
    started,         \* _started
    stopRequested,   \* _stopRequested
    step,            \* where the watcher's thread is in run and checkAllSets
    setsCopy,        \* the part of setsCopy it has not come to
    it,              \* the entry it is at
    closer,          \* where the closer is in shutdown
    status,          \* what the last initialize or shutdown returned
    crashed          \* whether a null pointer was dereferenced

tableVars == <<sets, seedServers, fails>>
watchVars == <<step, setsCopy, it>>
stopVars == <<watcher, started, stopRequested>>
closeVars == <<closer, status>>
vars == <<tableVars, watchVars, stopVars, closeVars, crashed, jobVars>>

Entry == Names \X (Monitors \cup {NullPtr})
NoEntry == <<None, None>>

TypeOK ==
    /\ JobTypeOK
    /\ sets \in [Names -> Monitors \cup {None, NullPtr}]
    /\ seedServers \subseteq Names
    /\ fails \in [Monitors -> 0..FailsCap]
    /\ watcher \in BOOLEAN /\ started \in BOOLEAN /\ stopRequested \in BOOLEAN
    /\ step \in {"out", "top", "copy", "next", "decide", "remove", "pause",
                 "asleep"}
    /\ setsCopy \subseteq Entry
    /\ it \in Entry \cup {NoEntry}
    /\ closer \in {"idle", "cancel", "stop", "wait", "clear"}
    /\ status \in {"none", "OK", "AlreadyInitialized", "InternalError",
                   "ExceededTimeLimit"}
    /\ crashed \in BOOLEAN

Init ==
    /\ JobInit
    /\ sets = [n \in Names |-> None] /\ seedServers = {}
    /\ fails = [m \in Monitors |-> 0]
    /\ watcher = FALSE /\ started = FALSE /\ stopRequested = FALSE
    /\ step = "out" /\ setsCopy = {} /\ it = NoEntry
    /\ closer = "idle" /\ status = "none" /\ crashed = FALSE

-----------------------------------------------------------------------------
(* The table.  Its operations are undefined before initialize and from the *)
(* call of shutdown on (replica_set_monitor.h).                            *)

Usable == watcher /\ closer = "idle" /\ ~stopRequested

\* The monitors no pointer leads to
Free == Monitors \ ({sets[n] : n \in Names} \cup {e[2] : e \in setsCopy}
                                            \cup {it[2]})

\* safeGo
SafeGo ==
    \/ started /\ UNCHANGED <<started, stopRequested, jobVars, step>>
    \/ /\ ~started
       /\ started' = TRUE
       /\ stopRequested' = FALSE
       /\ Go
       /\ step' = IF state = "NotStarted" THEN "top" ELSE step

\* sets[name] is set to a new monitor.
NewMonitor(n) ==
    \E m \in Free :
        /\ sets' = [sets EXCEPT ![n] = m]
        /\ fails' = [fails EXCEPT ![m] = 0]

\* createIfNeeded with a seed list that is not empty
CreateIfNeeded(n) ==
    /\ Usable
    /\ IF sets[n] \in Monitors THEN UNCHANGED <<sets, fails>>
                               ELSE NewMonitor(n)
    /\ SafeGo
    /\ UNCHANGED <<seedServers, watcher, setsCopy, it, closeVars, crashed>>

\* createIfNeeded with an empty one: sets[name] has made the entry when the
\* constructor of SetState throws.
CreateFromNothing(n) ==
    /\ Usable
    /\ sets[n] = None
    /\ sets' = [sets EXCEPT ![n] = NullPtr]
    /\ UNCHANGED <<seedServers, fails, watchVars, stopVars, closeVars, crashed,
                   jobVars>>

\* get with createFromSeed, where it creates a monitor
Get(n) ==
    /\ Usable
    /\ sets[n] = None /\ n \in seedServers
    /\ NewMonitor(n)
    /\ SafeGo
    /\ UNCHANGED <<seedServers, watcher, setsCopy, it, closeVars, crashed>>

\* The body of remove, for the name n; it ends the program at a null pointer
\* whose seeds it should save.
RemoveSet(n, clearSeedCache) ==
    IF sets[n] = NullPtr /\ ~clearSeedCache
    THEN crashed' = TRUE /\ UNCHANGED <<sets, seedServers>>
    ELSE /\ sets' = [sets EXCEPT ![n] = None]
         /\ seedServers' = IF clearSeedCache THEN seedServers \ {n}
                           ELSE IF sets[n] # None THEN seedServers \cup {n}
                           ELSE seedServers
         /\ UNCHANGED crashed

\* remove, called by a client
Remove(n, clearSeedCache) ==
    /\ Usable
    /\ RemoveSet(n, clearSeedCache)
    /\ UNCHANGED <<fails, watchVars, stopVars, closeVars, jobVars>>

\* A scan of m ends and found a member of the set up, or found none.
ScanEnds(m) ==
    \E k \in {0, fails[m] + 1} :
        fails' = [fails EXCEPT ![m] = IF k <= FailsCap THEN k ELSE FailsCap]

\* The scan of a client's own refresh
ClientScan(m) ==
    /\ Usable
    /\ m \notin Free
    /\ ScanEnds(m)
    /\ UNCHANGED <<sets, seedServers, watchVars, stopVars, closeVars, crashed,
                   jobVars>>

-----------------------------------------------------------------------------
(* The watcher's thread                                                    *)

\* The loop of run ends.
LeaveRun ==
    /\ RunReturns
    /\ step' = "out"
    /\ UNCHANGED <<tableVars, setsCopy, it, stopVars, closeVars, crashed>>

WatchStep(from, to) ==
    /\ body = "run" /\ step = from
    /\ step' = to
    /\ UNCHANGED <<stopVars, closeVars, jobVars>>

\* The first test of _stopRequested
Top ==
    \/ step = "top" /\ stopRequested /\ LeaveRun
    \/ /\ ~stopRequested
       /\ WatchStep("top", "copy")
       /\ UNCHANGED <<tableVars, setsCopy, it, crashed>>

\* Mutant: the copy has an entry for every name that was ever used.
CopyAll ==
    /\ WatchStep("copy", "next")
    /\ setsCopy' = {<<n, sets[n]>> : n \in Names}
    /\ UNCHANGED <<tableVars, it, crashed>>

\* checkAllSets copies the table under setsLock.
CopySets ==
    /\ WatchStep("copy", "next")
    /\ setsCopy' = {<<n, sets[n]>> : n \in {k \in Names : sets[k] # None}}
    /\ UNCHANGED <<tableVars, it, crashed>>

\* refreshAll on the next monitor of the copy
Refresh(e) ==
    /\ WatchStep("next", "decide")
    /\ e[2] # NullPtr
    /\ setsCopy' = setsCopy \ {e}
    /\ it' = e
    /\ ScanEnds(e[2])
    /\ UNCHANGED <<sets, seedServers, crashed>>

RefreshNull(e) ==
    /\ WatchStep("next", "next")
    /\ e[2] = NullPtr
    /\ crashed' = TRUE
    /\ UNCHANGED <<tableVars, setsCopy, it>>

\* Mutant: an exception is not caught, and the rest of the loop is not reached.
RefreshThrowsOut ==
    /\ step = "next" /\ setsCopy # {}
    /\ LeaveRun

\* An exception of refreshAll ends checkAllSets and is caught in run.
RefreshThrows ==
    /\ WatchStep("next", "pause")
    /\ setsCopy # {}
    /\ setsCopy' = {} /\ it' = NoEntry
    /\ UNCHANGED <<tableVars, crashed>>

CheckedAll ==
    /\ WatchStep("next", "pause")
    /\ setsCopy = {}
    /\ it' = NoEntry
    /\ UNCHANGED <<tableVars, setsCopy, crashed>>

\* The comparison of numFails with the limit
Decide ==
    /\ WatchStep("decide", IF fails[it[2]] >= MaxFails THEN "remove" ELSE "next")
    /\ UNCHANGED <<tableVars, setsCopy, it, crashed>>

StopPolling ==
    /\ WatchStep("remove", "next")
    /\ RemoveSet(it[1], FALSE)
    /\ UNCHANGED <<fails, setsCopy, it>>

\* Mutant: _stopRequested is not tested again before the pause.
PauseUntested ==
    /\ WatchStep("pause", "asleep")
    /\ UNCHANGED <<tableVars, setsCopy, it, crashed>>

\* The second test of _stopRequested, and the pause of ten seconds
Pause ==
    \/ step = "pause" /\ stopRequested /\ LeaveRun
    \/ /\ ~stopRequested
       /\ WatchStep("pause", "asleep")
       /\ UNCHANGED <<tableVars, setsCopy, it, crashed>>

\* Mutant: the pause is not a timed one.
WakeUpAtStop ==
    /\ stopRequested
    /\ WatchStep("asleep", "top")
    /\ UNCHANGED <<tableVars, setsCopy, it, crashed>>

WakeUp ==
    /\ WatchStep("asleep", "top")
    /\ UNCHANGED <<tableVars, setsCopy, it, crashed>>

\* The end of jobBody, after run
EndJob ==
    /\ Finish
    /\ UNCHANGED <<tableVars, watchVars, stopVars, closeVars, crashed>>

CheckSets ==
    \/ Top \/ CopySets \/ Decide \/ StopPolling \/ CheckedAll \/ Pause
    \/ \E e \in setsCopy : Refresh(e) \/ RefreshNull(e)

Watch == CheckSets \/ RefreshThrows \/ WakeUp \/ EndJob

-----------------------------------------------------------------------------
(* initialize and shutdown                                                 *)

Initialize ==
    /\ closer = "idle"
    /\ \/ watcher /\ status' = "AlreadyInitialized"
                  /\ UNCHANGED <<stopVars, jobVars>>
       \/ /\ ~watcher /\ status' = "OK" /\ watcher' = TRUE
          /\ started' = FALSE /\ stopRequested' = FALSE
          /\ state' = "NotStarted" /\ body' = "none"
          /\ waiter' = [w \in Waiters |-> "out"]
    /\ UNCHANGED <<tableVars, watchVars, closer, crashed>>

Shutdown ==
    /\ closer = "idle"
    /\ IF watcher THEN closer' = "cancel" /\ status' = "none"
                  ELSE closer' = "idle" /\ status' = "InternalError"
    /\ UNCHANGED <<tableVars, watchVars, stopVars, crashed, jobVars>>

\* Mutant: shutdown does not cancel a watcher that was never started.
NoCancel ==
    /\ closer = "cancel"
    /\ closer' = "stop"
    /\ UNCHANGED <<status, tableVars, watchVars, stopVars, crashed, jobVars>>

\* cancel, whose refusal to cancel a running job is ignored
CancelWatcher ==
    /\ closer = "cancel"
    /\ closer' = "stop"
    /\ Cancel \/ (state = "Running" /\ UNCHANGED jobVars)
    /\ UNCHANGED <<status, tableVars, watchVars, stopVars, crashed>>

\* stop, and the call of wait
StopWatcher ==
    /\ closer = "stop"
    /\ stopRequested' = TRUE
    /\ step' = IF step = "asleep" THEN "top" ELSE step
    /\ closer' = "wait"
    /\ Wait(Closer)
    /\ UNCHANGED <<status, tableVars, setsCopy, it, watcher, started, crashed>>

WaitForWatcher ==
    /\ closer = "wait"
    /\ CheckDone(Closer)
    /\ UNCHANGED <<tableVars, watchVars, stopVars, closeVars, crashed>>

GraceEnds ==
    /\ closer = "wait"
    /\ TimeOut(Closer)
    /\ UNCHANGED <<tableVars, watchVars, stopVars, closeVars, crashed>>

\* wait has returned false.
GiveUp ==
    /\ closer = "wait" /\ waiter[Closer] = "false"
    /\ closer' = "idle" /\ status' = "ExceededTimeLimit"
    /\ UNCHANGED <<tableVars, watchVars, stopVars, crashed, jobVars>>

\* Mutant: what wait returned is ignored.
ResetAnyway ==
    /\ closer = "wait" /\ waiter[Closer] \in {"true", "false"}
    /\ watcher' = FALSE
    /\ closer' = "clear"
    /\ UNCHANGED <<status, tableVars, watchVars, started, stopRequested,
                   crashed, jobVars>>

\* wait has returned true: the watcher is destroyed; its destructor stops it
\* again, and need not wait.
ResetWatcher ==
    /\ closer = "wait" /\ waiter[Closer] = "true"
    /\ watcher' = FALSE
    /\ closer' = "clear"
    /\ UNCHANGED <<status, tableVars, watchVars, started, stopRequested,
                   crashed, jobVars>>

\* Mutant: the table is kept.
ClearNothing ==
    /\ closer = "clear"
    /\ closer' = "idle" /\ status' = "OK"
    /\ UNCHANGED <<tableVars, watchVars, stopVars, crashed, jobVars>>

ClearSets ==
    /\ closer = "clear"
    /\ closer' = "idle" /\ status' = "OK"
    /\ sets' = [n \in Names |-> None]
    /\ seedServers' = {}
    /\ UNCHANGED <<fails, watchVars, stopVars, crashed, jobVars>>

Close ==
    \/ CancelWatcher \/ StopWatcher \/ WaitForWatcher
    \/ GiveUp \/ ResetWatcher \/ ClearSets

-----------------------------------------------------------------------------
Table ==
    \/ \E n \in Names :
        \/ CreateIfNeeded(n) \/ CreateFromNothing(n) \/ Get(n)
        \/ \E clear \in BOOLEAN : Remove(n, clear)
    \/ \E m \in Monitors : ClientScan(m)

Next ==
    /\ ~crashed
    /\ Table \/ Watch \/ Close \/ GraceEnds \/ Initialize \/ Shutdown

Spec == Init /\ [][Next]_vars

-----------------------------------------------------------------------------
\* A stop is never missed: from the moment it is requested the watcher is not
\* in its pause of ten seconds, where a shutdown with a shorter grace period
\* would time out.
StopIsHeard == stopRequested => step # "asleep"

\* While the table may be used, a monitor in it has a watcher that runs,
\* however often the driver's watcher was stopped and created again before.
TrackedSetsAreWatched ==
    (Usable /\ \E n \in Names : sets[n] \in Monitors)
        => state = "Running" /\ body = "run"

\* The watcher object is destroyed only after its thread has stopped to use it.
WatcherOutlivesItsThread == ~watcher => body \in {"none", "ended"}

\* When shutdown has returned OK, nothing is left: no thread, no monitor and no
\* cached seed list, and so it stays until the next initialize.
ShutdownLeavesNothing ==
    (~watcher /\ closer = "idle") =>
        /\ \A n \in Names : sets[n] = None
        /\ seedServers = {}

\* A shutdown returns, even one without a grace period: when the watcher has
\* come to the end of its scan.
ShutdownReturns == closer # "idle" ~> (closer = "idle" \/ crashed)

\* A monitor that stays in the table is scanned by the watcher again and again,
\* unless scans never cease to throw before it comes to it.
EveryMonitorIsScanned ==
    <>[][~RefreshThrows]_vars =>
        \A n \in Names : \A m \in Monitors :
            []<>(sets[n] # m \/ it[2] = m \/ ~Usable \/ crashed)

\* Every name in the table has a monitor.
EveryTrackedSetHasMonitor == \A n \in Names : sets[n] # NullPtr

\* The monitor the watcher takes out of the table has failed as many scans in
\* a row as the limit says.
StopsOnlyWhenDown ==
    [][(step = "remove" /\ sets[it[1]] \in Monitors /\ sets' # sets
            /\ step' = "next")
        => fails[sets[it[1]]] >= MaxFails]_vars
=============================================================================
