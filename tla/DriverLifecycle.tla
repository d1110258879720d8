--------------------------- MODULE DriverLifecycle ---------------------------
(***************************************************************************)
(* The life of the driver (src/mongo/client/init.cpp): initialize and      *)
(* shutdown, which an application calls itself or through a GlobalInstance,*)
(* over the watcher of MonitorRegistry.  The calls come from one thread at *)
(* a time, the one that set the driver up; the watcher's thread and the    *)
(* clients go on meanwhile.                                                *)
(***************************************************************************)
EXTENDS MonitorRegistry, Integers

VARIABLES
    isInitialized,     \* 0, 1 or -1
    terminateNeeded,   \* _terminateNeeded of the GlobalInstance
    by,                \* who is in client::shutdown, if anyone
    result,            \* what the last call of initialize or shutdown returned
    timedOut,          \* whether a shutdown ended with ExceededTimeLimit
    networking,        \* whether shutdownNetworking has not been called
    aborted            \* whether std::abort was called

lifeVars == <<isInitialized, terminateNeeded, by, result, timedOut, networking,
              aborted>>
allVars == <<vars, lifeVars>>

LifeTypeOK ==
    /\ isInitialized \in {-1, 0, 1}
    /\ by \in {"nobody", "application", "instance", "destructor"}
    /\ result \in {"none", "OK", "AlreadyInitialized", "IllegalOperation",
                   "InternalError", "ExceededTimeLimit"}
    /\ {terminateNeeded, timedOut, networking, aborted} \subseteq BOOLEAN

LifeInit ==
    /\ Init
    /\ isInitialized = 0 /\ terminateNeeded = FALSE
    /\ by = "nobody" /\ result = "none" /\ timedOut = FALSE
    /\ networking = TRUE /\ aborted = FALSE

\* Nobody is in initialize or in a shutdown.
Quiet == by = "nobody" /\ closer = "idle"

\* client::initialize, called directly or by the constructor of GlobalInstance,
\* with callShutdownAtExit or without.  Setting the handler for atexit and the
\* global initializers may fail; isInitialized is 1 then, too.
ClientInitialize ==
    /\ Quiet /\ isInitialized = 0
    /\ isInitialized' = 1
    /\ \/ result' = "InternalError" /\ UNCHANGED <<vars, terminateNeeded>>
       \/ /\ Initialize
          /\ result' = status'
          /\ terminateNeeded' \in {FALSE, status' = "OK"}
    /\ UNCHANGED <<by, timedOut, networking, aborted>>

ClientInitializeAgain ==
    /\ Quiet /\ isInitialized # 0
    /\ result' = IF isInitialized = 1 THEN "AlreadyInitialized"
                                      ELSE "IllegalOperation"
    /\ UNCHANGED <<vars, isInitialized, terminateNeeded, by, timedOut,
                   networking, aborted>>

\* What its caller does with the status of client::shutdown: the destructor of
\* GlobalInstance aborts unless it is OK, GlobalInstance::shutdown forgets the
\* pending call when it is.
Returned(who, st) ==
    /\ result' = st
    /\ by' = "nobody"
    /\ timedOut' = (timedOut \/ st = "ExceededTimeLimit")
    /\ aborted' = (who = "destructor" /\ st # "OK")
    /\ terminateNeeded' = IF who = "destructor" \/ (who = "instance" /\ st = "OK")
                          THEN FALSE ELSE terminateNeeded

\* Mutant: a driver whose shutdown timed out may be shut down again.
ShutdownAgain(who) ==
    /\ Quiet /\ (who = "destructor" => terminateNeeded)
    /\ isInitialized # 0
    /\ isInitialized' = -1
    /\ Shutdown
    /\ by' = who
    /\ UNCHANGED <<terminateNeeded, result, timedOut, networking, aborted>>

\* Mutant: isInitialized counts the calls.
ShutdownCounted(who) ==
    /\ Quiet /\ (who = "destructor" => terminateNeeded)
    /\ isInitialized' = isInitialized - 2
    /\ Shutdown
    /\ by' = who
    /\ UNCHANGED <<terminateNeeded, result, timedOut, networking, aborted>>

\* client::shutdown is called: a compareAndSwap admits the first call only.
ClientShutdown(who) ==
    /\ Quiet /\ (who = "destructor" => terminateNeeded)
    /\ IF isInitialized = 1
       THEN /\ isInitialized' = -1
            /\ Shutdown
            /\ by' = who
            /\ UNCHANGED <<terminateNeeded, result, timedOut, networking, aborted>>
       ELSE /\ Returned(who, "IllegalOperation")
            /\ UNCHANGED <<vars, isInitialized, networking>>

\* Mutant: the networking is shut down whatever became of the watcher.
ShutdownNetworkingAlways ==
    /\ by # "nobody" /\ closer = "idle"
    /\ networking' = FALSE
    /\ Returned(by, "OK")
    /\ UNCHANGED <<vars, isInitialized>>

\* ReplicaSetMonitor::shutdown has returned to client::shutdown.
ClientShutdownReturns ==
    /\ by # "nobody" /\ closer = "idle"
    /\ IF status = "ExceededTimeLimit"
       THEN Returned(by, status) /\ UNCHANGED networking
       ELSE Returned(by, "OK") /\ networking' = FALSE
    /\ UNCHANGED <<vars, isInitialized>>

\* An application may shut down the monitors itself and create them again while
\* the driver is initialized.
ManualShutdown == Quiet /\ isInitialized = 1 /\ Shutdown /\ UNCHANGED lifeVars
ManualInitialize == Quiet /\ isInitialized = 1 /\ Initialize /\ UNCHANGED lifeVars

LifeNext ==
    /\ ~crashed /\ ~aborted
    /\ \/ ClientInitialize \/ ClientInitializeAgain \/ ClientShutdownReturns
       \/ \E who \in {"application", "instance", "destructor"} :
              ClientShutdown(who)
       \/ ManualShutdown \/ ManualInitialize
       \/ (by = "nobody" /\ Table) /\ UNCHANGED lifeVars
       \/ (Watch \/ Close \/ GraceEnds) /\ UNCHANGED lifeVars

\* The scheduler runs the two threads, a scan ends since its sockets time out
\* after five seconds, and so does the pause; whether a grace period ends before
\* the watcher is left open.
Going == ~crashed /\ ~aborted /\ UNCHANGED lifeVars

Fairness ==
    /\ WF_allVars(CheckSets /\ Going) /\ WF_allVars(WakeUp /\ Going)
    /\ WF_allVars(EndJob /\ Going) /\ WF_allVars(Close /\ Going)

LifeSpec == LifeInit /\ [][LifeNext]_allVars /\ Fairness

-----------------------------------------------------------------------------
\* The networking is shut down only when no watcher is left that could use it,
\* whoever shut the watcher down.
NetworkingOutlivesWatcher == ~networking => ~watcher /\ body # "run"

\* A driver without its networking has ended for good: every later call of
\* initialize or shutdown is refused, and leaves the monitors alone.
TerminatedForGood ==
    [][~networking => isInitialized' = -1 /\ networking' = FALSE
                      /\ (result' # result => result' = "IllegalOperation")
                      /\ UNCHANGED <<sets, watcher, body>>]_allVars

\* When shutdown has timed out it is legal to call it again: the second call is
\* not refused.
ShutdownMayBeRetried ==
    [][timedOut /\ networking /\ isInitialized = -1
        => ~(result = "ExceededTimeLimit" /\ result' = "IllegalOperation"
             /\ \E who \in {"application", "instance", "destructor"} :
                    ClientShutdown(who))]_allVars
=============================================================================
