---------------------------- MODULE BackgroundJob ----------------------------
(***************************************************************************)
(* A job that runs once on a thread of its own (src/mongo/util/background. *)
(* cpp).  JobStatus::mutex protects state; an action is what a thread does *)
(* while it holds that mutex, and one thread may sleep on the condition    *)
(* variable done in each call of wait.                                     *)
(***************************************************************************)
CONSTANTS
    Waiters,     \* threads that call wait
    Timed        \* those of them that give a timeout

ASSUME JobAssumption == Timed \subseteq Waiters

VARIABLES
    state,    \* JobStatus::state
    body,     \* where the job's own thread is in jobBody
    waiter    \* where each waiter is in wait

jobVars == <<state, body, waiter>>

JobTypeOK ==
    /\ state \in {"NotStarted", "Running", "Done"}
    /\ body \in {"none", "run", "returned", "ended", "terminated"}
    /\ waiter \in [Waiters -> {"out", "checking", "asleep", "true", "false"}]

JobInit ==
    /\ state = "NotStarted"
    /\ body = "none"
    /\ waiter = [w \in Waiters |-> "out"]

\* go; it throws, and changes nothing, while the job runs.
Go ==
    /\ state # "Running"
    /\ IF state = "NotStarted"
       THEN state' = "Running" /\ body' = "run"
       ELSE UNCHANGED <<state, body>>
    /\ UNCHANGED waiter

NotifyAll == [w \in Waiters |-> IF waiter[w] = "asleep" THEN "checking"
                                                       ELSE waiter[w]]

\* cancel; it does nothing to a job that runs.
Cancel ==
    /\ state # "Running"
    /\ state' = "Done"
    /\ waiter' = IF state = "NotStarted" THEN NotifyAll ELSE waiter
    /\ UNCHANGED body

RunReturns ==
    /\ body = "run"
    /\ body' = "returned"
    /\ UNCHANGED <<state, waiter>>

\* The exception leaves jobBody, and the thread, and so ends the program.
RunFails ==
    /\ body = "run"
    /\ body' = "terminated"
    /\ UNCHANGED <<state, waiter>>

\* Mutant: the waiters are not told.
FinishSilently ==
    /\ body = "returned"
    /\ body' = "ended"
    /\ state' = "Done"
    /\ UNCHANGED waiter

\* The end of jobBody
Finish ==
    /\ body = "returned"
    /\ body' = "ended"
    /\ state' = "Done"
    /\ waiter' = NotifyAll

Wait(w) ==
    /\ waiter[w] \in {"out", "false"}
    /\ waiter' = [waiter EXCEPT ![w] = "checking"]
    /\ UNCHANGED <<state, body>>

\* The condition of the loop of wait, and falling asleep
CheckDone(w) ==
    /\ waiter[w] = "checking"
    /\ waiter' = [waiter EXCEPT ![w] = IF state = "Done" THEN "true"
                                                         ELSE "asleep"]
    /\ UNCHANGED <<state, body>>

\* Mutant: wait returns true whatever timed_wait has returned.
TimeOutIsTrue(w) ==
    /\ waiter[w] = "asleep" /\ w \in Timed
    /\ waiter' = [waiter EXCEPT ![w] = "true"]
    /\ UNCHANGED <<state, body>>

TimeOut(w) ==
    /\ waiter[w] = "asleep" /\ w \in Timed
    /\ waiter' = [waiter EXCEPT ![w] = "false"]
    /\ UNCHANGED <<state, body>>

Job ==
    \/ RunReturns \/ RunFails \/ Finish
    \/ \E w \in Waiters : CheckDone(w) \/ TimeOut(w)

JobNext ==
    /\ body # "terminated"
    /\ Job \/ Go \/ Cancel \/ (\E w \in Waiters : Wait(w))

JobSpec == JobInit /\ [][JobNext]_jobVars

-----------------------------------------------------------------------------
\* A waiter that sleeps has not missed the end of the job.
SleepersAreTold == \A w \in Waiters : waiter[w] = "asleep" => state # "Done"

\* When wait has returned true, the thread of the job is past run and will use
\* the job object no more, so that its owner may destroy it: no later call of
\* go starts the job again.
WaitedForIsOver ==
    (\E w \in Waiters : waiter[w] = "true") =>
        state = "Done" /\ body \in {"none", "ended"}

\* A job runs at most once, and not at all when it was cancelled before.
RunsAtMostOnce ==
    [][body' = "run" => body \in {"none", "run"} /\ state # "Done"]_jobVars
=============================================================================
