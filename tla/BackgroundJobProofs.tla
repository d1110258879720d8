------------------------- MODULE BackgroundJobProofs -------------------------
(* Theorems about BackgroundJob, for any set of waiters.                   *)
EXTENDS BackgroundJob, TLAPS

\* The state of the job follows its thread, and the waiters follow the state.
JobInv ==
    /\ JobTypeOK
    /\ state = "NotStarted" => body = "none"
    /\ state = "Running" => body \in {"run", "returned", "terminated"}
    /\ state = "Done" => body \in {"none", "ended"}
    /\ SleepersAreTold
    /\ \A w \in Waiters : waiter[w] = "true" => state = "Done"

\* A job that was just constructed satisfies the invariant.
LEMMA JobInvInit == JobInit => JobInv
  BY DEF JobInit, JobInv, JobTypeOK, SleepersAreTold

\* No step of go, cancel, wait or jobBody breaks the invariant.
LEMMA JobInvStep == JobInv /\ [JobNext]_jobVars => JobInv'
<1> SUFFICES ASSUME JobInv, [JobNext]_jobVars PROVE JobInv'
  OBVIOUS
<1> USE DEF JobInv, JobTypeOK, SleepersAreTold
<1>1. CASE Go
  BY <1>1 DEF Go
<1>2. CASE Cancel
  BY <1>2 DEF Cancel, NotifyAll
<1>3. CASE RunReturns
  BY <1>3 DEF RunReturns
<1>4. CASE RunFails
  BY <1>4 DEF RunFails
<1>5. CASE Finish
  BY <1>5 DEF Finish, NotifyAll
<1>6. ASSUME NEW w \in Waiters, Wait(w) PROVE JobInv'
  BY <1>6 DEF Wait
<1>7. ASSUME NEW w \in Waiters, CheckDone(w) PROVE JobInv'
  BY <1>7 DEF CheckDone
<1>8. ASSUME NEW w \in Waiters, TimeOut(w) PROVE JobInv'
  BY <1>8 DEF TimeOut
<1>9. CASE UNCHANGED jobVars
  BY <1>9 DEF jobVars
<1> QED
  BY <1>1, <1>2, <1>3, <1>4, <1>5, <1>6, <1>7, <1>8, <1>9 DEF JobNext, Job

\* The invariant holds throughout every use of a job.
THEOREM JobInvariance == JobSpec => []JobInv
  BY JobInvInit, JobInvStep, PTL DEF JobSpec

\* No waiter sleeps through the end of the job: the state is set and the
\* waiters are notified under one hold of the mutex.
THEOREM NoLostWakeup == JobSpec => []SleepersAreTold
<1>1. JobInv => SleepersAreTold
  BY DEF JobInv
<1> QED
  BY <1>1, JobInvariance, PTL

\* A job whose wait returned true can be destroyed: its thread is done with it.
THEOREM WaitSafety == JobSpec => []WaitedForIsOver
<1>1. JobInv => WaitedForIsOver
  BY DEF JobInv, WaitedForIsOver
<1> QED
  BY <1>1, JobInvariance, PTL

\* go, cancel and the end of the job never let run be entered twice.
THEOREM RunsOnceSafety == JobSpec => RunsAtMostOnce
<1> DEFINE Once == body' = "run" => body \in {"none", "run"} /\ state # "Done"
<1>1. JobInv /\ [JobNext]_jobVars => [Once]_jobVars
  BY DEF JobInv, JobNext, Job, Go, Cancel, RunReturns, RunFails, Finish, Wait,
         CheckDone, TimeOut, jobVars
<1> QED
  BY <1>1, JobInvariance, PTL DEF JobSpec, RunsAtMostOnce
=============================================================================
