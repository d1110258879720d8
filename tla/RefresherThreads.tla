-------------------------- MODULE RefresherThreads --------------------------
(***************************************************************************)
(* The proofs that every step keeps the parts of the invariant of          *)
(* Refresher that are about the threads: who takes part in the scan, who   *)
(* sleeps, and what a thread that gives up has seen.                       *)
(***************************************************************************)
EXTENDS RefresherScan

\* What a thread is left with when refreshUntilMatches returns.
LEMMA ReturnFacts ==
    ASSUME TypeOK, NEW t \in Threads, NEW found \in BOOLEAN, Return(t, found)
    PROVE  /\ pc'[t] \in Resting \cup {"starting"}
           /\ pc'[t] \in Resting => criteria'[t] = "none" /\ ~final'[t]
           /\ \A u \in Threads : u # t =>
                  /\ pc'[u] = pc[u] /\ criteria'[u] = criteria[u]
                  /\ target'[u] = target[u] /\ final'[u] = final[u]
<1>1. /\ pc'[t] = "starting" \/ (pc'[t] \in Resting /\ criteria'[t] = "none")
      /\ final'[t] = (pc'[t] = "starting")
  BY DEF TypeOK, Return, Resting
<1>2. QED
  BY <1>1, ZenonT(30) DEF TypeOK, Return, Resting

\* Who takes part in the scan, and who contacts which host.
LEMMA ThreadStep ==
    ASSUME IInv, [Next]_vars
    PROVE  ThreadPart'
<1> USE DEF IInv, TypeOK, ThreadPart, Participants, ContactHasTarget,
            OneContactPerHost, WaitIsContact, RestingWithoutCriteria,
            Resting, InLoop
<1>1. ASSUME NEW t \in Threads, NEW pref \in Prefs, GetHostOrRefresh(t, pref)
      PROVE  ThreadPart'
  BY <1>1 DEF GetHostOrRefresh, scanVars
<1>2. ASSUME NEW t \in Threads, RefreshAll(t) \/ ContinueScan(t)
      PROVE  ThreadPart'
  BY <1>2 DEF RefreshAll, ContinueScan, scanVars
<1>3. ASSUME NEW t \in Threads, StartNewScan(t)
      PROVE  ThreadPart'
  BY <1>3 DEF StartNewScan
<1>4. ASSUME NEW t \in Threads, ReturnMatch(t)
      PROVE  ThreadPart'
  <2>1. Return(t, TRUE) /\ pc[t] = "loop"
    BY <1>4, ZenonT(30) DEF ReturnMatch, AtLoop
  <2>2. /\ pc'[t] \in Resting \cup {"starting"}
        /\ pc'[t] \in Resting => criteria'[t] = "none" /\ ~final'[t]
        /\ \A u \in Threads : u # t =>
               /\ pc'[u] = pc[u] /\ criteria'[u] = criteria[u]
               /\ target'[u] = target[u] /\ final'[u] = final[u]
    BY <2>1, ReturnFacts, ZenonT(30)
  <2>3. joined' = joined \ {t} /\ UNCHANGED <<waitingFor, triedHosts>>
    BY <1>4 DEF ReturnMatch, scanVars
  <2>4. QED
    BY <2>1, <2>2, <2>3
<1>5. ASSUME NEW t \in Threads, NotCurrentScan(t) \/ IgnoreReply(t)
      PROVE  ThreadPart'
  <2>1. PICK found \in BOOLEAN : Return(t, found)
    BY <1>5, ZenonT(30) DEF NotCurrentScan, IgnoreReply, HasMatch
  <2>2. /\ pc'[t] \in Resting \cup {"starting"}
        /\ pc'[t] \in Resting => criteria'[t] = "none" /\ ~final'[t]
        /\ \A u \in Threads : u # t =>
               /\ pc'[u] = pc[u] /\ criteria'[u] = criteria[u]
               /\ target'[u] = target[u] /\ final'[u] = final[u]
    BY <2>1, ReturnFacts
  <2>3. /\ t \notin joined
        /\ UNCHANGED <<joined, waitingFor, triedHosts>>
    BY <1>5, ZenonT(30) DEF NotCurrentScan, IgnoreReply, scanVars
  <2>4. QED
    BY <2>2, <2>3
<1>6. ASSUME NEW t \in Threads, Wait(t) \/ SpuriousWakeup(t)
      PROVE  ThreadPart'
  BY <1>6 DEF Wait, SpuriousWakeup, AtLoop, scanVars
<1>7. ASSUME NEW t \in Threads, ContactHost(t)
      PROVE  ThreadPart'
  <2>1. PICK q \in WorkQueues :
            /\ q # <<>>
            /\ waitingFor' = waitingFor \cup {Head(q)}
            /\ triedHosts' = triedHosts \cup {Head(q)}
            /\ target' = [target EXCEPT ![t] = Head(q)]
    BY <1>7, ZenonT(30) DEF ContactHost
  <2>2. Head(q) \in Hosts /\ Head(q) \notin triedHosts
    BY <2>1, WorkQueueFacts, PopQueue
  <2>3. /\ t \in joined /\ pc[t] = "loop"
        /\ pc' = [pc EXCEPT ![t] = "contacting"] /\ UNCHANGED <<criteria, joined, final>>
    BY <1>7 DEF ContactHost, AtLoop
  <2>4. QED
    BY <2>1, <2>2, <2>3
<1>8. ASSUME NEW t \in Threads, EndScan(t)
      PROVE  ThreadPart'
  <2>1. PICK found \in BOOLEAN : Return(t, found)
    BY <1>8, ZenonT(30) DEF EndScan
  <2>2. QED
    BY <1>8, <2>1, ReturnFacts DEF EndScan, AtLoop
<1>9. ASSUME NEW t \in Threads, Returned(t), t \in joined, NEW wake \in BOOLEAN,
             GoOn(t, wake), triedHosts' = triedHosts,
             waitingFor' \subseteq waitingFor \ {target[t]}
      PROVE  ThreadPart'
  <2>1. \A u \in Threads : pc'[u] = "contacting" <=> (u # t /\ pc[u] = "contacting")
    BY <1>9 DEF GoOn, Awake
  <2>2. /\ \A u \in Threads : pc'[u] \in InLoop <=> pc[u] \in InLoop
        /\ \A u \in Threads : pc'[u] \in Resting <=> pc[u] \in Resting
    BY <1>9 DEF GoOn, Awake, Returned
  <2>3. /\ \A u \in Threads : u # t => target'[u] = target[u]
        /\ UNCHANGED <<criteria, joined, final>>
    BY <1>9 DEF GoOn
  <2>4. QED
    BY <1>9, <2>1, <2>2, <2>3 DEF Returned
<1>10. ASSUME NEW t \in Threads, Returned(t), t \in joined, HostFailed(t)
       PROVE  ThreadPart'
  BY <1>9, <1>10, ZenonT(30) DEF HostFailed
<1>11. ASSUME NEW t \in Threads, Returned(t), t \in joined, NEW r \in IsMasterReply,
              r.host = target[t],
              FromMaster(t, r) \/ AfterMaster(t, r) \/ BeforeMaster(t, r)
       PROVE  ThreadPart'
  <2>1. GoOn(t, TRUE) /\ triedHosts' = triedHosts
    BY <1>11, ZenonT(30) DEF FromMaster, AfterMaster, BeforeMaster
  <2>2. waitingFor' \subseteq waitingFor \ {target[t]}
    BY <1>11, ZenonT(30) DEF FromMaster, AfterMaster, BeforeMaster
  <2>3. QED
    BY <1>9, <1>11, <2>1, <2>2, ZenonT(30)
<1>12. ASSUME NEW h \in Hosts, FailedHost(h)
       PROVE  ThreadPart'
  BY <1>12 DEF FailedHost, scanVars, threadVars
<1>13. CASE UNCHANGED vars
  BY <1>13 DEF vars, scanVars, threadVars
<1>14. CASE Step
  <2> HIDE DEF IInv, ThreadPart
  <2>1. QED
    BY <1>1, <1>2, <1>3, <1>4, <1>5, <1>6, <1>7, <1>8, <1>10, <1>11, <1>12,
       <1>14, StepCases
<1>15. QED
  BY <1>13, <1>14 DEF Next

\* Marking a host as failed gives nobody a host to use.
LEMMA FailureMatchesNothing ==
    ASSUME NEW pref, NEW h, NEW U, NEW M, Matching(pref, U, M) = {}
    PROVE  Matching(pref, U \ {h}, M \ {h}) = {}
BY DEF Matching

\* No wakeup is lost.
LEMMA WakeupStep ==
    ASSUME IInv, [Next]_vars
    PROVE  NoLostWakeup'
<1> USE DEF IInv, TypeOK, NoLostWakeup, HasMatch
<1>2. ASSUME NEW t \in Threads, NEW pref \in Prefs, GetHostOrRefresh(t, pref)
      PROVE  NoLostWakeup'
  BY <1>2 DEF GetHostOrRefresh, Resting, setVars, scanVars
<1>3. ASSUME NEW t \in Threads, RefreshAll(t) \/ ContinueScan(t)
      PROVE  NoLostWakeup'
  BY <1>3 DEF RefreshAll, ContinueScan, Resting, setVars, scanVars
<1>4. ASSUME NEW t \in Threads, StartNewScan(t)
      PROVE  NoLostWakeup'
  BY <1>4 DEF StartNewScan, ScanPart, ScanAtRest
<1>5. ASSUME NEW t \in Threads, ReturnMatch(t)
      PROVE  NoLostWakeup'
  BY <1>5 DEF ReturnMatch, Return, AtLoop, setVars, scanVars
<1>6. ASSUME NEW t \in Threads, NotCurrentScan(t) \/ IgnoreReply(t)
      PROVE  NoLostWakeup'
  BY <1>6 DEF NotCurrentScan, IgnoreReply, Return, setVars, scanVars
<1>7. ASSUME NEW t \in Threads, Wait(t) \/ SpuriousWakeup(t)
      PROVE  NoLostWakeup'
  BY <1>7 DEF Wait, SpuriousWakeup, setVars, scanVars
<1>8. ASSUME NEW t \in Threads, ContactHost(t) \/ EndScan(t)
      PROVE  NoLostWakeup'
  <2>1. \A u \in Threads : pc[u] # "waiting"
    BY <1>8 DEF ContactHost, EndScan, WorkQueues, Fallback
  <2>2. \A u \in Threads : pc'[u] # "waiting"
    BY <1>8, <2>1 DEF ContactHost, EndScan, Return
  <2>3. QED
    BY <2>2
<1>9. ASSUME NEW t \in Threads, Returned(t), HostFailed(t)
      PROVE  NoLostWakeup'
  <2>1. CASE waitingFor \ {target[t]} = {}
    BY <1>9, <2>1 DEF HostFailed, GoOn, Awake
  <2>2. CASE waitingFor \ {target[t]} # {}
    BY <1>9, <2>2, FailureMatchesNothing, ZenonT(30) DEF HostFailed, GoOn
  <2>3. QED
    BY <2>1, <2>2, ZenonT(30)
<1>10. ASSUME NEW t \in Threads, NEW r \in IsMasterReply,
              FromMaster(t, r) \/ AfterMaster(t, r) \/ BeforeMaster(t, r)
       PROVE  NoLostWakeup'
  <2>1. GoOn(t, TRUE)
    BY <1>10, ZenonT(30) DEF FromMaster, AfterMaster, BeforeMaster
  <2>2. QED
    BY <2>1 DEF GoOn, Awake
<1>11. ASSUME NEW h \in Hosts, FailedHost(h)
       PROVE  NoLostWakeup'
  BY <1>11, FailureMatchesNothing, ZenonT(30) DEF FailedHost, scanVars, threadVars
<1>12. CASE UNCHANGED vars
  BY <1>12 DEF vars, setVars, scanVars, threadVars
<1>13. CASE Step
  <2> HIDE DEF IInv, NoLostWakeup
  <2>1. QED
    BY <1>2, <1>3, <1>4, <1>5, <1>6, <1>7, <1>8, <1>9, <1>10, <1>11, <1>13,
       StepCases
<1>14. QED
  BY <1>12, <1>13, ZenonT(30) DEF Next

\* While a call lasts, its history only grows, by the hosts that are contacted.
LEMMA HistoryGrows ==
    ASSUME TypeOK, History, NEW u \in Threads, InCall(u), InCall(u)'
    PROVE  /\ contacted[u] \subseteq contacted'[u]
           /\ triedHosts' \subseteq triedHosts \cup contacted'[u]
           /\ covered[u] => covered'[u]
           /\ nodes' \subseteq contacted'[u] => covered'[u]
BY DEF History, TypeOK

\* The scan a thread may give up after is one that began after its call.
LEMMA FreshStep ==
    ASSUME IInv, [Next]_vars
    PROVE  LastScanIsFresh'
<1>1. CASE UNCHANGED vars
  BY <1>1 DEF IInv, LastScanIsFresh, Fresh, vars, scanVars, threadVars
<1>2. CASE Next
  <2> SUFFICES ASSUME NEW u \in Threads, criteria'[u] # "none"
               PROVE  /\ \/ final'[u]
                         \/ pc'[u] \in InLoop /\ u \notin joined'
                         => Fresh(u)'
                      /\ final'[u] /\ pc'[u] \in InLoop /\ u \notin joined'
                         => covered'[u]
    BY DEF LastScanIsFresh
  <2> DEFINE Goal == /\ \/ final'[u]
                        \/ pc'[u] \in InLoop /\ u \notin joined'
                        => Fresh(u)'
                     /\ final'[u] /\ pc'[u] \in InLoop /\ u \notin joined'
                        => covered'[u]
  <2> USE DEF IInv, TypeOK, LastScanIsFresh, Fresh, Resting, InLoop, InCall,
              ThreadPart, RestingWithoutCriteria
  <2>1. InCall(u)'
    <3>1. ThreadPart'
      BY <1>2, ThreadStep
    <3>2. QED
      BY <3>1
  <2>2. InCall(u) => /\ contacted[u] \subseteq contacted'[u]
                     /\ triedHosts' \subseteq triedHosts \cup contacted'[u]
                     /\ covered[u] => covered'[u]
                     /\ nodes' \subseteq contacted'[u] => covered'[u]
    BY <1>2, <2>1, HistoryGrows DEF Next
  <2>3. ASSUME NEW t \in Threads, NEW pref \in Prefs, GetHostOrRefresh(t, pref)
        PROVE  Goal
    BY <2>2, <2>3 DEF GetHostOrRefresh, scanVars
  <2>4. ASSUME NEW t \in Threads, RefreshAll(t) \/ ContinueScan(t)
        PROVE  Goal
    BY <2>2, <2>4 DEF RefreshAll, ContinueScan, scanVars
  <2>5. ASSUME NEW t \in Threads, StartNewScan(t)
        PROVE  Goal
    BY <2>2, <2>5 DEF StartNewScan, ScanPart, ScanAtRest
  <2>6. ASSUME NEW t \in Threads, ReturnMatch(t)
        PROVE  Goal
    BY <2>2, <2>6 DEF ReturnMatch, Return, AtLoop, scanVars
  <2>7. ASSUME NEW t \in Threads, NotCurrentScan(t) \/ IgnoreReply(t)
        PROVE  Goal
    BY <2>2, <2>7
      DEF NotCurrentScan, IgnoreReply, Return, AtLoop, Returned, scanVars
  <2>8. ASSUME NEW t \in Threads, Wait(t) \/ SpuriousWakeup(t)
        PROVE  Goal
    BY <2>2, <2>8 DEF Wait, SpuriousWakeup, AtLoop, scanVars
  <2>9. ASSUME NEW t \in Threads, ContactHost(t)
        PROVE  Goal
    <3>1. /\ pc[t] = "loop" /\ t \in joined
          /\ pc' = [pc EXCEPT ![t] = "contacting"]
          /\ UNCHANGED <<scanning, criteria, joined, final>>
      BY <2>9 DEF ContactHost, AtLoop
    <3>2. QED
      BY <2>2, <3>1
  <2>10. ASSUME NEW t \in Threads, EndScan(t)
         PROVE  Goal
    <3>1. Fresh(u)'
      BY <2>10 DEF EndScan
    <3>2. ASSUME final'[u], pc'[u] \in InLoop
          PROVE  covered'[u]
      <4>1. u # t /\ pc[u] = pc'[u] /\ final[u] /\ criteria[u] # "none"
        BY <2>10, <3>2 DEF EndScan, Return
      <4>2. CASE u \notin joined
        BY <2>2, <3>2, <4>1, <4>2
      <4>3. CASE u \in joined
        <5>1. scanning
          BY <4>3 DEF ScanPart, ScanAtRest
        <5>2. triedHosts \subseteq contacted[u]
          BY <4>1, <5>1
        <5>3. nodes \subseteq triedHosts
          BY <2>10, <5>1, SMTT(30) DEF EndScan, ScanPart, ScanCoversNodes, Range
        <5>4. nodes' \subseteq contacted'[u]
          BY <2>2, <2>10, <3>2, <4>1, <5>2, <5>3, ZenonT(30)
            DEF EndScan, ScanPart, RepliesAreTried
        <5>5. QED
          BY <2>2, <3>2, <4>1, <5>4
      <4>4. QED
        BY <4>2, <4>3
    <3>3. QED
      BY <3>1, <3>2
  <2>11. ASSUME NEW t \in Threads, Returned(t), NEW wake \in BOOLEAN, GoOn(t, wake),
                UNCHANGED <<scanning, triedHosts>>
         PROVE  Goal
    <3>1. pc'[u] \in InLoop <=> pc[u] \in InLoop
      BY <2>11 DEF GoOn, Awake, Returned
    <3>2. UNCHANGED <<criteria, joined, final>>
      BY <2>11 DEF GoOn
    <3>3. InCall(u)
      BY <3>2
    <3>4. QED
      BY <2>2, <2>11, <3>1, <3>2, <3>3, ZenonT(30)
  <2>12. ASSUME NEW t \in Threads, Returned(t), HostFailed(t)
         PROVE  Goal
    BY <2>11, <2>12, ZenonT(30) DEF HostFailed
  <2>13. ASSUME NEW t \in Threads, Returned(t), NEW r \in IsMasterReply,
                FromMaster(t, r) \/ AfterMaster(t, r) \/ BeforeMaster(t, r)
         PROVE  Goal
    BY <2>11, <2>13, ZenonT(30) DEF FromMaster, AfterMaster, BeforeMaster
  <2>14. ASSUME NEW h \in Hosts, FailedHost(h)
         PROVE  Goal
    BY <2>2, <2>14, SMTT(30) DEF FailedHost, scanVars, threadVars
  <2>15. Goal
    <3> HIDE DEF IInv, Goal
    <3>1. QED
      BY <1>2, <2>3, <2>4, <2>5, <2>6, <2>7, <2>8, <2>9, <2>10, <2>12, <2>13,
         <2>14, StepCases, ZenonT(30) DEF Next
  <2>16. QED
    BY <2>15
<1>3. QED
  BY <1>1, <1>2
=============================================================================
