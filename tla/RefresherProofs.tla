-------------------------- MODULE RefresherProofs ---------------------------
(***************************************************************************)
(* The theorems about Refresher, for any number of hosts and threads and   *)
(* any documents the hosts may send.                                       *)
(***************************************************************************)
EXTENDS RefresherThreads

\* A call that gives up has seen every known host contacted.
LEMMA GiveUpStep ==
    ASSUME IInv, Next, NEW u \in Threads, InCall(u), pc'[u] = "gaveUp"
    PROVE  covered[u] \/ nodes' \subseteq contacted[u]
<1> DEFINE Goal == covered[u] \/ nodes' \subseteq contacted[u]
<1> USE DEF IInv, TypeOK, Resting, InLoop, InCall
<1>1. ASSUME NEW t \in Threads, NotCurrentScan(t) \/ IgnoreReply(t)
      PROVE  Goal
  BY <1>1 DEF NotCurrentScan, IgnoreReply, Return, LastScanIsFresh, AtLoop,
              Returned
<1>2. ASSUME NEW t \in Threads, EndScan(t)
      PROVE  Goal
  <2>1. u = t /\ final[u] /\ criteria[u] # "none"
    BY <1>2 DEF EndScan, Return
  <2>2. scanning
    BY <1>2 DEF EndScan, ScanPart, ScanAtRest
  <2>3. triedHosts \subseteq contacted[u]
    BY <2>1, <2>2 DEF LastScanIsFresh, Fresh
  <2>4. nodes' \subseteq triedHosts
    BY <1>2, <2>2
      DEF EndScan, ScanPart, ScanCoversNodes, RepliesAreTried, Range
  <2>5. QED
    BY <2>3, <2>4
<1>3. ASSUME NEW t \in Threads, NEW pref \in Prefs, GetHostOrRefresh(t, pref)
      PROVE  Goal
  BY <1>3 DEF GetHostOrRefresh
<1>4. ASSUME NEW t \in Threads, RefreshAll(t) \/ ContinueScan(t) \/ StartNewScan(t)
      PROVE  Goal
  BY <1>4 DEF RefreshAll, ContinueScan, StartNewScan
<1>5. ASSUME NEW t \in Threads, ReturnMatch(t)
      PROVE  Goal
  BY <1>5 DEF ReturnMatch, Return
<1>6. ASSUME NEW t \in Threads, Wait(t) \/ SpuriousWakeup(t) \/ ContactHost(t)
      PROVE  Goal
  BY <1>6 DEF Wait, SpuriousWakeup, ContactHost
<1>7. ASSUME NEW t \in Threads, NEW wake \in BOOLEAN, GoOn(t, wake)
      PROVE  Goal
  BY <1>7 DEF GoOn, Awake
<1>8. ASSUME NEW h \in Hosts, FailedHost(h)
      PROVE  Goal
  BY <1>8 DEF FailedHost, threadVars
<1>9. QED
  <2> HIDE DEF IInv, Goal
  <2>1. Goal
    BY <1>1, <1>2, <1>3, <1>4, <1>5, <1>6, <1>7, <1>8, StepCases, ZenonT(30)
      DEF Next, HostFailed, FromMaster, AfterMaster, BeforeMaster
  <2>2. QED
    BY <2>1 DEF Goal

-----------------------------------------------------------------------------
(* The theorems.                                                           *)

\* The invariant holds initially: a monitor starts with its seeds, no scan.
LEMMA InitInvariant == Init => IInv
<1> SUFFICES ASSUME Init PROVE IInv
  OBVIOUS
<1> USE DEF Init
<1>1. TypeOK
  <2>1. <<>> \in Seq(Hosts) /\ 0 \in 0..FailedScansCap
    BY CapAssumption
  <2>2. QED
    BY <2>1, HostsAssumption, ZenonT(30) DEF TypeOK, Resting
<1>2. SetPart /\ ScanPart
  BY DEF SetPart, SetInvariants, MasterDecidesMembership, ScanPart,
         ScanInvariants, ScanCoversNodes, ScanAtRest, RepliesAreTried,
         IsInjective, Range, HostsOf
<1>3. ThreadPart
  BY DEF ThreadPart, Participants, ContactHasTarget, OneContactPerHost,
         WaitIsContact, RestingWithoutCriteria
<1>4. NoLostWakeup /\ LastScanIsFresh
  BY DEF NoLostWakeup, LastScanIsFresh
<1>5. QED
  BY <1>1, <1>2, <1>3, <1>4 DEF IInv

\* The invariant is inductive.
THEOREM Invariance == Spec => []IInv
<1>1. IInv /\ [Next]_vars => IInv'
  BY TypeStep, SetStep, ScanStep, ThreadStep, WakeupStep, FreshStep DEF IInv
<1>2. QED
  BY <1>1, InitInvariant, PTL DEF Spec

\* In every state of the refresh protocol the variables have their types.
THEOREM TypeCorrectness == Spec => []TypeOK
<1>1. IInv => TypeOK
  BY DEF IInv
<1>2. QED
  BY <1>1, Invariance, PTL

\* What SetState::checkInvariants asserts in a debug build, and the coverage of
\* the nodes by the scan, hold in every state.
THEOREM MonitorSafety ==
    Spec => [](CheckInvariants /\ MasterDecidesMembership /\ ScanCoversNodes)
<1>1. IInv => CheckInvariants /\ MasterDecidesMembership /\ ScanCoversNodes
  BY DEF IInv, SetPart, ScanPart, CheckInvariants
<1>2. QED
  BY <1>1, Invariance, PTL

\* No thread is left sleeping on SetState::cv when it could make progress, and
\* every host it may be waiting for is being contacted by one other thread.
THEOREM WakeupSafety == Spec => [](NoLostWakeup /\ EveryWaitHasAContact)
<1>1. IInv => NoLostWakeup /\ EveryWaitHasAContact
  BY DEF IInv, ThreadPart, WaitIsContact, OneContactPerHost, EveryWaitHasAContact
<1>2. QED
  BY <1>1, Invariance, PTL

\* getHostOrRefresh gives up only after every known host has been contacted
\* since it was called.
THEOREM GiveUpSafety == Spec => GivesUpOnlyAfterContactingAll
<1> DEFINE A == \A t \in Threads :
                    InCall(t) /\ pc'[t] = "gaveUp" =>
                        covered[t] \/ nodes' \subseteq contacted[t]
<1>1. IInv /\ [Next]_vars => [A]_vars
  BY GiveUpStep
<1>2. QED
  BY <1>1, Invariance, PTL DEF Spec, GivesUpOnlyAfterContactingAll

\* A node becomes usable only through a master of this scan or at its end.
THEOREM ConfirmationSafety == Spec => UsableOnlyWhenConfirmed
<1> DEFINE A == up' \subseteq up \/ foundUpMaster' \/ (scanning /\ ~scanning')
<1>1. IInv /\ [Next]_vars => [A]_vars
  <2> SUFFICES ASSUME IInv, Next PROVE A
    OBVIOUS
  <2>1. ASSUME NEW t \in Threads, EndScan(t) PROVE A
    BY <2>1 DEF IInv, ScanPart, ScanAtRest, EndScan
  <2>2. ASSUME NEW t \in Threads, HostFailed(t) PROVE A
    BY <2>2 DEF HostFailed
  <2>3. ASSUME NEW t \in Threads, NEW r \in IsMasterReply,
               FromMaster(t, r) \/ AfterMaster(t, r) \/ BeforeMaster(t, r)
        PROVE  A
    <3>1. CASE FromMaster(t, r)
      BY <3>1 DEF FromMaster
    <3>2. CASE AfterMaster(t, r)
      BY <3>2 DEF AfterMaster
    <3>3. CASE BeforeMaster(t, r)
      BY <3>3 DEF BeforeMaster, setVars
    <3>4. QED
      BY <2>3, <3>1, <3>2, <3>3
  <2>4. ASSUME NEW h \in Hosts, FailedHost(h) PROVE A
    BY <2>4 DEF FailedHost
  <2>5. ASSUME UNCHANGED up PROVE A
    BY <2>5
  <2>6. ASSUME NEW t \in Threads, NEW pref \in Prefs, GetHostOrRefresh(t, pref)
        PROVE  UNCHANGED up
    BY <2>6 DEF GetHostOrRefresh, setVars
  <2>7. ASSUME NEW t \in Threads,
               RefreshAll(t) \/ ContinueScan(t) \/ Wait(t) \/ SpuriousWakeup(t)
        PROVE  UNCHANGED up
    BY <2>7 DEF RefreshAll, ContinueScan, Wait, SpuriousWakeup, setVars
  <2>8. ASSUME NEW t \in Threads,
               ReturnMatch(t) \/ NotCurrentScan(t) \/ IgnoreReply(t)
        PROVE  UNCHANGED up
    BY <2>8, ZenonT(30) DEF ReturnMatch, NotCurrentScan, IgnoreReply, setVars
  <2>9. ASSUME NEW t \in Threads, StartNewScan(t) \/ ContactHost(t)
        PROVE  UNCHANGED up
    <3>1. CASE StartNewScan(t)
      BY <3>1 DEF StartNewScan, setVars
    <3>2. CASE ContactHost(t)
      BY <3>2 DEF ContactHost, setVars
    <3>3. QED
      BY <2>9, <3>1, <3>2
  <2>10. QED
    <3> HIDE DEF A
    <3>1. QED
      BY <2>1, <2>2, <2>3, <2>4, <2>5, <2>6, <2>7, <2>8, <2>9, StepCases DEF Next
<1>2. QED
  BY <1>1, Invariance, PTL DEF Spec, UsableOnlyWhenConfirmed

\* A step that moves the call of one thread is a step of HostLookup.
LEMMA OneCallMoves ==
    ASSUME TypeOK, TypeOK', NEW t \in Threads,
           \A u \in Threads : u # t =>
               pc'[u] = pc[u] \/ (InCall(u) /\ InCall(u)'),
           pc[t] \in Resting /\ pc'[t] = "gaveUp" => pc[t] = "gaveUp",
           InCall(t) /\ pc'[t] = "gaveUp" =>
               covered[t] \/ nodes' \subseteq contacted[t]
    PROVE  \/ Lookup!CallStep
           \/ UNCHANGED [u \in Threads |-> IF InCall(u) THEN "asking" ELSE pc[u]]
<1> DEFINE call == [u \in Threads |-> IF InCall(u) THEN "asking" ELSE pc[u]]
<1> USE DEF TypeOK, InCall, Resting, InLoop
<1>1. call' = [call EXCEPT ![t] = IF InCall(t)' THEN "asking" ELSE pc'[t]]
  BY ZenonT(30)
<1>2. call[t] = "asking" <=> InCall(t)
  OBVIOUS
<1>3. CASE InCall(t) /\ InCall(t)'
  BY <1>1, <1>3
<1>4. CASE ~InCall(t) /\ InCall(t)'
  BY <1>1, <1>2, <1>4, ZenonT(30) DEF Lookup!CallStep, Lookup!Ask, Lookup!Asking
<1>5. CASE InCall(t) /\ pc'[t] = "idle"
  BY <1>1, <1>2, <1>5, ZenonT(30) DEF Lookup!CallStep, Lookup!Answer, Lookup!Asking
<1>6. CASE InCall(t) /\ pc'[t] = "gaveUp"
  BY <1>1, <1>2, <1>6, ZenonT(30) DEF Lookup!CallStep, Lookup!GiveUp, Lookup!Asking
<1>7. CASE ~InCall(t) /\ pc'[t] = "idle"
  BY <1>1, <1>2, <1>7, ZenonT(30) DEF Lookup!CallStep, Lookup!AnswerAtOnce, Lookup!Asking
<1>8. CASE ~InCall(t) /\ pc'[t] = "gaveUp"
  BY <1>1, <1>8
<1>9. QED
  BY <1>3, <1>4, <1>5, <1>6, <1>7, <1>8

\* Every step of the protocol moves at most one call.
LEMMA CallStepOrStutter ==
    ASSUME IInv, TypeOK', Next
    PROVE  \/ Lookup!CallStep
           \/ UNCHANGED [u \in Threads |-> IF InCall(u) THEN "asking" ELSE pc[u]]
<1> DEFINE Goal == \/ Lookup!CallStep
                   \/ UNCHANGED [u \in Threads |->
                                    IF InCall(u) THEN "asking" ELSE pc[u]]
<1> USE DEF InCall, Resting, InLoop
<1>0. TypeOK
  BY DEF IInv
<1>1. ASSUME NEW t \in Threads,
             \A u \in Threads : u # t =>
                 pc'[u] = pc[u] \/ (InCall(u) /\ InCall(u)'),
             pc[t] \in Resting /\ pc'[t] = "gaveUp" => pc[t] = "gaveUp"
      PROVE  Goal
  <2>1. InCall(t) /\ pc'[t] = "gaveUp" =>
            covered[t] \/ nodes' \subseteq contacted[t]
    BY GiveUpStep
  <2>2. QED
    BY <1>0, <1>1, <2>1, OneCallMoves
<1>2. ASSUME NEW t \in Threads, NEW pref \in Prefs, GetHostOrRefresh(t, pref)
      PROVE  Goal
  BY <1>0, <1>1, <1>2 DEF GetHostOrRefresh, TypeOK
<1>3. ASSUME NEW t \in Threads,
             \/ RefreshAll(t) \/ ContinueScan(t) \/ StartNewScan(t)
             \/ Wait(t) \/ SpuriousWakeup(t) \/ ContactHost(t)
      PROVE  Goal
  <2>1. PICK s \in {"starting", "loop", "waiting", "contacting"} :
            pc' = [pc EXCEPT ![t] = s]
    BY <1>3 DEF RefreshAll, ContinueScan, StartNewScan, Wait, SpuriousWakeup,
                ContactHost
  <2>2. QED
    BY <1>0, <1>1, <2>1 DEF TypeOK
<1>4. ASSUME NEW t \in Threads, pc[t] \in InLoop,
             NEW found \in BOOLEAN, Return(t, found)
      PROVE  Goal
  BY <1>0, <1>1, <1>4 DEF Return, TypeOK
<1>5. ASSUME NEW t \in Threads,
             \/ ReturnMatch(t) \/ NotCurrentScan(t) \/ IgnoreReply(t)
             \/ EndScan(t)
      PROVE  Goal
  <2>1. pc[t] \in InLoop
    BY <1>5, ZenonT(30) DEF ReturnMatch, NotCurrentScan, IgnoreReply, EndScan, AtLoop,
                Returned
  <2>2. \E found \in BOOLEAN : Return(t, found)
    BY <1>5, ZenonT(30) DEF ReturnMatch, NotCurrentScan, IgnoreReply, EndScan, HasMatch
  <2>3. QED
    BY <1>4, <2>1, <2>2, SMTT(30)
<1>6. ASSUME NEW t \in Threads, Returned(t), NEW wake \in BOOLEAN, GoOn(t, wake)
      PROVE  Goal
  BY <1>0, <1>1, <1>6, SMTT(30) DEF GoOn, Awake, Returned, TypeOK
<1>7. ASSUME NEW t \in Threads, Returned(t), HostFailed(t)
      PROVE  Goal
  BY <1>6, <1>7, ZenonT(30) DEF HostFailed
<1>8. ASSUME NEW t \in Threads, Returned(t), NEW r \in IsMasterReply,
             FromMaster(t, r) \/ AfterMaster(t, r) \/ BeforeMaster(t, r)
      PROVE  Goal
  BY <1>6, <1>8, ZenonT(30) DEF FromMaster, AfterMaster, BeforeMaster
<1>9. ASSUME NEW h \in Hosts, FailedHost(h)
      PROVE  Goal
  BY <1>9 DEF FailedHost, threadVars
<1>10. QED
  <2> HIDE DEF IInv, Goal
  <2>1. Goal
    BY <1>2, <1>3, <1>5, <1>7, <1>8, <1>9, StepCases DEF Next
  <2>2. QED
    BY <2>1 DEF Goal

\* The refresh protocol keeps the promise of getHostOrRefresh: it implements
\* the safety part of HostLookup.
THEOREM LookupRefinement == Spec => Lookup!LookupSafety
<1> DEFINE call == [u \in Threads |-> IF InCall(u) THEN "asking" ELSE pc[u]]
<1>1. Init => Lookup!LookupInit
  BY HostsAssumption DEF Init, Lookup!LookupInit, InCall, Resting
<1>2. IInv /\ TypeOK' /\ [Next]_vars =>
          [Lookup!LookupNext]_(Lookup!lookupVars)
  <2> SUFFICES ASSUME IInv, TypeOK', [Next]_vars
               PROVE  [Lookup!LookupNext]_(Lookup!lookupVars)
    OBVIOUS
  <2>1. CASE UNCHANGED vars
    BY <2>1, SMTT(30) DEF vars, setVars, threadVars, Lookup!lookupVars, InCall
  <2>2. CASE Next
    <3>1. nodes' \in SUBSET Hosts
      BY DEF TypeOK
    <3>2. Lookup!CallStep \/ UNCHANGED call
      BY <2>2, CallStepOrStutter
    <3>3. \A t \in Threads : /\ call[t] = "asking" <=> InCall(t)
                             /\ call'[t] = "asking" <=> InCall(t)'
      BY DEF InCall, Resting
    <3>4. Lookup!Record(triedHosts' \ triedHosts)
      BY <2>2, <3>3 DEF Lookup!Record, Lookup!Asking, Next, History
    <3>5. triedHosts' \ triedHosts \in SUBSET Hosts
      BY DEF TypeOK
    <3>6. QED
      BY <3>1, <3>2, <3>4, <3>5 DEF Lookup!LookupNext
  <2>3. QED
    BY <2>1, <2>2
<1>3. QED
  BY <1>1, <1>2, Invariance, TypeCorrectness, PTL DEF Spec, Lookup!LookupSafety
=============================================================================
