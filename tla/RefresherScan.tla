--------------------------- MODULE RefresherScan ----------------------------
(***************************************************************************)
(* The inductive invariant of Refresher, and the proofs that every step    *)
(* keeps the parts of it that are about the types, the nodes and the scan. *)
(***************************************************************************)
EXTENDS RefresherQueues

-----------------------------------------------------------------------------
(* The inductive invariant: the properties of Refresher and what they need *)
(* to be preserved.                                                        *)

\* There is no scan state without a scan: currentScan.reset() dropped it.
ScanAtRest ==
    ~scanning => /\ hostsToScan = <<>> /\ triedHosts = {} /\ waitingFor = {}
                 /\ unconfirmedReplies = {} /\ foundUpMaster = FALSE
                 /\ joined = {}

\* Only hosts that were contacted in this scan have replied in it.
RepliesAreTried == HostsOf(unconfirmedReplies) \subseteq triedHosts

\* A thread takes part in a scan from startOrContinueRefresh until it returns.
Participants ==
    \A t \in joined :
        /\ pc[t] \in InLoop
        /\ pc[t] = "contacting" => target[t] \in triedHosts

ContactHasTarget ==
    \A t \in Threads : pc[t] = "contacting" => target[t] \in Hosts

\* No host is contacted by two threads of one scan.
OneContactPerHost ==
    \A t, u \in joined :
        pc[t] = "contacting" /\ pc[u] = "contacting" /\ target[t] = target[u]
            => t = u

WaitIsContact ==
    \A h \in waitingFor :
        \E t \in joined : pc[t] = "contacting" /\ target[t] = h

RestingWithoutCriteria ==
    \A t \in Threads : pc[t] \in Resting => criteria[t] = "none" /\ ~final[t]

\* Every contact of the current scan happened since t's call began.
Fresh(t) == scanning => triedHosts \subseteq contacted[t]

\* A scan that t may give up after began after t's call, and when it is over
\* it has covered the nodes.
LastScanIsFresh ==
    \A t \in Threads :
        criteria[t] # "none" =>
            /\ final[t] \/ (pc[t] \in InLoop /\ t \notin joined) => Fresh(t)
            /\ final[t] /\ pc[t] \in InLoop /\ t \notin joined => covered[t]

SetPart == SetInvariants /\ MasterDecidesMembership
ScanPart == ScanInvariants /\ ScanCoversNodes /\ ScanAtRest /\ RepliesAreTried
ThreadPart ==
    /\ Participants /\ ContactHasTarget /\ OneContactPerHost /\ WaitIsContact
    /\ RestingWithoutCriteria

IInv ==
    TypeOK /\ SetPart /\ ScanPart /\ ThreadPart /\ NoLostWakeup /\ LastScanIsFresh

-----------------------------------------------------------------------------
(* One lemma per part of the invariant, one step per action in each.       *)

\* A parsed document has the type of a reply, and no hidden host is a master.
LEMMA ParsedReply ==
    ASSUME NEW h \in Hosts, NEW raw \in Answers[h]
    PROVE  /\ Parse(h, raw) \in IsMasterReply
           /\ Parse(h, raw).host = h
           /\ Parse(h, raw).isMaster => ~Parse(h, raw).hidden
<1>1. raw \in RawReply
  BY AnswersAssumption
<1>2. QED
  BY <1>1, ZenonT(30) DEF Parse, RawReply, IsMasterReply

\* A step is one of these; the reply it takes in, if any, is a parsed one.
LEMMA StepCases ==
    ASSUME IInv, Step
    PROVE  \/ \E t \in Threads, pref \in Prefs : GetHostOrRefresh(t, pref)
           \/ \E t \in Threads : RefreshAll(t) \/ ContinueScan(t)
           \/ \E t \in Threads : StartNewScan(t)
           \/ \E t \in Threads : ReturnMatch(t)
           \/ \E t \in Threads : NotCurrentScan(t) \/ IgnoreReply(t)
           \/ \E t \in Threads : Wait(t) \/ SpuriousWakeup(t)
           \/ \E t \in Threads : ContactHost(t)
           \/ \E t \in Threads : EndScan(t)
           \/ \E t \in Threads : Returned(t) /\ t \in joined /\ HostFailed(t)
           \/ \E t \in Threads, r \in IsMasterReply :
                /\ Returned(t) /\ t \in joined /\ r.host = target[t]
                /\ r.isMaster => ~r.hidden
                /\ FromMaster(t, r) \/ AfterMaster(t, r) \/ BeforeMaster(t, r)
           \/ \E h \in Hosts : FailedHost(h)
<1>1. ASSUME NEW t \in Threads, Returned(t), t \in joined,
             NEW raw \in Answers[target[t]],
             LET r == Parse(target[t], raw)
             IN  FromMaster(t, r) \/ AfterMaster(t, r) \/ BeforeMaster(t, r)
      PROVE  \E r \in IsMasterReply :
                /\ Returned(t) /\ t \in joined /\ r.host = target[t]
                /\ r.isMaster => ~r.hidden
                /\ FromMaster(t, r) \/ AfterMaster(t, r) \/ BeforeMaster(t, r)
  <2>1. target[t] \in Hosts
    BY <1>1 DEF IInv, ThreadPart, ContactHasTarget, Returned
  <2>2. QED
    BY <1>1, <2>1, ParsedReply
<1>2. QED
  BY <1>1 DEF Step, Proceed, NoReply, ReceivedIsMaster, BadReply

\* The history variables keep their types.
LEMMA HistoryType ==
    ASSUME TypeOK, History, triedHosts' \subseteq Hosts
    PROVE  /\ contacted' \in [Threads -> SUBSET Hosts]
           /\ covered' \in [Threads -> BOOLEAN]
BY DEF TypeOK, History

\* The variables keep their types.
LEMMA TypeStep ==
    ASSUME IInv, [Next]_vars
    PROVE  TypeOK'
<1> DEFINE Rest == /\ contacted' \in [Threads -> SUBSET Hosts]
                   /\ covered' \in [Threads -> BOOLEAN]
<1> USE DEF IInv, TypeOK, Resting, InLoop
<1>1. ASSUME NEW t \in Threads, NEW pref \in Prefs, GetHostOrRefresh(t, pref), Rest
      PROVE  TypeOK'
  BY <1>1 DEF GetHostOrRefresh, setVars, scanVars
<1>2. ASSUME NEW t \in Threads, RefreshAll(t) \/ ContinueScan(t), Rest
      PROVE  TypeOK'
  BY <1>2, ZenonT(30) DEF RefreshAll, ContinueScan, setVars, scanVars
<1>3. ASSUME NEW t \in Threads, StartNewScan(t), Rest
      PROVE  TypeOK'
  <2>1. hostsToScan' \in Seq(Hosts)
    BY <1>3, ShuffleIsQueue DEF StartNewScan, ScanOrders
  <2>2. QED
    BY <1>3, <2>1 DEF StartNewScan, setVars
<1>4. ASSUME NEW t \in Threads, ReturnMatch(t), Rest
      PROVE  TypeOK'
  BY <1>4 DEF ReturnMatch, Return, setVars, scanVars
<1>5. ASSUME NEW t \in Threads, NotCurrentScan(t) \/ IgnoreReply(t), Rest
      PROVE  TypeOK'
  BY <1>5, ZenonT(30) DEF NotCurrentScan, IgnoreReply, Return, setVars, scanVars
<1>6. ASSUME NEW t \in Threads, Wait(t) \/ SpuriousWakeup(t), Rest
      PROVE  TypeOK'
  BY <1>6 DEF Wait, SpuriousWakeup, setVars, scanVars
<1>7. ASSUME NEW t \in Threads, ContactHost(t), Rest
      PROVE  TypeOK'
  <2>1. PICK q \in WorkQueues :
            /\ q # <<>> /\ hostsToScan' = Tail(q)
            /\ waitingFor' = waitingFor \cup {Head(q)}
            /\ triedHosts' = triedHosts \cup {Head(q)}
            /\ target' = [target EXCEPT ![t] = Head(q)]
    BY <1>7, ZenonT(30) DEF ContactHost
  <2>2. q \in Seq(Hosts)
    BY ShuffleIsQueue DEF WorkQueues
  <2>3. Head(q) \in Hosts /\ Tail(q) \in Seq(Hosts)
    BY <2>1, <2>2
  <2>4. QED
    BY <1>7, <2>1, <2>3, ZenonT(30) DEF ContactHost, setVars
<1>8. ASSUME NEW t \in Threads, EndScan(t), Rest
      PROVE  TypeOK'
  <2>1. HostsOf(unconfirmedReplies) \subseteq Hosts
    BY DEF HostsOf, IsMasterReply
  <2>2. nodes' \subseteq Hosts /\ up' \subseteq Hosts /\ master' \subseteq Hosts
    BY <1>8, <2>1 DEF EndScan, UpAfter
  <2>3. consecutiveFailedScans' \in 0..FailedScansCap
    BY <1>8, CapAssumption DEF EndScan
  <2>4. QED
    BY <1>8, <2>2, <2>3, ZenonT(30) DEF EndScan, Return
<1>9. ASSUME NEW t \in Threads, HostFailed(t), Rest
      PROVE  TypeOK'
  BY <1>9 DEF HostFailed, GoOn, Awake
<1>10. ASSUME NEW t \in Threads, NEW r \in IsMasterReply, FromMaster(t, r), Rest
       PROVE  TypeOK'
  <2>1. r.host \in Hosts /\ r.normalHosts \subseteq Hosts
    BY DEF IsMasterReply
  <2>2. hostsToScan' \in Seq(Hosts)
    BY <1>10, <2>1, ShuffleIsQueue DEF FromMaster
  <2>3. up' \subseteq Hosts
    BY <1>10, <2>1 DEF FromMaster, UpAfter
  <2>4. waitingFor' \subseteq Hosts /\ master' \subseteq Hosts
    BY <1>10, <2>1 DEF FromMaster
  <2>5. pc' \in [Threads -> Resting \cup {"starting"} \cup InLoop]
    BY <1>10 DEF FromMaster, GoOn, Awake
  <2>6. QED
    BY <1>10, <2>1, <2>2, <2>3, <2>4, <2>5, ZenonT(30) DEF FromMaster, GoOn
<1>11. ASSUME NEW t \in Threads, NEW r \in IsMasterReply, AfterMaster(t, r), Rest
       PROVE  TypeOK'
  <2>1. up' \subseteq Hosts
    BY <1>11 DEF AfterMaster, UpAfter
  <2>2. QED
    BY <1>11, <2>1, ZenonT(30) DEF AfterMaster, GoOn, Awake
<1>12. ASSUME NEW t \in Threads, NEW r \in IsMasterReply, BeforeMaster(t, r), Rest
       PROVE  TypeOK'
  <2>1. r.primary \in Hosts \cup {NoHost} /\ r.normalHosts \subseteq Hosts
    BY DEF IsMasterReply
  <2>2. hostsToScan' \in Seq(Hosts)
    BY <1>12, <2>1, HintedQueue DEF BeforeMaster, ScanPart, ScanInvariants
  <2>3. QED
    BY <1>12, <2>1, <2>2 DEF BeforeMaster, GoOn, Awake, setVars
<1>13. ASSUME NEW h \in Hosts, FailedHost(h), Rest
       PROVE  TypeOK'
  BY <1>13 DEF FailedHost, scanVars, threadVars
<1>14. CASE UNCHANGED vars
  BY <1>14, SMTT(30) DEF vars, setVars, scanVars, threadVars
<1>15. CASE Next
  <2>1. triedHosts' \subseteq Hosts
    <3>1. ASSUME NEW t \in Threads, ContactHost(t) PROVE triedHosts' \subseteq Hosts
      <4>1. \A q \in WorkQueues : q \in Seq(Hosts)
        BY ShuffleIsQueue DEF WorkQueues
      <4>2. QED
        BY <3>1, <4>1 DEF ContactHost
    <3>2. QED
      BY <1>15, <3>1, StepCases, ZenonT(30)
        DEF Next, GetHostOrRefresh, RefreshAll, ContinueScan, StartNewScan,
            ReturnMatch, NotCurrentScan, IgnoreReply, Wait, SpuriousWakeup,
            EndScan, HostFailed, FromMaster, AfterMaster, BeforeMaster,
            FailedHost, scanVars
  <2>2. Rest
    BY <1>15, <2>1, HistoryType DEF Next
  <2>3. QED
    <3> HIDE DEF Rest, IInv, TypeOK
    <3>1. QED
      BY <1>15, <2>2, <1>1, <1>2, <1>3, <1>4, <1>5, <1>6, <1>7, <1>8, <1>9,
         <1>10, <1>11, <1>12, <1>13, StepCases, SMTT(30) DEF Next
<1>16. QED
  BY <1>14, <1>15

\* The nodes, masters and seeds stay consistent.
LEMMA SetStep ==
    ASSUME IInv, [Next]_vars
    PROVE  SetPart'
<1> USE DEF IInv, SetPart, SetInvariants, MasterDecidesMembership
<1>1. ASSUME UNCHANGED <<setVars, foundUpMaster>>
      PROVE  SetPart'
  BY <1>1 DEF setVars
<1>2. ASSUME NEW t \in Threads, EndScan(t)
      PROVE  SetPart'
  BY <1>2 DEF EndScan, UpAfter
<1>3. ASSUME NEW h \in Hosts \cup {NoHost}, up' = up \ {h}, master' = master \ {h},
             UNCHANGED <<nodes, seedNodes, lastSeenMaster, foundUpMaster>>
      PROVE  SetPart'
  BY <1>3
<1>4. ASSUME NEW t \in Threads, NEW r \in IsMasterReply,
             r.isMaster => ~r.hidden, FromMaster(t, r)
      PROVE  SetPart'
  <2>1. r.host \in HostsOf({x \in unconfirmedReplies \cup {r} : ReplyIsUp(x)})
    BY <1>4 DEF FromMaster, HostsOf, ReplyIsUp
  <2>2. master' \subseteq up' /\ up' \subseteq nodes'
    BY <1>4, <2>1 DEF FromMaster, UpAfter
  <2>3. QED
    BY <1>4, <2>2 DEF FromMaster
<1>5. ASSUME NEW t \in Threads, NEW r \in IsMasterReply, AfterMaster(t, r)
      PROVE  SetPart'
  <2>1. HostsOf({r}) = {r.host}
    BY DEF HostsOf
  <2>2. QED
    BY <1>5, <2>1, ZenonT(30) DEF AfterMaster, UpAfter
<1>6. CASE UNCHANGED vars
  BY <1>1, <1>6 DEF vars, scanVars
<1>7. ASSUME NEW t \in Threads, HostFailed(t)
      PROVE  SetPart'
  BY <1>3, <1>7 DEF HostFailed, TypeOK
<1>8. ASSUME NEW h \in Hosts, FailedHost(h)
      PROVE  SetPart'
  BY <1>3, <1>8 DEF FailedHost, scanVars
<1>9. CASE Step
  <2> HIDE DEF IInv, SetPart
  <2>1. QED
    BY <1>1, <1>2, <1>4, <1>5, <1>7, <1>8, <1>9, StepCases, ZenonT(30)
      DEF GetHostOrRefresh, RefreshAll, ContinueScan, StartNewScan,
          ReturnMatch, NotCurrentScan, IgnoreReply, Wait, SpuriousWakeup,
          ContactHost, BeforeMaster, scanVars
<1>10. QED
  BY <1>6, <1>9 DEF Next

\* What getNextStep pops from holds every queued host and no tried one.
LEMMA WorkQueueFacts ==
    ASSUME IInv, NEW q \in WorkQueues
    PROVE  /\ q \in Seq(Hosts) /\ IsInjective(q)
           /\ Range(q) \cap triedHosts = {}
           /\ Range(hostsToScan) \subseteq Range(q)
<1>1. CASE Fallback
  <2>1. possibleNodes \ triedHosts \in SUBSET Hosts
    BY DEF IInv, TypeOK
  <2>2. q \in Seq(Hosts) /\ Range(q) = possibleNodes \ triedHosts /\ IsInjective(q)
    BY <1>1, <2>1, ShuffleIsQueue DEF WorkQueues
  <2>3. Range(hostsToScan) = {}
    BY <1>1 DEF Fallback, Range
  <2>4. QED
    BY <2>2, <2>3
<1>2. CASE ~Fallback
  BY <1>2 DEF WorkQueues, IInv, TypeOK, ScanPart, ScanInvariants
<1>3. QED
  BY <1>1, <1>2

\* The scan keeps its queue free of duplicates and of tried hosts, and keeps
\* owing a contact to every node.
LEMMA ScanStep ==
    ASSUME IInv, [Next]_vars
    PROVE  ScanPart'
<1> USE DEF IInv, ScanPart, ScanInvariants, ScanCoversNodes, ScanAtRest,
            RepliesAreTried
<1>1. ASSUME UNCHANGED <<nodes, scanning, scanVars>>, scanning \/ joined' = {}
      PROVE  ScanPart'
  BY <1>1 DEF scanVars
<1>2. ASSUME NEW t \in Threads, StartNewScan(t)
      PROVE  ScanPart'
  <2>1. IsInjective(hostsToScan') /\ Range(hostsToScan') = nodes
    BY <1>2, ShuffleIsQueue DEF StartNewScan, ScanOrders, TypeOK
  <2>2. nodes' = nodes
    BY <1>2 DEF StartNewScan, setVars
  <2>3. QED
    BY <1>2, <2>1, <2>2 DEF StartNewScan, HostsOf
<1>3. ASSUME NEW t \in Threads, ContactHost(t)
      PROVE  ScanPart'
  <2>1. PICK q \in WorkQueues :
            /\ q # <<>> /\ hostsToScan' = Tail(q)
            /\ waitingFor' = waitingFor \cup {Head(q)}
            /\ triedHosts' = triedHosts \cup {Head(q)}
    BY <1>3 DEF ContactHost
  <2>2. /\ Head(q) \in Range(q)
        /\ Range(Tail(q)) = Range(q) \ {Head(q)}
        /\ IsInjective(Tail(q))
        /\ Range(q) \cap triedHosts = {}
        /\ Range(hostsToScan) \subseteq Range(q)
    BY <2>1, WorkQueueFacts, PopQueue, ZenonT(30)
  <2>3. UNCHANGED <<nodes, scanning, unconfirmedReplies, foundUpMaster, joined>>
    BY <1>3 DEF ContactHost, setVars
  <2>4. t \in joined
    BY <1>3 DEF ContactHost
  <2>5. QED
    BY <2>1, <2>2, <2>3, <2>4
<1>4. ASSUME NEW t \in Threads, EndScan(t)
      PROVE  ScanPart'
  BY <1>4 DEF EndScan, HostsOf, Range, IsInjective
<1>5. ASSUME NEW t \in Threads, t \in joined, HostFailed(t)
      PROVE  ScanPart'
  BY <1>5 DEF HostFailed, GoOn
<1>6. ASSUME NEW t \in Threads, t \in joined, NEW r \in IsMasterReply,
             r.host = target[t], FromMaster(t, r)
      PROVE  ScanPart'
  <2>1. r.normalHosts \ triedHosts \in SUBSET Hosts
    BY DEF IsMasterReply
  <2>2. CASE nodes = r.normalHosts
    BY <1>6, <2>2 DEF FromMaster, GoOn, HostsOf
  <2>3. CASE nodes # r.normalHosts
    <3>1. /\ IsInjective(hostsToScan')
          /\ Range(hostsToScan') = r.normalHosts \ triedHosts
      BY <1>6, <2>1, <2>3, ShuffleIsQueue, SMTT(30) DEF FromMaster
    <3>2. QED
      BY <1>6, <2>3, <3>1 DEF FromMaster, GoOn, HostsOf
  <2>4. QED
    BY <2>2, <2>3, ZenonT(30)
<1>7. ASSUME NEW t \in Threads, t \in joined, NEW r \in IsMasterReply,
             AfterMaster(t, r)
      PROVE  ScanPart'
  BY <1>7 DEF AfterMaster, GoOn
<1>8. ASSUME NEW t \in Threads, t \in joined, Returned(t), NEW r \in IsMasterReply,
             r.host = target[t], BeforeMaster(t, r)
      PROVE  ScanPart'
  <2>1. /\ IsInjective(hostsToScan')
        /\ Range(hostsToScan) \subseteq Range(hostsToScan')
        /\ Range(hostsToScan') \cap triedHosts = {}
    BY <1>8, HintedQueue DEF BeforeMaster, TypeOK, IsMasterReply
  <2>2. HostsOf(unconfirmedReplies') = HostsOf(unconfirmedReplies) \cup {r.host}
    BY <1>8, ZenonT(30) DEF BeforeMaster, HostsOf
  <2>3. r.host \in triedHosts
    BY <1>8 DEF Returned, ThreadPart, Participants
  <2>4. QED
    BY <1>8, <2>1, <2>2, <2>3, ZenonT(30) DEF BeforeMaster, GoOn, setVars
<1>9. CASE UNCHANGED vars
  BY <1>1, <1>9, ZenonT(30) DEF vars, setVars, threadVars
<1>10. CASE Step
  <2>1. ASSUME NEW t \in Threads,
               ContinueScan(t) \/ ReturnMatch(t) \/ NotCurrentScan(t) \/ IgnoreReply(t)
        PROVE  ScanPart'
    BY <1>1, <2>1, ZenonT(30)
      DEF ContinueScan, ReturnMatch, NotCurrentScan, IgnoreReply, setVars
  <2>2. ASSUME NEW t \in Threads, RefreshAll(t) \/ Wait(t) \/ SpuriousWakeup(t)
        PROVE  ScanPart'
    BY <1>1, <2>2, ZenonT(30) DEF RefreshAll, Wait, SpuriousWakeup, setVars
  <2>3. ASSUME NEW t \in Threads, NEW pref \in Prefs, GetHostOrRefresh(t, pref)
        PROVE  ScanPart'
    BY <1>1, <2>3, ZenonT(30) DEF GetHostOrRefresh, setVars
  <2>4. ASSUME NEW h \in Hosts, FailedHost(h)
        PROVE  ScanPart'
    BY <1>1, <2>4, ZenonT(30) DEF FailedHost, threadVars
  <2>5. QED
    <3> HIDE DEF IInv, ScanPart
    <3>1. QED
      BY <1>2, <1>3, <1>4, <1>5, <1>6, <1>7, <1>8, <1>10, <2>1, <2>2, <2>3,
         <2>4, StepCases, ZenonT(30)
<1>11. QED
  BY <1>9, <1>10, ZenonT(30) DEF Next
=============================================================================
