------------------------------ MODULE Refresher ------------------------------
(***************************************************************************)
(* How the threads of a client share one refresh of a replica set: the     *)
(* SetState and ScanState of src/mongo/client/replica_set_monitor.cpp, the *)
(* Refresher that drives them, getHostOrRefresh and refreshAll, which call *)
(* it, and failedHost, which any client thread may call at any moment.     *)
(*                                                                         *)
(* SetState::mutex protects every variable of the first two groups below;  *)
(* a thread gives it up while it talks to a host and while it sleeps on    *)
(* the condition variable.  An action is what a thread does while it holds *)
(* the mutex.  The one exception is the step that takes in a reply: the    *)
(* loop goes on to its next iteration without releasing the mutex, so that *)
(* action leaves the thread in mutex, and nobody else moves before it.     *)
(***************************************************************************)
EXTENDS Naturals, FiniteSets, Sequences, Functions

CONSTANTS
    Hosts,           \* every host and port that occurs
    NoHost,          \* the empty HostAndPort
    Seeds,           \* the seed list the monitor is created with
    Threads,         \* threads of the client, the watcher's included
    NoThread,        \* nobody holds the mutex
    Prefs,           \* the read preferences the clients ask with
    Answers,         \* Answers[h]: the isMaster documents host h may send
    FailedScansCap   \* failed scans are counted up to this number

AllPrefs ==
    {"PrimaryOnly", "PrimaryPreferred", "SecondaryOnly",
     "SecondaryPreferred", "Nearest"}

\* An isMaster document; inSet says that its setName is the monitor's.
RawReply ==
    [ok : BOOLEAN, inSet : BOOLEAN, ismaster : BOOLEAN, secondary : BOOLEAN,
     hidden : BOOLEAN, hosts : SUBSET Hosts, passives : SUBSET Hosts,
     primary : Hosts \cup {NoHost}]

IsMasterReply ==
    [host : Hosts, ok : BOOLEAN, inSet : BOOLEAN, isMaster : BOOLEAN,
     secondary : BOOLEAN, hidden : BOOLEAN, normalHosts : SUBSET Hosts,
     primary : Hosts \cup {NoHost}]

\* There are finitely many hosts: any set of them can be put in a queue.
ASSUME HostsAssumption ==
    /\ \A S \in SUBSET Hosts : Cardinality(S) \in Nat
    /\ NoHost \notin Hosts
    /\ Seeds \subseteq Hosts /\ Seeds # {}

ASSUME ThreadsAssumption == NoThread \notin Threads

ASSUME PrefsAssumption == Prefs \subseteq AllPrefs

ASSUME AnswersAssumption == Answers \in [Hosts -> SUBSET RawReply]

ASSUME CapAssumption == FailedScansCap \in Nat

VARIABLES
    \* SetState: the nodes, which of them have isUp and isMaster
    nodes, up, master, seedNodes, lastSeenMaster, consecutiveFailedScans,
    \* currentScan: whether it is set, and the ScanState it points to
    scanning, hostsToScan, triedHosts, waitingFor, possibleNodes,
    unconfirmedReplies, foundUpMaster, foundAnyUpNodes,
    \* the threads: where each one is, the preference it looks for, the host
    \* it talks to, whether its _scan is the current one, whether it gives up
    \* when this scan finds nothing, and who holds the mutex
    pc, criteria, target, joined, final, mutex,
    \* history: the hosts contacted by anybody since a thread's call began,
    \* and whether at some moment since then these were all the known hosts
    contacted, covered

setVars == <<nodes, up, master, seedNodes, lastSeenMaster>>
scanVars == <<hostsToScan, triedHosts, waitingFor, possibleNodes,
              unconfirmedReplies, foundUpMaster, foundAnyUpNodes>>
threadVars == <<pc, criteria, target, joined, final, mutex>>
vars == <<setVars, consecutiveFailedScans, scanning, scanVars, threadVars,
          contacted, covered>>

\* gaveUp is idle after a call that returned the empty host.
Resting == {"idle", "gaveUp"}
InLoop == {"loop", "waiting", "contacting"}
InCall(t) == pc[t] \notin Resting

-----------------------------------------------------------------------------
(* Pure parts.                                                             *)

\* The orders random_shuffle may give the hosts of S.
Shuffles(S) == Bijection(1..Cardinality(S), S)

\* IsMasterReply::parse.
Parse(h, raw) ==
    [host |-> h, ok |-> raw.ok, inSet |-> raw.inSet,
     isMaster |-> ~raw.hidden /\ raw.ismaster,
     secondary |-> raw.secondary, hidden |-> raw.hidden,
     normalHosts |-> raw.hosts \cup raw.passives, primary |-> raw.primary]

\* What Node::update makes of isUp.
ReplyIsUp(r) == ~r.hidden /\ (r.isMaster \/ r.secondary)

HostsOf(replies) == {r.host : r \in replies}

\* The hosts of N that are up once the replies have been applied to them, when
\* those of U were before.
UpAfter(replies, N, U) ==
    ((U \cap N) \ HostsOf(replies))
        \cup (N \cap HostsOf({r \in replies : ReplyIsUp(r)}))

\* The hosts getMatchingHost chooses from; tags and latency, which narrow the
\* choice, are left out.
Matching(pref, U, M) ==
    CASE pref = "PrimaryOnly"        -> M
      [] pref = "SecondaryOnly"      -> U \ M
      [] pref = "PrimaryPreferred"   -> IF M # {} THEN M ELSE U \ M
      [] pref = "SecondaryPreferred" -> IF U \ M # {} THEN U \ M ELSE M
      [] pref = "Nearest"            -> U
      [] OTHER                       -> {}

\* stable_partition on one host that q holds: it moves to the front, and the
\* others keep their order.
MoveToFront(h, q) ==
    LET at == CHOOSE i \in DOMAIN q : q[i] = h
    IN  [i \in 1..Len(q) |-> IF i = 1 THEN h
                             ELSE IF i <= at THEN q[i - 1] ELSE q[i]]

\* Mutants: an unnamed primary is queued; one that was tried already is queued.
WithHintUnnamed(h, q) ==
    IF h \in triedHosts THEN q
    ELSE IF h \in Range(q) THEN MoveToFront(h, q) ELSE <<h>> \o q

WithHintTried(h, q) ==
    IF h = NoHost THEN q
    ELSE IF h \in Range(q) THEN MoveToFront(h, q) ELSE <<h>> \o q

\* receivedIsMasterBeforeFoundMaster: the host a reply names as the primary is
\* the next to contact.
WithHint(h, q) ==
    IF h = NoHost \/ h \in triedHosts THEN q
    ELSE IF h \in Range(q) THEN MoveToFront(h, q)
    ELSE <<h>> \o q

\* The order of startNewScan: lastSeenMaster, the nodes that are up, the rest.
Rank(h) == IF h = lastSeenMaster THEN 0 ELSE IF h \in up THEN 1 ELSE 2

ScanOrders ==
    {q \in Shuffles(nodes) :
        \A i, j \in DOMAIN q : i < j => Rank(q[i]) <= Rank(q[j])}

HasMatch(t) == Matching(criteria[t], up, master) # {}
Holds(t) == mutex \in {NoThread, t}
Free == mutex = NoThread

\* cv.notify_all: the sleepers compete for the mutex again.
Awake(p) == [t \in Threads |-> IF p[t] = "waiting" THEN "loop" ELSE p[t]]

-----------------------------------------------------------------------------
(* The calls.                                                              *)

\* The constructor of SetState: the seeds are nodes, all of them down.
Init ==
    /\ nodes = Seeds /\ up = {} /\ master = {} /\ seedNodes = Seeds
    /\ lastSeenMaster = NoHost /\ consecutiveFailedScans = 0
    /\ scanning = FALSE
    /\ hostsToScan = <<>> /\ triedHosts = {} /\ waitingFor = {}
    /\ possibleNodes = {} /\ unconfirmedReplies = {}
    /\ foundUpMaster = FALSE /\ foundAnyUpNodes = FALSE
    /\ pc = [t \in Threads |-> "idle"]
    /\ criteria = [t \in Threads |-> "none"]
    /\ target = [t \in Threads |-> NoHost]
    /\ joined = {}
    /\ final = [t \in Threads |-> FALSE]
    /\ mutex = NoThread
    /\ contacted = [t \in Threads |-> {}]
    /\ covered = [t \in Threads |-> FALSE]

\* The first block of getHostOrRefresh: a host that matches already is returned
\* at once, otherwise the thread will refresh.
GetHostOrRefresh(t, pref) ==
    /\ pc[t] \in Resting /\ Free
    /\ IF Matching(pref, up, master) # {}
       THEN /\ pc' = [pc EXCEPT ![t] = "idle"]
            /\ UNCHANGED criteria
       ELSE /\ pc' = [pc EXCEPT ![t] = "starting"]
            /\ criteria' = [criteria EXCEPT ![t] = pref]
    /\ UNCHANGED <<setVars, consecutiveFailedScans, scanning, scanVars,
                   target, joined, final, mutex>>

\* checkAllSets calls startOrContinueRefresh().refreshAll(): no criteria, and
\* no second scan.
RefreshAll(t) ==
    /\ pc[t] \in Resting
    /\ pc' = [pc EXCEPT ![t] = "starting"]
    /\ final' = [final EXCEPT ![t] = TRUE]
    /\ UNCHANGED <<setVars, consecutiveFailedScans, scanning, scanVars,
                   criteria, target, joined, mutex>>

\* startOrContinueRefresh when a scan is in progress: take part in it.
ContinueScan(t) ==
    /\ pc[t] = "starting" /\ Free /\ scanning
    /\ pc' = [pc EXCEPT ![t] = "loop"]
    /\ joined' = joined \cup {t}
    /\ UNCHANGED <<setVars, consecutiveFailedScans, scanning, scanVars,
                   criteria, target, final, mutex>>

\* startOrContinueRefresh when none is: startNewScan, and startedNewScan.
StartNewScan(t) ==
    /\ pc[t] = "starting" /\ Free /\ ~scanning
    /\ scanning' = TRUE
    /\ hostsToScan' \in ScanOrders
    /\ pc' = [pc EXCEPT ![t] = "loop"]
    /\ joined' = joined \cup {t}
    /\ final' = [final EXCEPT ![t] = TRUE]
    /\ UNCHANGED <<setVars, consecutiveFailedScans, triedHosts, waitingFor,
                   possibleNodes, unconfirmedReplies, foundUpMaster,
                   foundAnyUpNodes, criteria, target, mutex>>

\* Mutant: a thread that joined a scan of others gives up when that scan ends.
ReturnAtOnce(t, found) ==
    /\ pc' = [pc EXCEPT ![t] = IF found \/ criteria[t] = "none" THEN "idle"
                               ELSE "gaveUp"]
    /\ criteria' = [criteria EXCEPT ![t] = "none"]
    /\ final' = [final EXCEPT ![t] = FALSE]
    /\ target' = [target EXCEPT ![t] = NoHost]
    /\ mutex' = NoThread

\* refreshUntilMatches returns, with a host when found holds.  Without one,
\* getHostOrRefresh gives up if this was a scan it started or its second try,
\* and otherwise takes part in one more scan.
Return(t, found) ==
    LET next == IF found \/ criteria[t] = "none" THEN "idle"
                ELSE IF final[t] THEN "gaveUp" ELSE "starting"
    IN  /\ pc' = [pc EXCEPT ![t] = next]
        /\ criteria' = [criteria EXCEPT ![t] =
                            IF next = "starting" THEN @ ELSE "none"]
        /\ final' = [final EXCEPT ![t] = (next = "starting")]
        /\ target' = [target EXCEPT ![t] = NoHost]
        /\ mutex' = NoThread

-----------------------------------------------------------------------------
(* The loop of _refreshUntilMatches, which asks getNextStep.               *)

AtLoop(t) == pc[t] = "loop" /\ Holds(t)

ReturnMatch(t) ==
    /\ AtLoop(t) /\ HasMatch(t)
    /\ Return(t, TRUE)
    /\ joined' = joined \ {t}
    /\ UNCHANGED <<setVars, consecutiveFailedScans, scanning, scanVars>>

\* getNextStep: _scan is no longer the current scan.
NotCurrentScan(t) ==
    /\ AtLoop(t) /\ ~HasMatch(t) /\ t \notin joined
    /\ Return(t, FALSE)
    /\ UNCHANGED <<setVars, consecutiveFailedScans, scanning, scanVars, joined>>

\* getNextStep returns WAIT, and the thread sleeps on the condition variable.
Wait(t) ==
    /\ AtLoop(t) /\ ~HasMatch(t) /\ t \in joined
    /\ hostsToScan = <<>> /\ waitingFor # {}
    /\ pc' = [pc EXCEPT ![t] = "waiting"]
    /\ mutex' = NoThread
    /\ UNCHANGED <<setVars, consecutiveFailedScans, scanning, scanVars,
                   criteria, target, joined, final>>

\* The queue getNextStep pops from: hostsToScan, or, when that is exhausted and
\* no master has been found, the untried hosts that replies have named.
Fallback == hostsToScan = <<>> /\ waitingFor = {} /\ ~foundUpMaster

WorkQueues ==
    IF Fallback THEN Shuffles(possibleNodes \ triedHosts) ELSE {hostsToScan}

\* getNextStep returns CONTACT_HOST, and the thread leaves the mutex.
ContactHost(t) ==
    /\ AtLoop(t) /\ ~HasMatch(t) /\ t \in joined
    /\ \E q \in WorkQueues :
        /\ q # <<>>
        /\ hostsToScan' = Tail(q)
        /\ waitingFor' = waitingFor \cup {Head(q)}
        /\ triedHosts' = triedHosts \cup {Head(q)}
        /\ target' = [target EXCEPT ![t] = Head(q)]
    /\ possibleNodes' = IF Fallback THEN {} ELSE possibleNodes
    /\ pc' = [pc EXCEPT ![t] = "contacting"]
    /\ mutex' = NoThread
    /\ UNCHANGED <<setVars, consecutiveFailedScans, scanning,
                   unconfirmedReplies, foundUpMaster, foundAnyUpNodes,
                   criteria, joined, final>>

\* getNextStep finds nothing left to do: without a master it applies the
\* unconfirmed replies, and in any case it ends the scan for everybody.
EndScan(t) ==
    /\ AtLoop(t) /\ ~HasMatch(t) /\ t \in joined
    /\ hostsToScan = <<>> /\ waitingFor = {}
    /\ foundUpMaster \/ possibleNodes \subseteq triedHosts
    /\ nodes' = nodes \cup HostsOf(unconfirmedReplies)
    /\ up' = UpAfter(unconfirmedReplies, nodes', up)
    /\ master' = master \ HostsOf(unconfirmedReplies)
    /\ consecutiveFailedScans' =
          IF foundAnyUpNodes THEN 0
          ELSE IF consecutiveFailedScans < FailedScansCap
               THEN consecutiveFailedScans + 1 ELSE consecutiveFailedScans
    /\ scanning' = FALSE
    /\ hostsToScan' = <<>> /\ triedHosts' = {} /\ waitingFor' = {}
    /\ possibleNodes' = {} /\ unconfirmedReplies' = {}
    /\ foundUpMaster' = FALSE /\ foundAnyUpNodes' = FALSE
    /\ joined' = {}
    /\ Return(t, Matching(criteria[t], up', master') # {})
    /\ UNCHANGED <<seedNodes, lastSeenMaster>>

-----------------------------------------------------------------------------
(* The thread is back from isMaster and has locked the mutex again.        *)

Returned(t) == pc[t] = "contacting" /\ Free

\* The scan is over: the reply, or the failure, is ignored.
IgnoreReply(t) ==
    /\ Returned(t) /\ t \notin joined
    /\ Return(t, HasMatch(t))
    /\ UNCHANGED <<setVars, consecutiveFailedScans, scanning, scanVars, joined>>

\* The thread goes on with the loop, holding the mutex; notify_all if wake.
GoOn(t, wake) ==
    /\ pc' = [IF wake THEN Awake(pc) ELSE pc EXCEPT ![t] = "loop"]
    /\ target' = [target EXCEPT ![t] = NoHost]
    /\ mutex' = t
    /\ UNCHANGED <<criteria, joined, final>>

\* Mutants: the failed host stays in waitingFor; its failure notifies nobody.
HostFailedStillAwaited(t) ==
    /\ up' = up \ {target[t]}
    /\ master' = master \ {target[t]}
    /\ GoOn(t, TRUE)
    /\ UNCHANGED <<nodes, seedNodes, lastSeenMaster, consecutiveFailedScans,
                   scanning, scanVars>>

HostFailedNoNotify(t) ==
    /\ waitingFor' = waitingFor \ {target[t]}
    /\ up' = up \ {target[t]}
    /\ master' = master \ {target[t]}
    /\ GoOn(t, FALSE)
    /\ UNCHANGED <<nodes, seedNodes, lastSeenMaster, consecutiveFailedScans,
                   scanning, hostsToScan, triedHosts, possibleNodes,
                   unconfirmedReplies, foundUpMaster, foundAnyUpNodes>>

\* Refresher::failedHost.
HostFailed(t) ==
    LET h == target[t]
    IN  /\ waitingFor' = waitingFor \ {h}
        /\ up' = up \ {h}
        /\ master' = master \ {h}
        /\ GoOn(t, waitingFor \ {h} = {})
        /\ UNCHANGED <<nodes, seedNodes, lastSeenMaster,
                       consecutiveFailedScans, scanning, hostsToScan,
                       triedHosts, possibleNodes, unconfirmedReplies,
                       foundUpMaster, foundAnyUpNodes>>

\* isMaster threw or gave no document.
NoReply(t) ==
    /\ Returned(t) /\ t \in joined
    /\ HostFailed(t)

\* receivedIsMaster on a document that is not ok or is of another set.
BadReply(t, r) ==
    /\ ~(r.ok /\ r.inSet)
    /\ HostFailed(t)

\* Mutants of FromMaster: what remains of it when former members stay nodes, or
\* when the queue of the scan is not replaced.
FromMasterWith(t, r, newNodes, newQueues) ==
    /\ r.ok /\ r.inSet /\ r.isMaster
    /\ nodes' = newNodes
    /\ seedNodes' = r.normalHosts
    /\ hostsToScan' \in newQueues
    /\ waitingFor' = (waitingFor \ {r.host}) \cap newNodes
    /\ up' = UpAfter(unconfirmedReplies \cup {r}, newNodes, up)
    /\ master' = {r.host} \cap newNodes
    /\ unconfirmedReplies' = {}
    /\ foundUpMaster' = TRUE
    /\ lastSeenMaster' = r.host
    /\ foundAnyUpNodes' = TRUE
    /\ GoOn(t, TRUE)
    /\ UNCHANGED <<consecutiveFailedScans, scanning, triedHosts, possibleNodes>>

FromMasterKeepsMembers(t, r) ==
    FromMasterWith(t, r, nodes \cup r.normalHosts,
                   Shuffles((nodes \cup r.normalHosts) \ triedHosts))

FromMasterKeepsQueue(t, r) == FromMasterWith(t, r, r.normalHosts, {hostsToScan})

\* receivedIsMasterFromMaster, and then the update of the master's own node:
\* the master decides who is a member, and who remains to be contacted.
FromMaster(t, r) ==
    /\ r.ok /\ r.inSet /\ r.isMaster
    /\ nodes' = r.normalHosts
    /\ seedNodes' = r.normalHosts
    /\ IF nodes = r.normalHosts
       THEN /\ UNCHANGED hostsToScan
            /\ waitingFor' = waitingFor \ {r.host}
       ELSE /\ hostsToScan' \in Shuffles(r.normalHosts \ triedHosts)
            /\ waitingFor' = (waitingFor \ {r.host}) \cap r.normalHosts
    /\ up' = UpAfter(unconfirmedReplies \cup {r}, r.normalHosts, up)
    /\ master' = {r.host} \cap r.normalHosts
    /\ unconfirmedReplies' = {}
    /\ foundUpMaster' = TRUE
    /\ lastSeenMaster' = r.host
    /\ foundAnyUpNodes' = TRUE
    /\ GoOn(t, TRUE)
    /\ UNCHANGED <<consecutiveFailedScans, scanning, triedHosts, possibleNodes>>

\* A reply of another host once a master has been found.
AfterMaster(t, r) ==
    /\ r.ok /\ r.inSet /\ ~r.isMaster /\ foundUpMaster
    /\ waitingFor' = waitingFor \ {r.host}
    /\ up' = UpAfter({r}, nodes, up)
    /\ master' = master \ {r.host}
    /\ foundAnyUpNodes' = TRUE
    /\ GoOn(t, TRUE)
    /\ UNCHANGED <<nodes, seedNodes, lastSeenMaster, consecutiveFailedScans,
                   scanning, hostsToScan, triedHosts, possibleNodes,
                   unconfirmedReplies, foundUpMaster>>

\* Mutant: the reply is applied at once.
BeforeMasterTrusting(t, r) ==
    /\ r.ok /\ r.inSet /\ ~r.isMaster /\ ~foundUpMaster
    /\ waitingFor' = waitingFor \ {r.host}
    /\ possibleNodes' = possibleNodes \cup r.normalHosts
    /\ hostsToScan' = WithHint(r.primary, hostsToScan)
    /\ up' = UpAfter({r}, nodes, up)
    /\ master' = master \ {r.host}
    /\ foundAnyUpNodes' = TRUE
    /\ GoOn(t, TRUE)
    /\ UNCHANGED <<nodes, seedNodes, lastSeenMaster, consecutiveFailedScans,
                   scanning, triedHosts, unconfirmedReplies, foundUpMaster>>

\* receivedIsMasterBeforeFoundMaster: only the work queue changes, and the
\* reply is kept until a master confirms the host or the scan ends.
BeforeMaster(t, r) ==
    /\ r.ok /\ r.inSet /\ ~r.isMaster /\ ~foundUpMaster
    /\ waitingFor' = waitingFor \ {r.host}
    /\ possibleNodes' = possibleNodes \cup r.normalHosts
    /\ hostsToScan' = WithHint(r.primary, hostsToScan)
    /\ unconfirmedReplies' = unconfirmedReplies \cup {r}
    /\ foundAnyUpNodes' = TRUE
    /\ GoOn(t, TRUE)
    /\ UNCHANGED <<setVars, consecutiveFailedScans, scanning, triedHosts,
                   foundUpMaster>>

ReceivedIsMaster(t) ==
    /\ Returned(t) /\ t \in joined
    /\ \E raw \in Answers[target[t]] :
        LET r == Parse(target[t], raw)
        IN  BadReply(t, r) \/ FromMaster(t, r) \/ AfterMaster(t, r)
                \/ BeforeMaster(t, r)

-----------------------------------------------------------------------------
\* ReplicaSetMonitor::failedHost: an operation on host h has failed.
FailedHost(h) ==
    /\ Free /\ h \in nodes
    /\ up' = up \ {h}
    /\ master' = master \ {h}
    /\ UNCHANGED <<nodes, seedNodes, lastSeenMaster, consecutiveFailedScans,
                   scanning, scanVars, threadVars>>

\* A condition variable may wake a thread that nobody notified.
SpuriousWakeup(t) ==
    /\ pc[t] = "waiting"
    /\ pc' = [pc EXCEPT ![t] = "loop"]
    /\ UNCHANGED <<setVars, consecutiveFailedScans, scanning, scanVars,
                   criteria, target, joined, final, mutex>>

\* The history variables.  A host is contacted when getNextStep dispatches it.
History ==
    /\ contacted' = [t \in Threads |->
            IF InCall(t) /\ InCall(t)'
            THEN contacted[t] \cup (triedHosts' \ triedHosts) ELSE {}]
    /\ covered' = [t \in Threads |->
            /\ InCall(t) /\ InCall(t)'
            /\ covered[t] \/ nodes' \subseteq contacted'[t]]

\* What a thread in a call does on its own.
Proceed(t) ==
    \/ ContinueScan(t) \/ StartNewScan(t)
    \/ ReturnMatch(t) \/ NotCurrentScan(t) \/ Wait(t) \/ ContactHost(t)
    \/ EndScan(t)
    \/ IgnoreReply(t) \/ NoReply(t) \/ ReceivedIsMaster(t)

Step ==
    \/ \E t \in Threads : \/ \E pref \in Prefs : GetHostOrRefresh(t, pref)
                          \/ RefreshAll(t)
                          \/ Proceed(t)
                          \/ SpuriousWakeup(t)
    \/ \E h \in Hosts : FailedHost(h)

Next == Step /\ History

Spec == Init /\ [][Next]_vars

\* A thread that keeps asking for the mutex gets it, and isMaster ends: the
\* connections of the cache have a socket timeout of five seconds.
FairSpec == Spec /\ \A t \in Threads : SF_vars(Proceed(t) /\ History)

-----------------------------------------------------------------------------
(* Properties.                                                             *)

\* The values the variables take.
TypeOK ==
    /\ nodes \subseteq Hosts /\ up \subseteq Hosts /\ master \subseteq Hosts
    /\ seedNodes \subseteq Hosts /\ lastSeenMaster \in Hosts \cup {NoHost}
    /\ consecutiveFailedScans \in 0..FailedScansCap
    /\ scanning \in BOOLEAN
    /\ hostsToScan \in Seq(Hosts)
    /\ triedHosts \subseteq Hosts /\ waitingFor \subseteq Hosts
    /\ possibleNodes \subseteq Hosts
    /\ unconfirmedReplies \subseteq IsMasterReply
    /\ foundUpMaster \in BOOLEAN /\ foundAnyUpNodes \in BOOLEAN
    /\ pc \in [Threads -> Resting \cup {"starting"} \cup InLoop]
    /\ criteria \in [Threads -> Prefs \cup {"none"}]
    /\ target \in [Threads -> Hosts \cup {NoHost}]
    /\ joined \subseteq Threads
    /\ final \in [Threads -> BOOLEAN]
    /\ mutex \in Threads \cup {NoThread}
    /\ contacted \in [Threads -> SUBSET Hosts]
    /\ covered \in [Threads -> BOOLEAN]

\* The part of SetState::checkInvariants about the nodes: a master is up, it is
\* the only one and the last one seen, and every seed is a node.
SetInvariants ==
    /\ up \subseteq nodes
    /\ master \subseteq up
    /\ master \subseteq {lastSeenMaster}
    /\ seedNodes \subseteq nodes

\* The part of SetState::checkInvariants about the current scan: no host is
\* queued twice or after it was tried, only tried hosts are waited for, and
\* replies stay unconfirmed only until a master is found.
ScanInvariants ==
    /\ IsInjective(hostsToScan)
    /\ Range(hostsToScan) \cap triedHosts = {}
    /\ waitingFor \subseteq triedHosts
    /\ foundUpMaster => unconfirmedReplies = {}

\* What checkInvariants asserts in a debug build holds whenever the mutex is
\* released, whatever the threads, the hosts and failedHost do.
CheckInvariants == SetInvariants /\ ScanInvariants

\* Once a master has answered, the nodes are the members it listed; hosts that
\* were only taken on trust at the end of a scan without a master are gone.
MasterDecidesMembership == foundUpMaster => nodes = seedNodes

\* The scan owes every node a contact: a node is either queued or was tried,
\* however the queue has been replaced, reordered and extended.
ScanCoversNodes == scanning => nodes \subseteq triedHosts \cup Range(hostsToScan)

\* Every host the scan waits for is being contacted by exactly one thread that
\* still takes part in the scan, so somebody will take it out of waitingFor.
EveryWaitHasAContact ==
    \A h \in waitingFor :
        \E t \in joined :
            /\ pc[t] = "contacting" /\ target[t] = h
            /\ \A u \in joined :
                    pc[u] = "contacting" /\ target[u] = h => u = t

\* What SetState::cv promises: no thread sleeps when getNextStep would give it
\* something else than WAIT, or when a host it could use has turned up.
NoLostWakeup ==
    \A t \in Threads :
        pc[t] = "waiting" =>
            /\ t \in joined
            /\ hostsToScan = <<>> /\ waitingFor # {}
            /\ ~HasMatch(t)

\* getHostOrRefresh returns the empty host only if, at some moment since it was
\* called, every host known then had been contacted since it was called,
\* "possibly by other threads" (the comment before its last line).
GivesUpOnlyAfterContactingAll ==
    [][\A t \in Threads :
          InCall(t) /\ pc'[t] = "gaveUp" =>
              covered[t] \/ nodes' \subseteq contacted[t]]_vars

\* A node becomes usable only when a master has confirmed it in this scan, or
\* at the end of a scan that contacted everybody without finding a master.
UsableOnlyWhenConfirmed ==
    [][up' \subseteq up \/ foundUpMaster' \/ (scanning /\ ~scanning')]_vars

\* The promise of getHostOrRefresh (HostLookup), kept by the refresh protocol:
\* a call is a thread that has not returned, the known hosts are the nodes.
Lookup == INSTANCE HostLookup
    WITH call <- [t \in Threads |-> IF InCall(t) THEN "asking" ELSE pc[t]],
         known <- nodes

\* The refresh protocol implements the abstract lookup, its liveness included.
ImplementsLookup == Lookup!LookupSpec

\* Every call of getHostOrRefresh and of refreshAll returns.
EveryCallReturns == \A t \in Threads : InCall(t) ~> ~InCall(t)
=============================================================================
