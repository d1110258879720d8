----------------------------- MODULE HostLookup -----------------------------
(***************************************************************************)
(* What ReplicaSetMonitor::getHostOrRefresh promises its callers, without  *)
(* scans, queues, replies, a mutex or a condition variable: a call is      *)
(* answered with a host, or given up once every known host has been        *)
(* contacted on its behalf; it never lasts forever.  Which hosts are known *)
(* changes at any moment.  A refreshAll is a call whose answer is ignored. *)
(***************************************************************************)
CONSTANTS Hosts, Threads

VARIABLES
    call,        \* call[t]: "idle", "asking", or "gaveUp"
    known,       \* the hosts known to be in the set
    contacted,   \* contacted[t]: hosts contacted since t asked
    covered      \* covered[t]: at some moment since t asked, all the known ones

lookupVars == <<call, known, contacted, covered>>

Asking(t) == call[t] = "asking"

LookupInit ==
    /\ call = [t \in Threads |-> "idle"]
    /\ known \in SUBSET Hosts
    /\ contacted = [t \in Threads |-> {}]
    /\ covered = [t \in Threads |-> FALSE]

Ask(t) == ~Asking(t) /\ call' = [call EXCEPT ![t] = "asking"]

\* The host found may be one that was known before the call.
AnswerAtOnce(t) == ~Asking(t) /\ call' = [call EXCEPT ![t] = "idle"]

Answer(t) == Asking(t) /\ call' = [call EXCEPT ![t] = "idle"]

GiveUp(t) ==
    /\ Asking(t)
    /\ covered[t] \/ known' \subseteq contacted[t]
    /\ call' = [call EXCEPT ![t] = "gaveUp"]

CallStep == \E t \in Threads : Ask(t) \/ AnswerAtOnce(t) \/ Answer(t) \/ GiveUp(t)

\* S is the set of hosts contacted in this step.
Record(S) ==
    /\ contacted' = [t \in Threads |->
            IF Asking(t) /\ Asking(t)' THEN contacted[t] \cup S ELSE {}]
    /\ covered' = [t \in Threads |->
            /\ Asking(t) /\ Asking(t)'
            /\ covered[t] \/ known' \subseteq contacted'[t]]

LookupNext ==
    /\ known' \in SUBSET Hosts
    /\ CallStep \/ UNCHANGED call
    /\ \E S \in SUBSET Hosts : Record(S)

LookupSafety == LookupInit /\ [][LookupNext]_lookupVars

LookupSpec ==
    LookupSafety /\ \A t \in Threads : WF_lookupVars(LookupNext /\ (Answer(t) \/ GiveUp(t)))
=============================================================================
