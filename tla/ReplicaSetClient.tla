-------------------------- MODULE ReplicaSetClient --------------------------
(***************************************************************************)
(* DBClientReplicaSet (src/mongo/client/dbclient_rs.cpp): a client of a    *)
(* replica set that keeps a connection to the primary and one to the host  *)
(* of its last slaveOk read, which may be the same connection.             *)
(*                                                                         *)
(* The object belongs to one thread, but the monitor it asks is shared and *)
(* the hosts change at any time, so every answer of the monitor and every  *)
(* round trip is a free choice.  An action is one call, or one iteration   *)
(* of the retry loop of a read or of an authentication.  The set's monitor *)
(* stays registered while the client is in use.                            *)
(***************************************************************************)
EXTENDS Connection, Naturals

CONSTANTS
    Prefs,      \* read preferences that allow a secondary
    NoPref,     \* _lastReadPref is NULL
    Addrs,      \* addresses of connection objects, reused once freed
    Null,       \* the null pointer
    MaxRetry,   \* MAX_RETRY
    LazyUse     \* whether the application runs lazy queries

ASSUME ClientAssumption ==
    /\ NoHost \notin Hosts /\ NoPref \notin Prefs /\ Null \notin Addrs
    /\ {"PrimaryPreferred", "SecondaryPreferred"} \subseteq Prefs
    /\ MaxRetry \in Nat \ {0} /\ LazyUse \in BOOLEAN

VARIABLES
    client,   \* the fields of the DBClientReplicaSet, and the heap
    call,     \* the call that is in its retry loop
    lazy,     \* the lazy query that a cursor has started on the client
    last      \* how the last call ended

vars == <<client, call, lazy, last>>

Reads == {"query", "findOne", "call", "say"}

Freed == [Opened(NoHost) EXCEPT !.failed = TRUE]

\* The fields of the object; conns is the heap.  misblamed and misled are
\* history: isntMaster has just given up a connection other than the one that
\* had been told "not master", and checkMaster has just returned a connection
\* to a host other than the primary it settled on.
Client ==
    [conns : [Addrs -> Conn \cup {Freed}],
     master : Addrs \cup {Null}, masterHost : Hosts \cup {NoHost},
     lastSlaveOkConn : Addrs \cup {Null},
     lastSlaveOkHost : Hosts \cup {NoHost},
     lastReadPref : Prefs \cup {NoPref}, auths : SUBSET Dbs,
     lazyState : [lastClient : Addrs \cup {Null}, isQuery : BOOLEAN,
                  secondaryQueryOk : BOOLEAN, retries : 0..MaxRetry],
     misblamed : BOOLEAN, misled : BOOLEAN]

Calls == [kind : Reads \cup {"auth"}, arg : Prefs \cup Dbs, tries : 0..MaxRetry]
NoCall == [kind |-> "none", arg |-> NoPref, tries |-> 0]

NoLazy == [state |-> "none", pref |-> NoPref, granted |-> 0]

TypeOK ==
    /\ client \in Client
    /\ call \in Calls \cup {NoCall}
    /\ lazy \in [state : {"none", "sent", "retry"}, pref : Prefs \cup {NoPref},
                 granted : 0..(MaxRetry + 1)]
    /\ last \in [op : {"none", "read", "auth", "other"},
                 end : {"returned", "threw", "noNode", "aborted"}]

Live(c) == {a \in Addrs : c.conns[a] # Freed}

EmptyLazyState ==
    [lastClient |-> Null, isQuery |-> FALSE, secondaryQueryOk |-> FALSE,
     retries |-> 0]

Init ==
    /\ client = [conns |-> [a \in Addrs |-> Freed],
                 master |-> Null, masterHost |-> NoHost,
                 lastSlaveOkConn |-> Null, lastSlaveOkHost |-> NoHost,
                 lastReadPref |-> NoPref, auths |-> {},
                 lazyState |-> EmptyLazyState,
                 misblamed |-> FALSE, misled |-> FALSE]
    /\ call = NoCall
    /\ lazy = NoLazy
    /\ last = [op |-> "none", end |-> "returned"]

(* ------------------- what the monitor and hosts answer ------------------ *)

\* getMasterOrUassert; NoHost stands for its assertion.
MasterOrUassert == Hosts \cup {NoHost}

\* getHostOrRefresh; the empty host when none matches.
HostOrRefresh == Hosts \cup {NoHost}

\* Documents a query may be answered with: results, an error that says "not
\* master" with code 13435, or "not master or secondary" with code 13436.
Replies == {"results", "notMaster", "notMasterOrSecondary"}

(* ------------------------- resetting connections ------------------------ *)

Delete(c, a) == IF a = Null THEN c ELSE [c EXCEPT !.conns[a] = Freed]

\* The outcomes of an operation on the connection at a, as outcomes of the
\* client's own operation.
On(c, a, outcomes) ==
    {[o EXCEPT !.state = [c EXCEPT !.conns[a] = o.state]] : o \in outcomes}


ResetMaster(c) ==
    LET shared == c.master = c.lastSlaveOkConn
    IN  [Delete(c, c.master) EXCEPT
            !.master = Null, !.masterHost = NoHost,
            !.lastSlaveOkConn = IF shared THEN Null ELSE @,
            !.lastSlaveOkHost = IF shared THEN NoHost ELSE @]

\* Only a UserException is caught: a SocketException leaves the loop.
LogoutAll(c, a) ==
    ForEach(c.auths, c, Null,
            LAMBDA k, db :
                Catch(On(k, a, ConnLogout(k.conns[a], db)), UserExceptions,
                      LAMBDA s, v : Ok(s, Null)))

ResetSlaveOkConn(c) ==
    LET Forget(k) == [k EXCEPT !.lastSlaveOkConn = Null,
                               !.lastSlaveOkHost = NoHost]
    IN  IF c.lastSlaveOkConn \in {c.master, Null}
        THEN Ok(Forget(c), Null)
        ELSE Then(LogoutAll(c, c.lastSlaveOkConn),
                  LAMBDA k, v : Ok(Forget(Delete(k, k.lastSlaveOkConn)), Null))

\* failedHost only changes the monitor.
InvalidateLastSlaveOkCache(c) == ResetSlaveOkConn(c)

IsntSecondary(c) == ResetSlaveOkConn(c)

\* Called when the connection at a was told "not master".
IsntMaster(c, a) ==
    ResetMaster([c EXCEPT !.misblamed = c.master \notin {a, Null}])

(* ------------------------- choosing a connection ------------------------ *)

\* _auth of a new child connection with the remembered credentials
AuthChild(c, a) ==
    Then(ForEach(c.auths, c, Null,
                 LAMBDA k, db :
                     Catch(On(k, a, ConnAuth(k.conns[a], db)), UserExceptions,
                           LAMBDA s, v : Ok(s, Null))),
         LAMBDA k, v : Ok(k, a))

\* checkMaster once h is known to be the primary to connect to
ConnectMaster(c, h) ==
    LET d == [c EXCEPT !.masterHost = h]
    IN  UNION {IF o.exc = "socket" THEN Throw(d, {"socket"})
               ELSE IF o.exc # "none" \/ o.val = "lost"
               THEN Throw(d, {"user"})
               ELSE UNION {LET r == ResetMaster(d)
                           IN  AuthChild([r EXCEPT !.conns[a] = o.state,
                                                   !.master = a,
                                                   !.masterHost = h], a) :
                              a \in Addrs \ Live(d)} :
                  o \in ConnConnect(h)}

CheckMaster(c) ==
    LET Connect(h) == IF h = NoHost THEN Throw(c, {"user"})
                                    ELSE ConnectMaster(c, h)
        Selected(h) == h = c.masterHost /\ c.master # Null
        Found(outcomes) ==
            Then(outcomes,
                 LAMBDA k, v :
                     Ok([k EXCEPT !.misled =
                             k.masterHost # k.conns[k.master].host], k.master))
    IN  Found(UNION {IF h = NoHost \/ ~Selected(h) THEN Connect(h)
                     ELSE IF ~c.conns[c.master].failed THEN Ok(c, c.master)
                     ELSE UNION {Connect(g) : g \in MasterOrUassert} :
                        h \in MasterOrUassert})

\* Whether the last host is used again; isHostUp may say either.
CheckLastHost(c, pref) ==
    LET conn == c.lastSlaveOkConn
    IN  IF conn = Null \/ c.lastSlaveOkHost = NoHost \/ c.lastReadPref # pref
        THEN Ok(c, "no")
        ELSE Then(InvalidateLastSlaveOkCache(c), LAMBDA k, v : Ok(k, "no"))
             \cup (IF c.conns[conn].failed THEN {} ELSE Ok(c, "pinned"))

\* A second connection attempt follows the first.
ConnectSecondary(c, h) ==
    UNION {IF o.exc # "none" THEN Throw(c, {o.exc})
           ELSE IF o.val = "lost" THEN Throw(c, {"user"})
           ELSE UNION {LET d == [c EXCEPT !.lastSlaveOkConn = a]
                       IN  Then(On(d, a, ConnConnect(h)),
                                LAMBDA k, v :
                                    IF v = "lost" THEN Throw(k, {"user"})
                                                  ELSE AuthChild(k, a)) :
                          a \in Addrs \ Live(c)} :
              o \in ConnConnect(h)}

\* selectNodeUsingTags with the host that the monitor chooses among hosts
SelectFrom(c, pref, hosts) ==
    LET AsPrimary(k) ==
            Then(CheckMaster(k),
                 LAMBDA m, v : Ok([m EXCEPT !.lastSlaveOkConn = m.master],
                                  m.master))
        Select(k, h) == [k EXCEPT !.lastReadPref = pref,
                                  !.lastSlaveOkHost = h]
    IN  Ok(c, Null) \cup
        UNION {Then(ResetSlaveOkConn(c),
                    LAMBDA k, v : AsPrimary(Select(k, h))
                                  \cup ConnectSecondary(Select(k, h), h)) :
                  h \in hosts}

\* Mutant: the empty host is not told from a host.
SelectEmptyHost(c, pref) == SelectFrom(c, pref, HostOrRefresh)

SelectHost(c, pref) == SelectFrom(c, pref, HostOrRefresh \ {NoHost})

\* The result is the connection, or Null when no node is good.
SelectNodeUsingTags(c, pref) ==
    Then(CheckLastHost(c, pref),
         LAMBDA k, v : IF v = "pinned" THEN Ok(k, k.lastSlaveOkConn)
                                      ELSE SelectHost(k, pref))

(* --------------------------------- reads -------------------------------- *)

\* checkSlaveQueryResult, after the connection's own checkResponse, which
\* calls isntMaster for every error that contains "not master".
QueryReply(c, a, reply) ==
    CASE reply = "results" -> Ok(c, "returned")
      [] reply = "notMaster" -> Ok(IsntMaster(c, a), "returned")
      [] reply = "notMasterOrSecondary" ->
            Then(IsntSecondary(IsntMaster(c, a)),
                 LAMBDA k, v : Throw(k, {"user"}))

\* findOne ends in nextSafe, which throws for an error document.
FindOneReply(c, a, reply) ==
    IF reply = "results" THEN Ok(c, "returned")
                         ELSE Throw(IsntMaster(c, a), {"user"})

\* One round trip of a read on the connection at a.  A query whose reply is
\* lost returns a null cursor.
QueryOn(c, a) ==
    Then(On(c, a, ConnCall(c.conns[a], FALSE)),
         LAMBDA k, v : IF v = "lost" THEN Ok(k, "returned")
                       ELSE UNION {QueryReply(k, a, r) : r \in Replies})

FindOneOn(c, a) ==
    Then(On(c, a, ConnCall(c.conns[a], TRUE)),
         LAMBDA k, v : UNION {FindOneReply(k, a, r) : r \in Replies})

CallOn(c, a) ==
    UNION {Then(On(c, a, ConnCall(c.conns[a], assertOk)),
                LAMBDA k, v : Ok(k, "returned")) : assertOk \in BOOLEAN}

\* Mutants: the connection is not noted; it is noted only the first time.
SayUnnoted(c, a) ==
    Then(On(c, a, ConnSay(c.conns[a])), LAMBDA k, v : Ok(k, "returned"))
SayNotedOnce(c, a) ==
    Then(SayUnnoted(c, a),
         LAMBDA k, v :
             Ok([k EXCEPT !.lazyState.lastClient = IF @ = Null THEN a ELSE @,
                          !.lazyState.isQuery = TRUE,
                          !.lazyState.secondaryQueryOk = TRUE], "returned"))

SayOn(c, a) ==
    Then(On(c, a, ConnSay(c.conns[a])),
         LAMBDA k, v :
             Ok([k EXCEPT !.lazyState.lastClient = a,
                          !.lazyState.isQuery = TRUE,
                          !.lazyState.secondaryQueryOk = TRUE], "returned"))

\* The body of the try block of the retry loop of each read
Attempt(c, kind, pref, tries) ==
    LET d == IF kind = "say" THEN [c EXCEPT !.lazyState.retries = tries] ELSE c
    IN  Then(SelectNodeUsingTags(d, pref),
             LAMBDA k, a :
                 IF a = Null THEN Ok(k, "noNode")
                 ELSE CASE kind = "query" -> QueryOn(k, a)
                        [] kind = "findOne" -> FindOneOn(k, a)
                        [] kind = "call" -> CallOn(k, a)
                        [] kind = "say" -> SayOn(k, a))

\* History starts afresh with every step.
Now == [client EXCEPT !.misblamed = FALSE, !.misled = FALSE]

Idle == call = NoCall

\* The call is over: what it did to the client, and how it ended.
End(op, o, exc) ==
    /\ client' = o.state
    /\ call' = NoCall
    /\ last' = [op |-> op,
                end |-> CASE exc = "none" -> "returned"
                          [] exc = "abort" -> "aborted"
                          [] exc = "noNode" -> "noNode"
                          [] OTHER -> "threw"]

\* query, findOne or call with a read preference that allows secondaries
StartRead ==
    /\ Idle /\ lazy.state = "none"
    /\ \E kind \in Reads \ {"say"}, pref \in Prefs :
          call' = [kind |-> kind, arg |-> pref, tries |-> 0]
    /\ client' = Now
    /\ UNCHANGED <<lazy, last>>

\* DBClientCursor::initLazy: say, for a query that allows secondaries
InitLazy ==
    /\ LazyUse /\ Idle /\ lazy.state # "sent"
    /\ \E pref \in IF lazy.state = "retry" THEN {lazy.pref} ELSE Prefs :
          /\ call' = [kind |-> "say", arg |-> pref, tries |-> 0]
          /\ lazy' = [lazy EXCEPT !.pref = pref]
    /\ client' = IF lazy.state = "retry" THEN Now
                 ELSE [Now EXCEPT !.lazyState = EmptyLazyState]
    /\ UNCHANGED last

\* What the cursor makes of the end of say
AfterSay(returned) ==
    lazy' = IF returned THEN [lazy EXCEPT !.state = "sent"] ELSE NoLazy

ReturnRead(o) ==
    /\ o.exc = "none"
    /\ End("read", o, IF o.val = "noNode" /\ call.kind # "call"
                         THEN "noNode" ELSE "none")
    /\ IF call.kind = "say" THEN AfterSay(o.val # "noNode")
                            ELSE UNCHANGED lazy

\* The handler gives the last host up; the loop goes on unless the handler
\* itself throws, or this was the last iteration.
RetryRead(o) ==
    /\ o.exc # "none"
    /\ \E i \in InvalidateLastSlaveOkCache(o.state) :
          IF i.exc = "none" /\ call.tries + 1 < MaxRetry
          THEN /\ client' = i.state
               /\ call' = [call EXCEPT !.tries = @ + 1]
               /\ UNCHANGED <<lazy, last>>
          ELSE /\ End("read", i,
                      IF i.exc # "none" THEN i.exc
                      ELSE IF call.kind = "call" THEN "none" ELSE "user")
               /\ IF call.kind = "say" THEN AfterSay(FALSE)
                                       ELSE UNCHANGED lazy

TryRead ==
    /\ call.kind \in Reads
    /\ \E o \in Attempt(Now, call.kind, call.arg, call.tries) :
          ReturnRead(o) \/ RetryRead(o)

(* ------------------------- operations on the primary -------------------- *)

\* A round trip with the primary: insert, update and remove throw when it
\* fails, as findOne does; query returns a null cursor and call false.
MasterReply(c, a) ==
    UNION {Then(On(c, a, ConnCall(c.conns[a], assertOk)),
                LAMBDA k, v :
                    Ok(k, "returned")
                    \cup (IF v = "lost" THEN {}
                          ELSE Ok(IsntMaster(k, a), "returned"))) :
              assertOk \in BOOLEAN}

PrimaryOperation ==
    /\ Idle /\ lazy.state = "none"
    /\ \E o \in Then(CheckMaster(Now), MasterReply) :
          End("other", o, o.exc)
    /\ UNCHANGED lazy

\* initLazy of a query for the primary only, or of a getMore
InitLazyPrimary ==
    /\ LazyUse /\ Idle /\ lazy.state = "none"
    /\ \E isQuery \in BOOLEAN :
       \E o \in Then(CheckMaster([Now EXCEPT !.lazyState = EmptyLazyState]),
                    LAMBDA k, a :
                        LET d == [k EXCEPT !.lazyState.lastClient = a,
                                           !.lazyState.isQuery = isQuery,
                                           !.lazyState.retries = MaxRetry]
                        IN  On(d, a, ConnSay(d.conns[a]))) :
          /\ End("other", o, o.exc)
          /\ AfterSay(o.exc = "none")

(* ----------------------------- lazy replies ----------------------------- *)

\* checkResponse of DBClientReplicaSet; the value says whether to retry.
CheckResponse(c, data) ==
    LET a == c.lazyState.lastClient
        Bad == data \in {"lost", "notMasterOrSecondary"}
        Blame == IF a = c.lastSlaveOkConn THEN IsntSecondary(c)
                 ELSE IF a = c.master THEN Ok(IsntMaster(c, a), Null)
                 ELSE Ok(c, Null)
    IN  IF ~c.lazyState.isQuery THEN Ok(c, "done")
        ELSE IF c.lazyState.secondaryQueryOk
        THEN IF ~Bad THEN Ok(c, "done")
             ELSE Then(Blame,
                       LAMBDA k, v :
                           IF k.lazyState.retries < MaxRetry
                           THEN Ok([k EXCEPT !.lazyState.retries = @ + 1], "retry")
                           ELSE Ok(k, "done"))
        ELSE IF data \in {"lost", "notMaster"} /\ a = c.master
        THEN Ok(IsntMaster(c, a), "done")
        ELSE Ok(c, "done")

\* DBClientCursor::initLazyFinish: recv and checkResponse.  The cursor may be
\* started again when it is told to retry.
InitLazyFinish ==
    /\ Idle /\ lazy.state = "sent"
    /\ IF Now.lazyState.lastClient = Null
       THEN /\ End("other", [state |-> Now], "abort")
            /\ lazy' = NoLazy
       ELSE LET a == Now.lazyState.lastClient
            IN  \E o \in Then(On(Now, a, ConnRecv(Now.conns[a])),
                             LAMBDA k, v :
                                 IF v = "lost" THEN CheckResponse(k, "lost")
                                 ELSE UNION {CheckResponse(k, r) :
                                                r \in Replies}) :
                  /\ End("other", o, o.exc)
                  /\ lazy' = IF o.exc = "none" /\ o.val = "retry"
                             THEN [lazy EXCEPT !.state = "retry",
                                    !.granted = IF @ > MaxRetry THEN @
                                                ELSE @ + 1]
                             ELSE NoLazy

GiveUpLazy ==
    /\ Idle /\ lazy.state = "retry"
    /\ lazy' = NoLazy
    /\ UNCHANGED <<client, call, last>>

(* ---------------------------- authentication ---------------------------- *)

StartAuth ==
    /\ Idle /\ lazy.state = "none"
    /\ \E db \in Dbs : call' = [kind |-> "auth", arg |-> db, tries |-> 0]
    /\ client' = Now
    /\ UNCHANGED <<lazy, last>>

\* Mutant: the other connection stays open.
KeepBoth(c, a) == Ok(c, "returned")

\* Only the connection that authenticated stays open.
KeepOnly(c, a) ==
    Then(IF a # c.lastSlaveOkConn THEN ResetSlaveOkConn(c) ELSE Ok(c, Null),
         LAMBDA k, v :
             Ok(IF a # k.master THEN ResetMaster(k) ELSE k, "returned"))

AuthAttempt(c, db) ==
    Then(SelectNodeUsingTags(c, "PrimaryPreferred"),
         LAMBDA k, a :
             IF a = Null THEN Ok(k, "noNode")
             ELSE Then(On(k, a, ConnAuth(k.conns[a], db)),
                       LAMBDA m, v :
                           IF a \in {m.lastSlaveOkConn, m.master}
                           THEN KeepOnly([m EXCEPT !.auths = @ \cup {db}], a)
                           ELSE Throw(m, {"abort"})))

TryAuth ==
    /\ call.kind = "auth"
    /\ UNCHANGED lazy
    /\ \E o \in AuthAttempt(Now, call.arg) :
          \/ /\ o.exc \in {"none", "auth", "abort"}
             /\ End("auth", o, IF o.val = "noNode" THEN "user" ELSE o.exc)
          \/ /\ o.exc \in {"user", "socket"}
             /\ \E i \in InvalidateLastSlaveOkCache(o.state) :
                   IF i.exc = "none" /\ call.tries < MaxRetry
                   THEN /\ client' = i.state
                        /\ call' = [call EXCEPT !.tries = @ + 1]
                        /\ UNCHANGED last
                   ELSE End("auth", i, IF i.exc # "none" THEN i.exc ELSE "user")


\* The handler of the second logout verifies that the connection has failed.
LogoutSlaveOk(c, db) ==
    LET a == c.lastSlaveOkConn
    IN  IF a = Null \/ c.conns[a].failed THEN Ok(c, Null)
        ELSE Catch(On(c, a, ConnLogout(c.conns[a], db)), DBExceptions,
                   LAMBDA k, v : IF k.conns[a].failed THEN Ok(k, Null)
                                 ELSE Throw(k, {"abort"}))

Logout ==
    /\ Idle /\ lazy.state = "none"
    /\ \E db \in Dbs :
       \E o \in Then(CheckMaster(Now),
                    LAMBDA k, a :
                        Then(On(k, a, ConnLogout(k.conns[a], db)),
                             LAMBDA m, v :
                                 LogoutSlaveOk([m EXCEPT !.auths = @ \ {db}],
                                               db))) :
          End("other", o, o.exc)
    /\ UNCHANGED lazy

(* ------------------------------ other calls ----------------------------- *)

SlaveConn ==
    /\ Idle /\ lazy.state = "none"
    /\ \E o \in SelectNodeUsingTags(Now, "SecondaryPreferred") :
          End("other", o, IF o.exc = "none" /\ o.val = Null THEN "user"
                              ELSE o.exc)
    /\ UNCHANGED lazy

\* A socket may have been closed by the other side at any time.
IsStillConnected ==
    /\ Idle /\ lazy.state = "none"
    /\ \E c \in {Now} \cup
                (IF Now.master = Null THEN {} ELSE {ResetMaster(Now)}) :
       \E o \in Ok(c, Null) \cup
                (IF c.lastSlaveOkConn = Null THEN {} ELSE ResetSlaveOkConn(c)) :
          End("other", o, o.exc)
    /\ UNCHANGED lazy

Reset ==
    /\ Idle /\ lazy.state = "none"
    /\ \E o \in Then(ResetSlaveOkConn(Now),
                    LAMBDA k, v : Ok([k EXCEPT !.lazyState.lastClient = Null,
                                               !.lastReadPref = NoPref], Null)) :
          End("other", o, o.exc)
    /\ UNCHANGED lazy

Next ==
    \/ StartRead \/ TryRead \/ PrimaryOperation
    \/ InitLazy \/ InitLazyPrimary \/ InitLazyFinish \/ GiveUpLazy
    \/ StartAuth \/ TryAuth \/ Logout
    \/ SlaveConn \/ IsStillConnected \/ Reset

Spec == Init /\ [][Next]_vars

(* ------------------------------ properties ------------------------------ *)

Owned == {client.master, client.lastSlaveOkConn} \ {Null}



\* When auth returns, the connection that it authenticated against is the only
\* child connection open.
AuthLeavesOneConnection ==
    last.op = "auth" /\ last.end = "returned" /\ Idle =>
        Cardinality(Owned) = 1


\* From the sending of a lazy query to the reply, _lazyState points to a
\* connection that exists.
LazyClientExists ==
    lazy.state = "sent" /\ Idle => client.lazyState.lastClient \in Owned

\* The connection that checkMaster returns goes to the host that the monitor
\* has just named.
ChecksCurrentMaster == ~client.misled

\* A read that fails otherwise than for want of a good node has given up the
\* connection that failed under it, so that the next read selects another.
FailedReadGivesUpConnection ==
    last.op = "read" /\ last.end = "threw" /\ Idle =>
        \/ client.lastSlaveOkConn = Null
        \/ ~client.conns[client.lastSlaveOkConn].failed

\* A lazy query is retried at most MAX_RETRY times.
LazyRetriesBounded == lazy.granted <= MaxRetry

\* isntMaster gives up, and reports as failed, the connection that was told
\* "not master", never a working connection to the primary because another
\* host said it.
NotMasterBlamesItsHost == ~client.misblamed
=============================================================================
