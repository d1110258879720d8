----------------------------- MODULE Connection -----------------------------
(***************************************************************************)
(* One DBClientConnection to a server (src/mongo/client/dbclient.cpp) with *)
(* autoReconnect on, as ConnectionString::connect creates it: when it      *)
(* breaks, when it reconnects by itself, and which databases it is logged  *)
(* in to.                                                                  *)
(*                                                                         *)
(* The network and the server may do anything at every round trip, so an   *)
(* operation is the set of its possible outcomes.  An outcome is what the  *)
(* operation makes of its argument (state), the exception it leaves with   *)
(* (exc), and its result (val).                                            *)
(***************************************************************************)
EXTENDS FiniteSetsExt

CONSTANTS
    Hosts,    \* the servers
    NoHost,   \* the empty HostAndPort
    Dbs       \* the databases a client may log in to

(* ------------------------------ outcomes -------------------------------- *)

\* A UserException with the code AuthenticationFailed, one with another code,
\* and a SocketException: all are DBExceptions, the last is no UserException.
UserExceptions == {"auth", "user"}
DBExceptions == UserExceptions \cup {"socket"}

Ok(state, val) == {[state |-> state, exc |-> "none", val |-> val]}
Throw(state, excs) ==
    {[state |-> state, exc |-> e, val |-> "threw"] : e \in excs}

\* The statement after one that had these outcomes.
Then(outcomes, Rest(_, _)) ==
    UNION {IF o.exc = "none" THEN Rest(o.state, o.val) ELSE {o} :
              o \in outcomes}

\* A handler for the exceptions excs around something that had these outcomes.
Catch(outcomes, excs, Handler(_, _)) ==
    UNION {IF o.exc \in excs THEN Handler(o.state, o.val) ELSE {o} :
              o \in outcomes}

\* The iterations of a loop over the elements of a map.
ForEach(elements, state, val, Body(_, _)) ==
    FoldSet(LAMBDA e, outcomes :
                Then(outcomes, LAMBDA s, v : Body(s, e)),
            Ok(state, val), elements)

(* ------------------------------ connection ------------------------------ *)

\* _failed; the keys of authCache; the databases that the server has logged
\* this connection in to, and those whose credentials it turned down.
Conn ==
    [host : Hosts, failed : BOOLEAN, authCache : SUBSET Dbs,
     logins : SUBSET Dbs, refused : SUBSET Dbs]

Opened(h) ==
    [host |-> h, failed |-> FALSE, authCache |-> {}, logins |-> {},
     refused |-> {}]

\* The logins of a connection end with its socket.
Broken(conn) == [conn EXCEPT !.failed = TRUE, !.logins = {}, !.refused = {}]


\* A message whose sending or whose reply fails.  MessagingPort::call throws
\* in the first case; in the second it returns false, which a command turns
\* into the assertion "transport error".
Lost(conn) == Throw(Broken(conn), {"user", "socket"})

\* The authentication commands, and what the server makes of them.
AuthCommands(conn, db) ==
    Ok([conn EXCEPT !.logins = @ \cup {db}, !.refused = @ \ {db}], "ok")
    \cup Throw([conn EXCEPT !.refused = @ \cup {db}], {"auth"})
    \cup Lost(conn)

\* The authentication is remembered before it is tried.
Remember(conn, db) == [conn EXCEPT !.authCache = @ \cup {db}]

\* DBClientConnection::_checkConnection
CheckConnection(conn) ==
    IF ~conn.failed
    THEN Ok(conn, "ok")
    ELSE Lost(conn) \cup
         ForEach(conn.authCache,
                 [Opened(conn.host) EXCEPT !.authCache = conn.authCache], "ok",
                 LAMBDA k, db :
                     Catch(AuthCommands(k, db), {"auth"},
                           LAMBDA s, v : Ok(s, "ok")))

\* DBClientConnection::_auth
ConnAuth(conn, db) ==
    Then(CheckConnection(Remember(conn, db)),
         LAMBDA k, v : AuthCommands(k, db))

\* DBClientConnection::logout
ConnLogout(conn, db) ==
    Then(CheckConnection([conn EXCEPT !.authCache = @ \ {db}]),
         LAMBDA k, v :
             Ok([k EXCEPT !.logins = @ \ {db}, !.refused = @ \ {db}], "ok")
             \cup Lost(k))

\* DBClientConnection::say
ConnSay(conn) ==
    Then(CheckConnection(conn),
         LAMBDA k, v : Ok(k, "ok") \cup Throw(Broken(k), {"socket"}))

\* DBClientConnection::recv: no checkConnection, and no exception.
ConnRecv(conn) == Ok(conn, "ok") \cup Ok(Broken(conn), "lost")

\* DBClientConnection::call; without assertOk a reply that does not come is
\* the result false.
ConnCall(conn, assertOk) ==
    Then(ConnSay(conn),
         LAMBDA k, v :
             Ok(k, "ok")
             \cup (IF assertOk THEN Throw(Broken(k), {"user"})
                               ELSE Ok(Broken(k), "lost")))

\* ConnectionString::connect: a connection, no connection, or an exception of
\* the isMaster command that connecting ends with.
ConnConnect(h) ==
    Ok(Opened(h), "ok") \cup Ok(Broken(Opened(h)), "lost")
    \cup Lost(Opened(h))
=============================================================================
