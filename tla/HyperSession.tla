---------------------------- MODULE HyperSession ----------------------------
(***************************************************************************)
(* A browser that watches a Hyperliquid address (runHyperMonitorSession    *)
(* of src/api/ws_news_hyper_proxy.go).  Each session is six goroutines     *)
(* around one client: writePump, readPump, the snapshot loop, the forward  *)
(* loop, which is the session itself, and, for every upstream connection,  *)
(* a pinger and a watcher of the client's close.  ReadMessage on the       *)
(* upstream connection has no deadline: the watcher is what wakes it.      *)
(***************************************************************************)
EXTENDS Integers, FiniteSets

CONSTANTS Address,   \* addresses watched
          Client,    \* browser connections
          MaxConn    \* bound: upstream connections a session makes

\* What the constants are to be.
ConnAssumption == MaxConn \in Nat

Conn == 0..MaxConn   \* 0: none yet

VARIABLES watches,   \* the address of each client
          alive,     \* goroutines of the client that run: [Client -> SUBSET ...]
          closed,    \* clients closed (closeCh)
          clients,   \* hyperMonitorClients: [Address -> SUBSET Client]
          at,        \* the forward loop: where it is
          conn,      \* its connection's number
          open,      \* upstream connections open: <<client, number>>
          helpers,   \* pingers and watchers: <<kind, client, number>>
          stopped,   \* connections whose stopPing, stopCloseWatch are closed
          request,   \* snapshotReqC holds a request
          wanted     \* a snapshot was asked for, and none has begun since

vars == <<watches, alive, closed, clients, at, conn, open, helpers, stopped,
          request, wanted>>

Pumps == {"write", "read", "snapshot"}

-----------------------------------------------------------------------------
(* The session starts, and a client closes.                                *)

\* handleWsHyperMonitor, runHyperMonitorSession up to the forward loop, with
\* the snapshot it asks for itself.
Start(c) ==
  /\ at[c] = "none" /\ at' = [at EXCEPT ![c] = "top"]
  /\ alive' = [alive EXCEPT ![c] = Pumps]
  /\ \E a \in Address :
       /\ watches' = [watches EXCEPT ![c] = a]
       /\ clients' = [clients EXCEPT ![a] = @ \cup {c}]
  /\ request' = [request EXCEPT ![c] = TRUE]
  /\ wanted' = [wanted EXCEPT ![c] = TRUE]
  /\ UNCHANGED <<closed, conn, open, helpers, stopped>>

\* A pump of the browser's connection fails, and closes the client.
PumpFails(c) ==
  /\ \E p \in alive[c] \cap {"write", "read"} : alive' = [alive EXCEPT ![c] = @ \ {p}]
  /\ closed' = closed \cup {c}
  /\ UNCHANGED <<watches, clients, at, conn, open, helpers, stopped, request, wanted>>

\* "refresh": a request is dropped if one is waiting.
Refresh(c) ==
  /\ "read" \in alive[c]
  /\ request' = [request EXCEPT ![c] = TRUE]
  /\ wanted' = [wanted EXCEPT ![c] = TRUE]
  /\ UNCHANGED <<watches, alive, closed, clients, at, conn, open, helpers, stopped>>

\* runHyperSnapshotLoop serves a request, or sees the client closed (select
\* takes either).  What it fetches is left out: three HTTP calls with a limit.
Snapshot(c) ==
  /\ "snapshot" \in alive[c]
  /\ \/ /\ request[c]
        /\ request' = [request EXCEPT ![c] = FALSE]
        /\ wanted' = [wanted EXCEPT ![c] = FALSE]
        /\ UNCHANGED alive
     \/ /\ c \in closed
        /\ alive' = [alive EXCEPT ![c] = @ \ {"snapshot"}]
        /\ UNCHANGED <<request, wanted>>
  /\ UNCHANGED <<watches, closed, clients, at, conn, open, helpers, stopped>>

-----------------------------------------------------------------------------
(* runHyperForwardLoop.                                                    *)

\* The loop returns: the deferred calls unregister the client and close it.
Return(c) ==
  /\ at[c] = "top" /\ c \in closed
  /\ at' = [at EXCEPT ![c] = "done"]
  /\ clients' = [clients EXCEPT ![watches[c]] = @ \ {c}]
  /\ UNCHANGED <<watches, alive, closed, conn, open, helpers, stopped, request, wanted>>

\* Dial and subscribe; either may fail, and is tried again.
Dial(c) ==
  /\ at[c] = "top" /\ c \notin closed
  /\ conn[c] < MaxConn
  /\ at' = [at EXCEPT ![c] = "read"]
  /\ conn' = [conn EXCEPT ![c] = @ + 1]
  /\ open' = open \cup {<<c, conn'[c]>>}
  /\ helpers' = helpers \cup {<<"ping", c, conn'[c]>>, <<"watch", c, conn'[c]>>}
  /\ UNCHANGED <<watches, alive, closed, clients, stopped, request, wanted>>

\* The upstream connection is lost, or the pinger cannot write and closes it.
UpstreamLost(c) ==
  /\ at[c] = "read"
  /\ open' = open \ {<<c, conn[c]>>} /\ open' # open
  /\ \/ UNCHANGED helpers
     \/ <<"ping", c, conn[c]>> \in helpers /\ helpers' = helpers \ {<<"ping", c, conn[c]>>}
  /\ UNCHANGED <<watches, alive, closed, clients, at, conn, stopped, request, wanted>>

\* ReadMessage fails on a connection no longer open; the loop tells its
\* helpers, closes the connection and goes back to the top.
ReadFails(c) ==
  /\ at[c] = "read" /\ <<c, conn[c]>> \notin open
  /\ at' = [at EXCEPT ![c] = "top"]
  /\ stopped' = stopped \cup {<<c, conn[c]>>}
  /\ UNCHANGED <<watches, alive, closed, clients, conn, open, helpers, request, wanted>>

\* A bug the runs must notice: the watcher leaves the connection as it is.
HelperOnlyLeaves(c) ==
  /\ \E h \in helpers :
       /\ h[2] = c /\ (c \in closed \/ <<c, h[3]>> \in stopped)
       /\ helpers' = helpers \ {h}
       /\ UNCHANGED open
  /\ UNCHANGED <<watches, alive, closed, clients, at, conn, stopped, request, wanted>>

\* A pinger or a watcher ends; the watcher that sees the client closed closes
\* the connection (a select with both channels closed takes either).
HelperEnds(c) ==
  /\ \E h \in helpers :
       /\ h[2] = c /\ helpers' = helpers \ {h}
       /\ \/ c \in closed /\ open' = IF h[1] = "watch" THEN open \ {<<c, h[3]>>} ELSE open
          \/ <<c, h[3]>> \in stopped /\ UNCHANGED open
  /\ UNCHANGED <<watches, alive, closed, clients, at, conn, stopped, request, wanted>>

-----------------------------------------------------------------------------

Init ==
  /\ watches \in [Client -> Address]
  /\ alive = [c \in Client |-> {}] /\ closed = {}
  /\ clients = [a \in Address |-> {}]
  /\ at = [c \in Client |-> "none"] /\ conn = [c \in Client |-> 0]
  /\ open = {} /\ helpers = {} /\ stopped = {}
  /\ request = [c \in Client |-> FALSE] /\ wanted = [c \in Client |-> FALSE]

Next ==
  \E c \in Client :
    \/ Start(c) \/ PumpFails(c) \/ Refresh(c) \/ Snapshot(c)
    \/ Return(c) \/ Dial(c) \/ UpstreamLost(c) \/ ReadFails(c) \/ HelperEnds(c)

\* A pump of a closed connection fails, and a goroutine that can go on goes on.
Fairness ==
  \A c \in Client :
    /\ WF_vars(PumpFails(c) /\ c \in closed) /\ WF_vars(Snapshot(c))
    /\ WF_vars(Return(c)) /\ WF_vars(ReadFails(c)) /\ WF_vars(HelperEnds(c))

FairSpec == Init /\ [][Next]_vars /\ Fairness

-----------------------------------------------------------------------------
(* Properties.                                                             *)

\* The shape of the state.
TypeOK ==
  /\ watches \in [Client -> Address] /\ alive \in [Client -> SUBSET Pumps]
  /\ closed \subseteq Client /\ clients \in [Address -> SUBSET Client]
  /\ at \in [Client -> {"none", "top", "read", "done"}] /\ conn \in [Client -> Conn]
  /\ open \subseteq Client \X Conn /\ stopped \subseteq Client \X Conn
  /\ helpers \subseteq {"ping", "watch"} \X Client \X Conn
  /\ request \in [Client -> BOOLEAN] /\ wanted \in [Client -> BOOLEAN]

\* Nothing of a session is left running, registered or connected once its
\* browser has gone.
Over(c) ==
  /\ alive[c] = {} /\ at[c] = "done"
  /\ \A a \in Address : c \notin clients[a]
  /\ \A k \in Conn : <<c, k>> \notin open
  /\ \A h \in helpers : h[2] # c

SessionsEnd == \A c \in Client : (c \in closed) ~> Over(c)

\* A snapshot a browser asks for begins after it asked, unless it leaves.
SnapshotAnswered == \A c \in Client : wanted[c] ~> (~wanted[c] \/ c \in closed)
=============================================================================
