----------------------------- MODULE PriceRooms -----------------------------
(***************************************************************************)
(* The hub that forwards Binance's prices to the browsers: priceHub of     *)
(* src/api/ws_price_proxy.go, whose rooms (one per symbol) come and go     *)
(* with their clients.  bookHub is the same code over rooms of books; what *)
(* its goroutine does with a book is module BookSync.                      *)
(*                                                                         *)
(* A room's last client starts a timer, and the timer stops the room: it   *)
(* counts the clients of the room it was started for, but stops the room   *)
(* the table then holds for the symbol.  Locks are taken one at a time, so *)
(* a subscription looks its room up in one step and joins it in another.   *)
(* The prices are left out: nothing here depends on one, and that one came *)
(* is an input of module DataFallback.                                     *)
(***************************************************************************)
EXTENDS Integers, FiniteSets

CONSTANTS Symbol,      \* trading pairs
          Client,      \* browser connections
          MaxRoom,     \* bound: rooms created
          MaxTimer     \* bound: stop timers waiting at once

\* What the constants are to be.
RoomAssumption == MaxRoom \in Nat /\ MaxTimer \in Nat

None == 0
Room == 1..MaxRoom
Timer == 1..MaxTimer

VARIABLES table,     \* h.symbols: the room of a symbol, or None
          topic,     \* the symbol of each room created so far
          clients,   \* room.clients
          running,   \* room.running
          closes,    \* how often room.stopC was closed
          stream,    \* where startBinanceStream of the room is
          pc,        \* where each client's handler is
          cur,       \* the client's current symbol, or None
          held,      \* the room the handler holds, or None
          timer      \* the timers: [room, step]

roomVars   == <<table, topic, clients, running, closes, stream>>
clientVars == <<pc, cur, held>>
vars == <<roomVars, clientVars, timer>>

Created == DOMAIN topic
NoTimer == [room |-> None, step |-> "none"]

-----------------------------------------------------------------------------
(* Clients: handleWsPrice, readPump, subscribe and unsubscribe.            *)

\* getOrCreateRoom; the second look under the write lock makes it one step.
GetOrCreateRoom(c, s) ==
  IF table[s] # None
  THEN held' = [held EXCEPT ![c] = table[s]] /\ UNCHANGED <<table, topic>>
  ELSE LET r == Cardinality(Created) + 1 IN
       /\ r \in Room
       /\ table' = [table EXCEPT ![s] = r]
       /\ topic' = [x \in Created \cup {r} |-> IF x = r THEN s ELSE topic[x]]
       /\ held' = [held EXCEPT ![c] = r]

\* unsubscribe: the client leaves the room of the table, and the last one to
\* leave starts the timer.  A client of a room no longer there stays in it.
\* The look-up and the removal are one step: what could come between them only
\* starts a timer for a room already removed, which a room's other timers do.
Unsubscribe(c, s) ==
  LET r == table[s] IN
  IF r = None THEN UNCHANGED <<clients, timer>>
  ELSE /\ clients' = [clients EXCEPT ![r] = @ \ {c}]
       /\ IF clients[r] \ {c} # {} THEN UNCHANGED timer
          ELSE \E t \in Timer :
                 /\ timer[t] = NoTimer
                 /\ \A u \in Timer : u < t => timer[u] # NoTimer
                 /\ timer' = [timer EXCEPT ![t] = [room |-> r, step |-> "sleep"]]

\* The request for a symbol: the first of a new connection, or "subscribe" on
\* an open one, which leaves the current symbol first.
AskFor(c, s) ==
  /\ pc[c] \in {"out", "idle"}
  /\ pc' = [pc EXCEPT ![c] = "lookup"]
  /\ cur' = [cur EXCEPT ![c] = s]
  /\ IF cur[c] = None THEN UNCHANGED <<clients, timer>> ELSE Unsubscribe(c, cur[c])
  /\ UNCHANGED <<table, topic, running, closes, stream, held>>

Lookup(c) ==
  /\ pc[c] = "lookup"
  /\ GetOrCreateRoom(c, cur[c])
  /\ pc' = [pc EXCEPT ![c] = "join"]
  /\ UNCHANGED <<clients, running, closes, stream, cur, timer>>

\* A bug the runs must notice: running is set and never tested again.
JoinAlways(c) ==
  LET r == held[c] IN
  /\ pc[c] = "join"
  /\ clients' = [clients EXCEPT ![r] = @ \cup {c}]
  /\ running' = [running EXCEPT ![r] = TRUE]
  /\ pc' = [pc EXCEPT ![c] = "idle"]
  /\ held' = [held EXCEPT ![c] = None]
  /\ UNCHANGED <<table, topic, closes, stream, cur, timer>>

\* subscribe under the room's lock; the first client starts the stream.
Join(c) ==
  LET r == held[c] IN
  /\ pc[c] = "join"
  /\ clients' = [clients EXCEPT ![r] = @ \cup {c}]
  /\ running' = [running EXCEPT ![r] = TRUE]
  /\ stream' = IF running[r] THEN stream ELSE [stream EXCEPT ![r] = "head"]
  /\ pc' = [pc EXCEPT ![c] = "idle"]
  /\ held' = [held EXCEPT ![c] = None]
  /\ UNCHANGED <<table, topic, closes, cur, timer>>

\* The request to unsubscribe, or the end of the connection.
Leave(c) ==
  /\ pc[c] = "idle"
  /\ \/ pc' = [pc EXCEPT ![c] = "out"]
     \/ cur[c] # None /\ UNCHANGED pc
  /\ cur' = [cur EXCEPT ![c] = None]
  /\ IF cur[c] = None THEN UNCHANGED <<clients, timer>> ELSE Unsubscribe(c, cur[c])
  /\ UNCHANGED <<table, topic, running, closes, stream, held>>

-----------------------------------------------------------------------------
(* The timer of a room's last client, and stopRoom.                        *)

\* The goroutine wakes and counts the clients of the room it knows.
TimerWakes(t) ==
  /\ timer[t].step = "sleep"
  /\ timer' = [timer EXCEPT ![t] =
                 IF clients[@.room] = {} THEN [@ EXCEPT !.step = "stop"] ELSE NoTimer]
  /\ UNCHANGED <<roomVars, clientVars>>

\* A bug the runs must notice: stopRoom that closes before it has removed.
RemoveLate(t) ==
  /\ timer[t].step = "stop"
  /\ LET r == table[topic[timer[t].room]] IN
     timer' = [timer EXCEPT ![t] =
                 IF r = None THEN NoTimer ELSE [room |-> r, step |-> "close"]]
  /\ UNCHANGED <<roomVars, clientVars>>

\* stopRoom takes the symbol's room out of the table, whichever it is now.
Remove(t) ==
  /\ timer[t].step = "stop"
  /\ LET s == topic[timer[t].room]
         r == table[s]
     IN  /\ table' = [table EXCEPT ![s] = None]
         /\ timer' = [timer EXCEPT ![t] =
                        IF r = None THEN NoTimer ELSE [room |-> r, step |-> "close"]]
  /\ UNCHANGED <<topic, clients, running, closes, stream, clientVars>>

\* ... and closes its channel, if it runs; running is read without the lock.
CloseRoom(t) ==
  /\ timer[t].step = "close"
  /\ LET r == timer[t].room IN
     closes' = [closes EXCEPT ![r] = IF running[r] THEN @ + 1 ELSE @]
  /\ timer' = [timer EXCEPT ![t] = NoTimer]
  /\ UNCHANGED <<table, topic, clients, running, stream, clientVars>>

-----------------------------------------------------------------------------
(* startBinanceStream.                                                     *)

Streams(r, from, to) ==
  stream[r] = from /\ stream' = [stream EXCEPT ![r] = to]

\* Each of the three waits ends when the channel is closed.
StreamEnds(r) ==
  /\ closes[r] > 0
  /\ \E from \in {"head", "open", "wait"} : Streams(r, from, "gone")
  /\ UNCHANGED <<table, topic, clients, running, closes, clientVars, timer>>

StreamConnects(r) ==
  /\ closes[r] = 0 /\ Streams(r, "head", "open")
  /\ UNCHANGED <<table, topic, clients, running, closes, clientVars, timer>>

\* The connection cannot be made, or is lost.
StreamBreaks(r) ==
  /\ closes[r] = 0
  /\ \E from \in {"head", "open"} : Streams(r, from, "wait")
  /\ UNCHANGED <<table, topic, clients, running, closes, clientVars, timer>>

StreamRetries(r) ==
  /\ Streams(r, "wait", "head")
  /\ UNCHANGED <<table, topic, clients, running, closes, clientVars, timer>>

Stream(r) == \/ StreamEnds(r) \/ StreamConnects(r) \/ StreamBreaks(r)
             \/ StreamRetries(r)

-----------------------------------------------------------------------------

Init ==
  /\ table = [s \in Symbol |-> None] /\ topic = <<>>
  /\ clients = [r \in Room |-> {}] /\ running = [r \in Room |-> FALSE]
  /\ closes = [r \in Room |-> 0]
  /\ stream = [r \in Room |-> "none"]
  /\ pc = [c \in Client |-> "out"] /\ cur = [c \in Client |-> None]
  /\ held = [c \in Client |-> None]
  /\ timer = [t \in Timer |-> NoTimer]

Next ==
  \/ \E c \in Client : \/ \E s \in Symbol : AskFor(c, s)
                       \/ Lookup(c) \/ Join(c) \/ Leave(c)
  \/ \E t \in Timer : TimerWakes(t) \/ Remove(t) \/ CloseRoom(t)
  \/ \E r \in Created : Stream(r)

Spec == Init /\ [][Next]_vars

-----------------------------------------------------------------------------
(* Properties.                                                             *)

\* The shape of the state.
TypeOK ==
  /\ table \in [Symbol -> Created \cup {None}] /\ Created \subseteq Room
  /\ clients \in [Room -> SUBSET Client] /\ running \in [Room -> BOOLEAN]
  /\ closes \in [Room -> 0..1]
  /\ stream \in [Room -> {"none", "head", "open", "wait", "gone"}]
  /\ pc \in [Client -> {"out", "idle", "lookup", "join"}]
  /\ cur \in [Client -> Symbol \cup {None}]
  /\ held \in [Client -> Created \cup {None}]
  /\ timer \in [Timer -> [room: Created \cup {None},
                          step: {"none", "sleep", "stop", "close"}]]

\* A client in a room of the table is served: the room's channel is open, its
\* stream was started and has not ended.  A room's channel is closed once at
\* most (a second close would panic), and never while the table holds it.
TableServes ==
  /\ \A s \in Symbol : LET r == table[s] IN
       r # None =>
         /\ closes[r] = 0 /\ stream[r] # "gone"
         /\ clients[r] # {} => running[r] /\ stream[r] # "none"
  /\ \A r \in Room : closes[r] <= 1

\* A subscription to Binance is stopped when no client is left (the comment
\* on unsubscribe, src/api/ws_price_proxy.go:166): a room whose channel is
\* closed has no clients.
StopsOnlyEmptyRooms ==
  [][\A r \in Room : closes'[r] > closes[r] => clients[r] = {}]_vars
=============================================================================
