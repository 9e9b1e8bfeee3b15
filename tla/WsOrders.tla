------------------------------- MODULE WsOrders -------------------------------
(***************************************************************************)
(* One order through two channels: the WebSocket client (websocket/ws.go), *)
(* the global slot it lives in (api/client.go) and the callers that try it *)
(* first and fall back to REST (api/ws_order.go: place, reduce, cancel and *)
(* query share that path; every accepted request counts as an order).      *)
(*                                                                         *)
(* A call is one goroutine running one request.  A client is known by its  *)
(* number; ReconnectWsClient makes the next one.  The slot's mutex is held *)
(* across the whole reconnect, so it is a variable; pendingMu and the      *)
(* write lock are only held within a step.                                 *)
(***************************************************************************)
EXTENDS Naturals, FiniteSets

CONSTANTS
  Call,        \* calls, each made once
  MaxClient,   \* bound: connections made
  MaxBreak,    \* bound: connections the network breaks
  MaxReject,   \* bound: requests the exchange rejects
  MaxLogonFail \* bound: logons the exchange refuses

CallAssumption  == IsFiniteSet(Call)
BoundAssumption ==
  {MaxClient, MaxBreak, MaxReject, MaxLogonFail} \subseteq Nat

Client == 1 .. MaxClient
None   == 0

VARIABLES
  slot,     \* WsOrderClient, or None
  rc,       \* the goroutine that holds wsClientMu across a (re)connect
  due,      \* due[n]: goroutines waiting to reconnect after a failure on n
  booted,   \* InitWsClient was called
  made,     \* clients made
  up,       \* clients whose connection is open
  reading,  \* clients whose readLoop runs (doneC open)
  stopped,  \* clients whose stopC is closed
  pending,  \* pending[n]: calls registered in the map of client n
  pc, via,  \* calls: where each is, and the client it took
  wire,     \* calls whose request is under way to the exchange
  answer,   \* answers under way to the readLoop
  chan,     \* answers in the channel a call waits on
  placed,   \* history: orders the exchange accepted for each call
  breaks, rejects, logonFails

clients == <<slot, rc, due, booted, made, up, reading, stopped>>
calls   == <<pc, via, pending>>
network == <<wire, answer, chan, placed>>
counts  == <<breaks, rejects, logonFails>>
vars    == <<clients, calls, network, counts>>

Places  == {"start", "write", "wait", "rest", "ok", "error"}
Answers == {"none", "accepted", "rejected"}
Free    == [pc |-> "free", old |-> None]
Made    == 1 .. made

\* The error path of a WebSocket request: go ReconnectWsClient(), then REST.
FallBack(c) ==
  /\ pc' = [pc EXCEPT ![c] = "rest"]
  /\ due' = [due EXCEPT ![via[c]] = @ + 1]

(***************************************************************************)
(* Bugs the runs must notice.                                              *)
(***************************************************************************)
\* A timeout that leaves its entry in the pending map.
TimeoutKeeps(c) ==
  /\ pc[c] = "wait"
  /\ FallBack(c)
  /\ UNCHANGED <<slot, rc, booted, made, up, reading, stopped, via, pending,
                 network, counts>>

\* A reconnect that only replaces the client in the slot.
StartReconnectNoClose(n) ==
  /\ rc = Free /\ due[n] > 0
  /\ due' = [due EXCEPT ![n] = @ - 1]
  /\ slot' = None
  /\ rc' = [pc |-> "dial", old |-> n]
  /\ UNCHANGED <<booted, made, up, reading, stopped, calls, network, counts>>

\* send that does not look at resp.Error.
ReceiveAny(c) ==
  /\ pc[c] = "wait" /\ chan[c] # "none"
  /\ chan' = [chan EXCEPT ![c] = "none"]
  /\ pc' = [pc EXCEPT ![c] = "ok"]
  /\ UNCHANGED <<clients, via, pending, wire, answer, placed, counts>>

\* A failed dial that returns without releasing the mutex.
DialFailsLocked ==
  /\ rc.pc = "dial"
  /\ rc' = [rc EXCEPT !.pc = "held"]
  /\ UNCHANGED <<slot, due, booted, made, up, reading, stopped, calls, network,
                 counts>>

\* A Close that closes stopC only.
StartReconnectKeepsConn(n) ==
  /\ rc = Free /\ due[n] > 0
  /\ due' = [due EXCEPT ![n] = @ - 1]
  /\ rc' = [pc |-> IF slot = None THEN "dial" ELSE "close", old |-> n]
  /\ stopped' = stopped \cup ({slot} \ {None})
  /\ UNCHANGED <<slot, booted, made, up, reading, calls, network, counts>>

(***************************************************************************)
(* A call: GetWsClient, WsClient.send, and REST when that fails.           *)
(***************************************************************************)
\* GetWsClient waits for the mutex; a client found is used whatever its
\* state, and send registers the request before it writes it.
TakeClient(c) ==
  /\ pc[c] = "start" /\ rc = Free
  /\ via' = [via EXCEPT ![c] = slot]
  /\ IF slot = None
     THEN pc' = [pc EXCEPT ![c] = "rest"] /\ UNCHANGED pending
     ELSE /\ pc' = [pc EXCEPT ![c] = "write"]
          /\ pending' = [pending EXCEPT ![slot] = @ \cup {c}]
  /\ UNCHANGED <<clients, network, counts>>

\* On a connection that broke, a write may still succeed into the void.
Write(c) ==
  /\ pc[c] = "write"
  /\ pc' = [pc EXCEPT ![c] = "wait"]
  /\ wire' = IF via[c] \in up THEN wire \cup {c} ELSE wire
  /\ UNCHANGED <<clients, via, pending, answer, chan, placed, counts>>

WriteFails(c) ==
  /\ pc[c] = "write" /\ via[c] \notin up
  /\ pending' = [pending EXCEPT ![via[c]] = @ \ {c}]
  /\ FallBack(c)
  /\ UNCHANGED <<slot, rc, booted, made, up, reading, stopped, via, network,
                 counts>>

\* The select of send: the answer, ten seconds, or the client's stopC.
Receive(c) ==
  /\ pc[c] = "wait" /\ chan[c] # "none"
  /\ chan' = [chan EXCEPT ![c] = "none"]
  /\ IF chan[c] = "accepted"
     THEN pc' = [pc EXCEPT ![c] = "ok"] /\ UNCHANGED due
     ELSE FallBack(c)
  /\ UNCHANGED <<slot, rc, booted, made, up, reading, stopped, via, pending,
                 wire, answer, placed, counts>>

Timeout(c) ==
  /\ pc[c] = "wait"
  /\ pending' = [pending EXCEPT ![via[c]] = @ \ {c}]
  /\ FallBack(c)
  /\ UNCHANGED <<slot, rc, booted, made, up, reading, stopped, via, network,
                 counts>>

ClientClosed(c) ==
  /\ pc[c] = "wait" /\ via[c] \in stopped
  /\ FallBack(c)
  /\ UNCHANGED <<slot, rc, booted, made, up, reading, stopped, via, pending,
                 network, counts>>

Rest(c) ==
  /\ pc[c] = "rest"
  /\ \/ /\ pc' = [pc EXCEPT ![c] = "ok"]
        /\ placed' = [placed EXCEPT ![c] = @ + 1]
     \/ pc' = [pc EXCEPT ![c] = "error"] /\ UNCHANGED placed
  /\ UNCHANGED <<clients, via, pending, wire, answer, chan, counts>>

(***************************************************************************)
(* The exchange and readLoop.                                              *)
(***************************************************************************)
Accept(c) ==
  /\ c \in wire /\ wire' = wire \ {c}
  /\ placed' = [placed EXCEPT ![c] = @ + 1]
  /\ answer' = [answer EXCEPT ![c] = "accepted"]
  /\ UNCHANGED <<clients, calls, chan, counts>>

Reject(c) ==
  /\ c \in wire /\ wire' = wire \ {c}
  /\ rejects < MaxReject /\ rejects' = rejects + 1
  /\ answer' = [answer EXCEPT ![c] = "rejected"]
  /\ UNCHANGED <<clients, calls, chan, placed, breaks, logonFails>>

\* The entry is looked up and deleted; without one the answer is dropped.
ReadAnswer(c) ==
  /\ answer[c] # "none" /\ via[c] \in up \cap reading
  /\ answer' = [answer EXCEPT ![c] = "none"]
  /\ IF c \in pending[via[c]]
     THEN /\ pending' = [pending EXCEPT ![via[c]] = @ \ {c}]
          /\ chan' = [chan EXCEPT ![c] = answer[c]]
     ELSE UNCHANGED <<pending, chan>>
  /\ UNCHANGED <<clients, pc, via, wire, placed, counts>>

Break(n) ==
  /\ n \in up /\ up' = up \ {n}
  /\ breaks < MaxBreak /\ breaks' = breaks + 1
  /\ UNCHANGED <<slot, rc, due, booted, made, reading, stopped, calls, network,
                 rejects, logonFails>>

\* A read error ends the readLoop; nobody tells the pending calls.
ReadLoopEnds(n) ==
  /\ n \in reading \ up
  /\ reading' = reading \ {n}
  /\ UNCHANGED <<slot, rc, due, booted, made, up, stopped, calls, network, counts>>

(***************************************************************************)
(* InitWsClient and ReconnectWsClient.                                     *)
(***************************************************************************)
InitWsClient ==
  /\ ~booted /\ rc = Free
  /\ booted' = TRUE
  /\ rc' = [pc |-> "dial", old |-> None]
  /\ UNCHANGED <<slot, due, made, up, reading, stopped, calls, network, counts>>

\* WsOrderClient.Close(), of whichever client is in the slot by now.
StartReconnect(n) ==
  /\ rc = Free /\ due[n] > 0
  /\ due' = [due EXCEPT ![n] = @ - 1]
  /\ rc' = [pc |-> IF slot = None THEN "dial" ELSE "close", old |-> n]
  /\ stopped' = stopped \cup ({slot} \ {None})
  /\ up' = up \ {slot}
  /\ UNCHANGED <<slot, booted, made, reading, calls, network, counts>>

\* Close waits for doneC.
CloseDone ==
  /\ rc.pc = "close" /\ slot \notin reading
  /\ slot' = None
  /\ rc' = [rc EXCEPT !.pc = "dial"]
  /\ UNCHANGED <<due, booted, made, up, reading, stopped, calls, network, counts>>

Dial ==
  /\ rc.pc = "dial" /\ made < MaxClient
  /\ made' = made + 1
  /\ up' = up \cup {made + 1} /\ reading' = reading \cup {made + 1}
  /\ rc' = [rc EXCEPT !.pc = "logon"]
  /\ UNCHANGED <<slot, due, booted, stopped, calls, network, counts>>

DialFails ==
  /\ rc.pc = "dial"
  /\ rc' = Free
  /\ UNCHANGED <<slot, due, booted, made, up, reading, stopped, calls, network,
                 counts>>

Logon ==
  /\ rc.pc = "logon" /\ made \in up
  /\ slot' = made
  /\ rc' = Free
  /\ UNCHANGED <<due, booted, made, up, reading, stopped, calls, network, counts>>

\* SessionLogon fails; the new client is dropped without Close.
LogonFails ==
  /\ rc.pc = "logon"
  /\ \/ made \notin up /\ UNCHANGED logonFails
     \/ logonFails < MaxLogonFail /\ logonFails' = logonFails + 1
  /\ rc' = Free
  /\ UNCHANGED <<slot, due, booted, made, up, reading, stopped, calls, network,
                 breaks, rejects>>

-----------------------------------------------------------------------------
Init ==
  /\ slot = None /\ rc = Free /\ booted = FALSE /\ made = 0
  /\ due = [n \in Client |-> 0]
  /\ up = {} /\ reading = {} /\ stopped = {}
  /\ pending = [n \in Client |-> {}]
  /\ pc = [c \in Call |-> "start"]
  /\ via = [c \in Call |-> None]
  /\ wire = {}
  /\ answer = [c \in Call |-> "none"]
  /\ chan = [c \in Call |-> "none"]
  /\ placed = [c \in Call |-> 0]
  /\ breaks = 0 /\ rejects = 0 /\ logonFails = 0

\* What the goroutine of a call does next.
CallStep(c) ==
  \/ TakeClient(c) \/ Write(c) \/ WriteFails(c) \/ Receive(c) \/ Timeout(c)
  \/ ClientClosed(c) \/ Rest(c)
Exchange(c) == Accept(c) \/ Reject(c) \/ ReadAnswer(c)
Reconnect == CloseDone \/ Dial \/ DialFails \/ Logon \/ LogonFails

Next ==
  \/ \E c \in Call : CallStep(c) \/ Exchange(c)
  \/ \E n \in Client : StartReconnect(n) \/ Break(n) \/ ReadLoopEnds(n)
  \/ InitWsClient \/ Reconnect

Spec == Init /\ [][Next]_vars

\* Goroutines run and the mutex is handed on; connections need not break and
\* the exchange need not answer, since a call's own timer fires.
FairSpec ==
  /\ Spec
  /\ \A c \in Call : WF_vars(CallStep(c))
  /\ \A n \in Client : WF_vars(ReadLoopEnds(n)) /\ WF_vars(StartReconnect(n))
  /\ WF_vars(Reconnect)

-----------------------------------------------------------------------------
(***************************************************************************)
(* Properties                                                              *)
(***************************************************************************)
TypeOK ==
  /\ slot \in Made \cup {None} /\ made \in 0 .. MaxClient
  /\ rc \in [pc : {"free", "close", "dial", "logon"}, old : Made \cup {None}]
  /\ due \in [Client -> Nat] /\ booted \in BOOLEAN
  /\ up \subseteq reading /\ reading \subseteq Made /\ stopped \subseteq Made \ up
  /\ pending \in [Client -> SUBSET Call]
  /\ pc \in [Call -> Places] /\ via \in [Call -> Made \cup {None}]
  /\ wire \subseteq Call
  /\ answer \in [Call -> Answers] /\ chan \in [Call -> Answers]
  /\ placed \in [Call -> Nat]
  /\ breaks \in Nat /\ rejects \in Nat /\ logonFails \in Nat

\* The pending map of a client that was not closed holds only calls that still
\* wait on it: an answer never goes to a call that has given up, and the map
\* does not grow with the requests that time out.
PendingCallsWait ==
  \A n \in Client \ stopped : \A c \in pending[n] :
    via[c] = n /\ pc[c] \in {"write", "wait"}

\* Every open connection is the slot's or is being set up, but for those a
\* refused logon leaves behind: reconnects do not pile up connections.
OneConnection ==
  Cardinality(up \ ({slot} \cup (IF rc.pc = "logon" THEN {made} ELSE {})))
    <= logonFails

\* What a call reports is what happened: success means an order, an answer
\* over the WebSocket exactly one, and no call ever leaves more than one order
\* per channel.
ReportsAreTrue ==
  \A c \in Call :
    /\ pc[c] = "ok" => placed[c] \in {1, 2}
    /\ (pc[c] = "ok" /\ placed[c] = 2) => via[c] # None
    /\ pc[c] = "error" => placed[c] \in {0, 1}

\* Every call returns, whatever breaks, and although GetWsClient waits for
\* reconnects that themselves wait for the old readLoop.
CallsReturn == \A c \in Call : <>(pc[c] \in {"ok", "error"})

\* "Places over the WebSocket, falls back to REST when that fails": REST is
\* used only for an order the WebSocket did not place.
RestOnlyAfterFailure ==
  [][\A c \in Call : (pc[c] = "rest" /\ placed'[c] > placed[c])
       => placed[c] = 0]_vars

\* "Close the old connection": the client a reconnect closes is the one whose
\* failure asked for it.
ReconnectClosesTheOld ==
  [][(rc.pc = "free" /\ rc'.pc = "close") => slot = rc'.old]_vars
=============================================================================
