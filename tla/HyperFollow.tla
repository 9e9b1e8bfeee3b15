----------------------------- MODULE HyperFollow -----------------------------
(***************************************************************************)
(* Copy trading (api/hyper_follow.go): a task per followed address reads   *)
(* the leader's fills from a WebSocket and opens or closes the same side   *)
(* here.  A stop takes the task out of the table and closes its channel,   *)
(* but the task looks at the channel only between two messages: while it   *)
(* waits in ReadMessage nothing wakes it except a message or the loss of   *)
(* the connection.  A start in that time makes a second task that reads    *)
(* the same fills with a memory of its own.                                *)
(*                                                                         *)
(* One leader, one message per fill.  A fill opens one unit or closes one  *)
(* unit of a side of a coin; the follower's close takes the whole side.    *)
(***************************************************************************)
EXTENDS Integers, FiniteSets, Sequences

CONSTANTS
    Coin,           \* the leader's coins, each the base of one symbol
    MaxFill,        \* bound: fills of the leader
    MaxTask,        \* bound: tasks started
    MaxTrouble,     \* bound: lost connections, doubled messages,
                    \* failures, changes of the symbol
    SeenMax, SeenKept   \* above SeenMax keys only SeenKept are kept

CoinAssumption  == Coin # {}
SeenAssumption  == SeenMax \in Nat /\ SeenKept \in 0 .. SeenMax
BoundAssumption == MaxFill \in Nat /\ MaxTask \in Nat /\ MaxTrouble \in Nat

VARIABLES
    fills,          \* the leader's fills so far
    cur,            \* the task in the manager's table, 0 if none
    started,        \* tasks made so far
    stop,           \* tasks whose stopC is closed
    pc, inbox,      \* each task: where it is, the unread fills of its connection
    sym,            \* each task: the coin of its configured symbol
    seen,           \* each task: seenFillKeys
    sent,           \* each task: for each fill the orders it asked for
    late,           \* each task: messages it handled although stopped
    pos,            \* the follower's position on each coin and side
    trouble         \* counts what MaxTrouble bounds

vars == <<fills, cur, started, stop, pc, inbox, sym, seen, sent, late, pos, trouble>>

Task == 1 .. MaxTask
Sides == {"LONG", "SHORT"}
Fill == [coin : Coin, side : Sides, action : {"open", "close"}]
Key == 1 .. MaxFill         \* makeHyperFillKey: the fill's number

Init == /\ fills = <<>> /\ cur = 0 /\ started = 0 /\ stop = {}
        /\ pc = [t \in Task |-> "none"] /\ inbox = [t \in Task |-> <<>>]
        /\ sym = [t \in Task |-> CHOOSE c \in Coin : TRUE]
        /\ seen = [t \in Task |-> {}]
        /\ sent = [t \in Task |-> [k \in Key |-> 0]]
        /\ late = [t \in Task |-> 0]
        /\ pos = [c \in Coin |-> [s \in Sides |-> 0]]
        /\ trouble = 0

\* Units of a side the leader holds after the first n fills.
Leader(c, s, n) ==
    LET is(k, a) == fills[k] = [coin |-> c, side |-> s, action |-> a]
    IN  Cardinality({ k \in 1 .. n : is(k, "open") })
          - Cardinality({ k \in 1 .. n : is(k, "close") })

Connected(t) == pc[t] \in {"top", "read", "order"}

Troubled == trouble < MaxTrouble /\ trouble' = trouble + 1

------------------------------------------------------------------------------
(* The leader and the connection, external to src/.                        *)

\* The leader opens or closes a unit; every connection is sent the fill.
LeaderTrades(f) ==
    /\ Len(fills) < MaxFill
    /\ f.action = "close" => Leader(f.coin, f.side, Len(fills)) > 0
    /\ fills' = Append(fills, f)
    /\ inbox' = [t \in Task |-> IF Connected(t)
                                THEN Append(inbox[t], Len(fills) + 1)
                                ELSE inbox[t]]
    /\ UNCHANGED <<cur, started, stop, pc, sym, seen, sent, late, pos, trouble>>

\* A message comes twice.
Doubled(t) ==
    /\ Connected(t) /\ inbox[t] # <<>> /\ Troubled
    /\ inbox' = [inbox EXCEPT ![t] = Append(@, Head(@))]
    /\ UNCHANGED <<fills, cur, started, stop, pc, sym, seen, sent, late, pos>>

------------------------------------------------------------------------------
(* The manager.                                                            *)

\* StartHyperFollow without a task of the address.
StartHyperFollow(c) ==
    /\ cur = 0 /\ started < MaxTask
    /\ started' = started + 1 /\ cur' = started + 1
    /\ pc' = [pc EXCEPT ![started + 1] = "dial"]
    /\ sym' = [sym EXCEPT ![started + 1] = c]
    /\ UNCHANGED <<fills, stop, inbox, seen, sent, late, pos, trouble>>

\* StartHyperFollow with one: its configuration is replaced.
updateConfig(c) ==
    /\ cur # 0 /\ sym[cur] # c /\ Troubled
    /\ sym' = [sym EXCEPT ![cur] = c]
    /\ UNCHANGED <<fills, cur, started, stop, pc, inbox, seen, sent, late, pos>>

StopHyperFollow ==
    /\ cur # 0
    /\ stop' = stop \cup {cur}
    /\ cur' = 0
    /\ UNCHANGED <<fills, started, pc, inbox, sym, seen, sent, late, pos, trouble>>

------------------------------------------------------------------------------
(* A task.                                                                 *)

\* runOnce dials and subscribes; the snapshot it is sent first is ignored, so
\* fills of the time without connection are never followed.
Dial(t) ==
    /\ pc[t] = "dial" /\ t \notin stop
    /\ \/ /\ pc' = [pc EXCEPT ![t] = "top"] /\ UNCHANGED trouble
       \/ /\ pc' = [pc EXCEPT ![t] = "pause"] /\ Troubled
    /\ inbox' = [inbox EXCEPT ![t] = <<>>]
    /\ UNCHANGED <<fills, cur, started, stop, sym, seen, sent, late, pos>>

\* The wait before the next dial is over.
Pause(t) ==
    /\ pc[t] = "pause" /\ t \notin stop
    /\ pc' = [pc EXCEPT ![t] = "dial"]
    /\ UNCHANGED <<fills, cur, started, stop, inbox, sym, seen, sent, late, pos, trouble>>

\* A bug the runs must notice: the loop does not look at its channel.
ReadOnUnasked(t) ==
    /\ pc[t] = "top"
    /\ pc' = [pc EXCEPT ![t] = "read"]
    /\ UNCHANGED <<fills, cur, started, stop, inbox, sym, seen, sent, late, pos, trouble>>

\* The head of the read loop: the task of a closed channel goes, the others
\* wait in ReadMessage.
ReadOn(t) ==
    /\ pc[t] = "top" /\ t \notin stop
    /\ pc' = [pc EXCEPT ![t] = "read"]
    /\ UNCHANGED <<fills, cur, started, stop, inbox, sym, seen, sent, late, pos, trouble>>

\* A task that is gone takes its memory and its history with it.
Forget(t) == /\ seen' = [seen EXCEPT ![t] = {}]
             /\ sent' = [sent EXCEPT ![t] = [k \in Key |-> 0]]
             /\ late' = [late EXCEPT ![t] = 0]

\* A bug the runs must notice: a stop is only seen while the task dials.
EndsWhileDialing(t) ==
    /\ pc[t] = "dial" /\ t \in stop
    /\ pc' = [pc EXCEPT ![t] = "ended"]
    /\ inbox' = [inbox EXCEPT ![t] = <<>>]
    /\ Forget(t)
    /\ UNCHANGED <<fills, cur, started, stop, sym, pos, trouble>>

Ends(t) ==
    /\ pc[t] \in {"dial", "pause", "top"} /\ t \in stop
    /\ pc' = [pc EXCEPT ![t] = "ended"]
    /\ inbox' = [inbox EXCEPT ![t] = <<>>]
    /\ Forget(t)
    /\ UNCHANGED <<fills, cur, started, stop, sym, pos, trouble>>

\* What the eviction may leave of the keys: any SeenKept of them.
KeptKeys(s) == IF Cardinality(s) <= SeenMax THEN {s}
               ELSE { k \in SUBSET s : Cardinality(k) = SeenKept }

\* A bug the runs must notice: a fill is remembered once its order is done.
ReceiveUnmarked(t) ==
    /\ pc[t] = "read" /\ inbox[t] # <<>>
    /\ IF fills[Head(inbox[t])].coin = sym[t]
       THEN pc' = [pc EXCEPT ![t] = "order"] /\ UNCHANGED inbox
       ELSE /\ inbox' = [inbox EXCEPT ![t] = Tail(@)]
            /\ pc' = [pc EXCEPT ![t] = "top"]
    /\ late' = [late EXCEPT ![t] = @ + IF t \in stop THEN 1 ELSE 0]
    /\ UNCHANGED <<fills, cur, started, stop, sym, seen, sent, pos, trouble>>

\* handleFills, markFillSeen: a fill of the configured coin that is not in the
\* memory is remembered and followed.
Receive(t) ==
    /\ pc[t] = "read" /\ inbox[t] # <<>>
    /\ LET k == Head(inbox[t])
           follow == fills[k].coin = sym[t] /\ k \notin seen[t]
       IN  /\ IF follow
              THEN /\ \E s \in KeptKeys(seen[t] \cup {k}) : seen' = [seen EXCEPT ![t] = s]
                   /\ pc' = [pc EXCEPT ![t] = "order"]
              ELSE /\ inbox' = [inbox EXCEPT ![t] = Tail(@)]
                   /\ pc' = [pc EXCEPT ![t] = "top"]
           /\ IF follow THEN UNCHANGED inbox ELSE UNCHANGED seen
    /\ late' = [late EXCEPT ![t] = @ + IF t \in stop THEN 1 ELSE 0]
    /\ UNCHANGED <<fills, cur, started, stop, sym, sent, pos, trouble>>

\* A bug the runs must notice: a close is sent as one more order.
FollowAsOrder(t) ==
    /\ pc[t] = "order"
    /\ LET k == Head(inbox[t])
           f == fills[k]
       IN  /\ sent' = [sent EXCEPT ![t][k] = @ + 1]
           /\ \/ /\ pos' = [pos EXCEPT ![sym[t]][f.side] = @ + 1]
                 /\ UNCHANGED trouble
              \/ /\ Troubled /\ UNCHANGED pos
    /\ inbox' = [inbox EXCEPT ![t] = Tail(@)]
    /\ pc' = [pc EXCEPT ![t] = "top"]
    /\ UNCHANGED <<fills, cur, started, stop, sym, seen, late>>

\* executeOpen adds a unit, executeClose closes the whole side, on the symbol
\* configured now; either may fail.  A failure is counted, not repeated.
Follow(t) ==
    /\ pc[t] = "order"
    /\ LET k == Head(inbox[t])
           f == fills[k]
       IN  /\ sent' = [sent EXCEPT ![t][k] = @ + 1]
           /\ \/ /\ pos' = [pos EXCEPT ![sym[t]][f.side] =
                              IF f.action = "open" THEN @ + 1 ELSE 0]
                 /\ UNCHANGED trouble
              \/ /\ Troubled /\ UNCHANGED pos
    /\ inbox' = [inbox EXCEPT ![t] = Tail(@)]
    /\ pc' = [pc EXCEPT ![t] = "top"]
    /\ UNCHANGED <<fills, cur, started, stop, sym, seen, late>>

\* ReadMessage returns an error.
ConnectionLost(t) ==
    /\ pc[t] = "read" /\ Troubled
    /\ pc' = [pc EXCEPT ![t] = "pause"]
    /\ inbox' = [inbox EXCEPT ![t] = <<>>]
    /\ UNCHANGED <<fills, cur, started, stop, sym, seen, sent, late, pos>>

\* The pings of a stopped task have ended, and the exchange drops a connection
\* it hears nothing from.
SilentDropped(t) ==
    /\ pc[t] = "read" /\ t \in stop /\ inbox[t] = <<>>
    /\ pc' = [pc EXCEPT ![t] = "pause"]
    /\ UNCHANGED <<fills, cur, started, stop, inbox, sym, seen, sent, late, pos, trouble>>

TaskSteps(t) == \/ Dial(t) \/ Pause(t) \/ ReadOn(t) \/ Ends(t)
                \/ Receive(t) \/ Follow(t) \/ SilentDropped(t)

Next == \/ \E f \in Fill : LeaderTrades(f)
        \/ StopHyperFollow
        \/ \E c \in Coin : StartHyperFollow(c) \/ updateConfig(c)
        \/ \E t \in Task : \/ Doubled(t) \/ ConnectionLost(t)
                           \/ Dial(t) \/ Pause(t) \/ ReadOn(t) \/ Ends(t)
                           \/ Receive(t) \/ Follow(t) \/ SilentDropped(t)

Spec == Init /\ [][Next]_vars

\* The scheduler runs every task, and calls and waits end.
FairSpec == Spec /\ \A t \in Task : WF_vars(TaskSteps(t))

------------------------------------------------------------------------------
\* The tables hold what the tasks can put there.
TypeOK == /\ fills \in Seq(Fill) /\ cur \in 0 .. MaxTask /\ stop \subseteq Task
          /\ \A t \in Task : /\ pc[t] \in {"none", "dial", "pause", "top", "read",
                                           "order", "ended"}
                             /\ \A i \in DOMAIN inbox[t] : inbox[t][i] \in 1 .. Len(fills)
                             /\ Cardinality(seen[t]) <= SeenMax
                             /\ pc[t] = "order" => inbox[t] # <<>>
          /\ \A c \in Coin, s \in Sides : pos[c][s] \in Nat

\* A task asks for at most one order per fill of the leader, although messages
\* come twice and connections are made anew; this is what seenFillKeys is for.
\* It says so of the first SeenMax fills: past them keys are dropped at random,
\* the newest among them.
FollowsFillOnce ==
    \A t \in Task : Cardinality({ k \in Key : sent[t][k] > 0 }) <= SeenMax
                      => \A k \in Key : sent[t][k] <= 1

\* A stopped task handles at most the one message it was waiting for, and then
\* sees its channel: the orders after a stop are those of one message.
OneLateMessage == \A t \in Task : late[t] <= 1

Settled(t) == pc[t] \in {"top", "read"} /\ inbox[t] = <<>>

\* The follower holds a side exactly while the leader's fills, closes taken as
\* whole, leave something of it: with one task, connected from the start, its
\* symbol never changed and nothing failed.  An order of the wrong side, a
\* close that leaves a rest or a fill handled twice would part them.
HoldsWhatWasFollowed ==
    /\ started = 1 /\ stop = {} /\ trouble = 0 /\ Settled(1)
    /\ \A k \in 1 .. Len(fills) : fills[k].coin = sym[1] => sent[1][k] > 0
    => \A s \in Sides :
         LET of(a) == { k \in 1 .. Len(fills) :
                          fills[k] = [coin |-> sym[1], side |-> s, action |-> a] }
             opens == { k \in of("open") : \A j \in of("close") : j < k }
         IN  pos[sym[1]][s] = Cardinality(opens)

\* A task that was stopped ends, whatever the leader does afterwards.
StoppedTaskEnds == \A t \in Task : t \in stop ~> pc[t] = "ended"

\* What a stop is documented to do (StopHyperFollow 停止服务端跟单): no order
\* follows it.  The code does not keep this.
NothingAfterStop == \A t \in Task : late[t] = 0
==============================================================================
