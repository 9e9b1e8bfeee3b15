------------------------------ MODULE LocalTPSL ------------------------------
(***************************************************************************)
(* The local take-profit / stop-loss monitor (api/local_tpsl.go) and the   *)
(* three places a condition lives in: the monitor's memory, the Redis hash *)
(* of ACTIVE conditions and the PostgreSQL table.                          *)
(*                                                                         *)
(* Threads: the monitor goroutine (one, ticking every second) and the HTTP *)
(* handler goroutines, Callers.  A step of the model ends where the code   *)
(* takes or releases the monitor's lock, or talks to PostgreSQL, Redis or  *)
(* the exchange: those are the points where threads interleave.            *)
(*                                                                         *)
(* A condition is a Go object reached by pointer.  Memory, the monitor's   *)
(* copy of the list and the handlers hold pointers; rows decoded from      *)
(* Redis or PostgreSQL are new objects for the same condition.  An object  *)
(* is <<c, n>>: the n-th one ever made for condition c.                    *)
(*                                                                         *)
(* The price is abstract here (any condition may be hit in any tick); the  *)
(* prices and quantities are in TPSLGroup.                                 *)
(***************************************************************************)
EXTENDS Naturals, FiniteSets

CONSTANTS
  Cond,          \* condition ids: the table's auto-increment primary key
  Kind,          \* ConditionType of each: "TP", "SL" or "TS" (trailing stop)
  Group,         \* GroupID of each
  Ladder,        \* the groups registered with more than one TP level
  Batch,         \* the sets of conditions one registration call creates
  Pool,          \* ids left for the trailing stops a partial TP registers
  Caller,        \* HTTP handler goroutines
  Monitor,       \* the monitor goroutine
  MaxObj,        \* bound: objects made per condition
  MaxCall,       \* bound: requests the handlers receive
  MaxDBFault,    \* bound: failed PostgreSQL statements
  MaxRedisFault, \* bound: failed Redis commands
  MaxRestart,    \* bound: process restarts
  MaxLost        \* bound: orders per condition whose acceptance is not reported

Kinds    == {"TP", "SL", "TS"}
Thread   == Caller \cup {Monitor}
Terminal == {"TRIGGERED", "CANCELLED"}
Status   == Terminal \cup {"none", "ACTIVE"}

ASSUME CondAssumption    == Cond \subseteq Nat \ {0} /\ Pool \subseteq Cond
ASSUME KindAssumption    == Kind \in [Cond -> Kinds]
ASSUME GroupAssumption   == Group \in [Cond -> Nat]
ASSUME BatchAssumption   == Batch \subseteq SUBSET Cond
ASSUME ThreadAssumption  == Monitor \notin Caller
\* Ids and group ids are fresh: registrations share no condition with one
\* another nor with the trailing stops of partial take profits.
ASSUME FreshAssumption   ==
  /\ \A A, B \in Batch : A \cap B # {} => A = B
  /\ \A B \in Batch : B \cap Pool = {}
  /\ \A c \in Pool : Kind[c] = "TS"
\* A group is registered in one call, its stop loss after its take profits.
ASSUME StopLastAssumption ==
  \A B \in Batch : \A d \in B, c \in Cond :
    Kind[c] = "SL" /\ Kind[d] = "TP" /\ Group[c] = Group[d]
      => c \in B /\ d < c
ASSUME BoundAssumption   ==
  {MaxObj, MaxCall, MaxDBFault, MaxRedisFault, MaxRestart, MaxLost}
    \subseteq Nat

Obj   == Cond \X Nat
NoObj == <<0, 0>>
NoHit == <<0, "none">>
Id(o) == o[1]

VARIABLES
  db,      \* status column of each condition's row, "none" before Create
  redis,   \* ids in the Redis hash; its values are ACTIVE copies
  mem,     \* mem[c] = n: the monitor's list holds <<c, n>>; 0: no entry
  live,    \* objects whose Status field is ACTIVE
  made,    \* number of objects made for each condition
  todo,    \* checkAll's toCheck, the objects still to visit
  hit,     \* how the condition being triggered went
  pc, cur, st, ret, rest, work, \* per thread: position, object at hand,
           \* status being written, where to go on, objects and ids left
  acked,   \* history: reduce orders reported as accepted, per condition
  lost,    \* history: those accepted although the call reported an error
  calls, dbFaults, redisFaults, restarts   \* counters behind the bounds

data    == <<db, redis, mem, live, made>>
locals  == <<pc, cur, st, ret, rest, work>>
counts  == <<calls, dbFaults, redisFaults, restarts>>
vars    == <<data, todo, hit, locals, acked, lost, counts>>

Labels ==
  {"idle", "scan", "fire", "chk", "put", "mark", "db", "hdel", "create",
   "insert", "link", "next", "lookredis", "lookdb", "load", "readdb",
   "refill"}
\* Where a thread has an object at hand.
AtHand == {"fire", "chk", "put", "mark", "db", "hdel", "insert"}
Ways   == {"none", "full", "partial", "closed"}

Home(t) == IF t = Monitor /\ todo # {} THEN "scan" ELSE "idle"
Goto(t, l) == pc' = [pc EXCEPT ![t] = l]

\* End of a call made by thread t; only a trailing stop's visit still needs
\* the object at hand.
Return(t) ==
  /\ Goto(t, ret[t])
  /\ ret' = [ret EXCEPT ![t] = "idle"]
  /\ cur' = [cur EXCEPT ![t] = IF ret[t] = "fire" THEN @ ELSE NoObj]

Called(t) ==
  /\ t \in Caller /\ pc[t] = "idle"
  /\ calls < MaxCall /\ calls' = calls + 1

DBFails    == dbFaults < MaxDBFault /\ dbFaults' = dbFaults + 1
RedisFails == redisFaults < MaxRedisFault /\ redisFaults' = redisFaults + 1

\* Conditions with an ACTIVE object in the monitor's list, as that object.
Listed(C) == {<<c, mem[c]>> : c \in {d \in C : mem[d] # 0}} \cap live

(***************************************************************************)
(* Bugs the runs must notice; each stands in for the definition named.     *)
(***************************************************************************)
\* MarkStatus that forgets removeFromMemory.
MarkStatusOnly(t) ==
  /\ pc[t] = "mark"
  /\ live' = live \ {cur[t]}
  /\ Goto(t, "db")
  /\ UNCHANGED <<db, redis, mem, made, todo, hit, cur, st, ret, rest, work,
                 acked, lost, counts>>

\* UpdateRow that skips the UPDATE when the object is no longer ACTIVE.
UpdateRowIfActive(t) ==
  /\ pc[t] = "db"
  /\ db' = IF cur[t] \in live THEN [db EXCEPT ![Id(cur[t])] = st[t]] ELSE db
  /\ st' = [st EXCEPT ![t] = "none"]
  /\ Goto(t, "hdel")
  /\ UNCHANGED <<redis, mem, live, made, todo, hit, cur, ret, rest, work,
                 acked, lost, counts>>

\* CreateRow that goes on to addToMemory after a failed Create.
CreateRowUnchecked(t, c) ==
  /\ pc[t] = "create"
  /\ c \in work[t] /\ \A d \in work[t] : c <= d
  /\ \/ db' = [db EXCEPT ![c] = "ACTIVE"] /\ UNCHANGED dbFaults
     \/ DBFails /\ UNCHANGED db
  /\ cur' = [cur EXCEPT ![t] = <<c, 0>>]
  /\ work' = [work EXCEPT ![t] = @ \ {c}]
  /\ Goto(t, "insert")
  /\ UNCHANGED <<redis, mem, live, made, todo, hit, st, ret, rest, acked, lost,
                 calls, redisFaults, restarts>>

\* CheckActive with the comparison the wrong way round.
CheckTerminal(t) ==
  /\ pc[t] = "chk"
  /\ Goto(t, IF cur[t] \in live THEN "hdel" ELSE "put")
  /\ UNCHANGED <<data, todo, hit, cur, st, ret, rest, work, acked, lost, counts>>

\* Leave that drops the condition whose order failed.
LeaveAndDrop(o) ==
  /\ o \in todo
  /\ pc[Monitor] = "scan" \/ (pc[Monitor] = "fire" /\ o = cur[Monitor])
  /\ todo' = todo \ {o}
  /\ mem' = [mem EXCEPT ![Id(o)] = 0]
  /\ cur' = [cur EXCEPT ![Monitor] = NoObj]
  /\ Goto(Monitor, IF todo = {o} THEN "idle" ELSE "scan")
  /\ UNCHANGED <<db, redis, live, made, hit, st, ret, rest, work, acked, lost, counts>>

\* TakesAlong that cancels only the opposite type after a take profit.
TakesAlongAfterTP(c, way, d) ==
  way = "closed" \/ (Kind[c] = "TP" /\ Kind[d] = "SL")

\* CancelNext without the new status.
CancelNextNoStatus(t, o) ==
  /\ pc[t] = "next" /\ o \in rest[t]
  /\ rest' = [rest EXCEPT ![t] = @ \ {o}]
  /\ cur' = [cur EXCEPT ![t] = o]
  /\ ret' = [ret EXCEPT ![t] = "next"]
  /\ Goto(t, "mark")
  /\ UNCHANGED <<data, todo, hit, st, work, acked, lost, counts>>

(***************************************************************************)
(* updateConditionStatus: memory, then the row, then Redis.  Shared by the *)
(* trigger, the linked cancellations and the two manual cancellations.     *)
(***************************************************************************)

\* cond.Status = status, then removeFromMemory drops the list's entry with
\* this ID, whichever object that is.
MarkStatus(t) ==
  /\ pc[t] = "mark"
  /\ live' = live \ {cur[t]}
  /\ mem' = [mem EXCEPT ![Id(cur[t])] = 0]
  /\ Goto(t, "db")
  /\ UNCHANGED <<db, redis, made, todo, hit, cur, st, ret, rest, work, acked, lost,
                 counts>>

\* The UPDATE has no condition on the old status; its error is dropped.
UpdateRow(t) ==
  /\ pc[t] = "db"
  /\ \/ /\ db' = [db EXCEPT ![Id(cur[t])] = st[t]]
        /\ UNCHANGED dbFaults
     \/ DBFails /\ UNCHANGED db
  /\ st' = [st EXCEPT ![t] = "none"]
  /\ Goto(t, "hdel")
  /\ UNCHANGED <<redis, mem, live, made, todo, hit, cur, ret, rest, work,
                 acked, lost, calls, redisFaults, restarts>>

\* removeTPSLFromRedis; its error is only logged.
RemoveFromRedis(t) ==
  /\ pc[t] = "hdel"
  /\ \/ redis' = redis \ {Id(cur[t])} /\ UNCHANGED redisFaults
     \/ RedisFails /\ UNCHANGED redis
  /\ Return(t)
  /\ UNCHANGED <<db, mem, live, made, todo, hit, st, rest, work, acked, lost, calls,
                 dbFaults, restarts>>

(***************************************************************************)
(* upsertActiveTPSLToRedis: reads the Status field, then writes the hash.  *)
(***************************************************************************)
CheckActive(t) ==
  /\ pc[t] = "chk"
  /\ Goto(t, IF cur[t] \in live THEN "put" ELSE "hdel")
  /\ UNCHANGED <<data, todo, hit, cur, st, ret, rest, work, acked, lost, counts>>

PutToRedis(t) ==
  /\ pc[t] = "put"
  /\ \/ redis' = redis \cup {Id(cur[t])} /\ UNCHANGED redisFaults
     \/ RedisFails /\ UNCHANGED redis
  /\ Return(t)
  /\ UNCHANGED <<db, mem, live, made, todo, hit, st, rest, work, acked, lost, calls,
                 dbFaults, restarts>>

(***************************************************************************)
(* Registration: for each condition in id order, DB.Create, addToMemory,   *)
(* upsert.  A failed Create returns and leaves the earlier ones in place.  *)
(***************************************************************************)
StartRegister(t, B) ==
  /\ Called(t)
  /\ \A c \in B : db[c] = "none"
  /\ \A u \in Thread : pc[u] = "create" => B \cap work[u] = {}
  /\ work' = [work EXCEPT ![t] = B]
  /\ Goto(t, "create")
  /\ UNCHANGED <<data, todo, hit, cur, st, ret, rest, acked, lost, dbFaults,
                 redisFaults, restarts>>

\* Where a registration returns to: the handler, or the partial TP.
Registered(t) == IF t = Monitor THEN "link" ELSE "idle"

CreateRow(t, c) ==
  /\ pc[t] = "create"
  /\ c \in work[t] /\ \A d \in work[t] : c <= d
  /\ \/ /\ db' = [db EXCEPT ![c] = "ACTIVE"]
        /\ cur' = [cur EXCEPT ![t] = <<c, 0>>]
        /\ work' = [work EXCEPT ![t] = @ \ {c}]
        /\ Goto(t, "insert")
        /\ UNCHANGED dbFaults
     \/ /\ DBFails
        /\ work' = [work EXCEPT ![t] = {}]
        /\ Goto(t, Registered(t))
        /\ UNCHANGED <<db, cur>>
  /\ UNCHANGED <<redis, mem, live, made, todo, hit, st, ret, rest, acked, lost, calls,
                 redisFaults, restarts>>

\* addToMemory under the lock.  An entry with the same ID is overwritten in
\* place (*existing = *cond): the list keeps its object, which becomes ACTIVE.
AddToMemory(c) ==
  LET n == made[c] + 1 IN
  /\ made' = [made EXCEPT ![c] = n]
  /\ IF mem[c] = 0
     THEN mem' = [mem EXCEPT ![c] = n] /\ live' = live \cup {<<c, n>>}
     ELSE UNCHANGED mem /\ live' = live \cup {<<c, n>>, <<c, mem[c]>>}

InsertNew(t) ==
  LET c == Id(cur[t]) IN
  /\ pc[t] = "insert"
  /\ AddToMemory(c)
  /\ cur' = [cur EXCEPT ![t] = <<c, made[c] + 1>>]
  /\ ret' = [ret EXCEPT ![t] = IF work[t] = {} THEN Registered(t) ELSE "create"]
  /\ Goto(t, "chk")
  /\ UNCHANGED <<db, redis, todo, hit, st, rest, work, acked, lost, counts>>

(***************************************************************************)
(* The monitor: one tick copies the list, then visits the copy.            *)
(***************************************************************************)
\* GetPrice comes before the copy, so the price settles which conditions of
\* the list this tick is about; the others are visited without effect.
TickStart(C) ==
  /\ pc[Monitor] = "idle"
  /\ C # {} /\ \A c \in C : mem[c] # 0
  /\ todo' = {<<c, mem[c]>> : c \in C}
  /\ Goto(Monitor, "scan")
  /\ UNCHANGED <<data, hit, cur, st, ret, rest, work, acked, lost, counts>>

\* A trailing stop whose extremum moved is upserted to Redis first.
MoveExtremum(o) ==
  /\ pc[Monitor] = "scan" /\ o \in todo /\ Kind[Id(o)] = "TS"
  /\ cur' = [cur EXCEPT ![Monitor] = o]
  /\ ret' = [ret EXCEPT ![Monitor] = "fire"]
  /\ Goto(Monitor, "chk")
  /\ UNCHANGED <<data, todo, hit, st, rest, work, acked, lost, counts>>

\* The object whose turn it is.
Turn(o) ==
  /\ o \in todo
  /\ pc[Monitor] = "scan" \/ (pc[Monitor] = "fire" /\ o = cur[Monitor])
  /\ todo' = todo \ {o}

\* The order is not sent (the trailing stop only moved) or fails with an
\* error that keeps the condition ACTIVE for the next tick; the exchange may
\* have accepted it all the same (see WsOrders).
Leave(o) ==
  /\ Turn(o)
  /\ \/ UNCHANGED lost
     \/ lost[Id(o)] < MaxLost /\ lost' = [lost EXCEPT ![Id(o)] = @ + 1]
  /\ cur' = [cur EXCEPT ![Monitor] = NoObj]
  /\ Goto(Monitor, IF todo = {o} THEN "idle" ELSE "scan")
  /\ UNCHANGED <<data, hit, st, ret, rest, work, acked, counts>>

Settle(o, way, s, then) ==
  /\ hit' = <<Id(o), way>>
  /\ cur' = [cur EXCEPT ![Monitor] = o]
  /\ st' = [st EXCEPT ![Monitor] = s]
  /\ ret' = [ret EXCEPT ![Monitor] = then]
  /\ Goto(Monitor, "mark")

\* The reduce order for the whole quantity is accepted.
TriggerFull(o) ==
  /\ Turn(o)
  /\ acked' = [acked EXCEPT ![Id(o)] = @ + 1]
  /\ Settle(o, "full", "TRIGGERED", "link")
  /\ UNCHANGED <<data, rest, work, lost, counts>>

\* A single-level TP sells half and registers a trailing stop for the rest.
TriggerPartial(o, p) ==
  /\ Turn(o)
  /\ Kind[Id(o)] = "TP" /\ Group[Id(o)] \notin Ladder
  /\ db[p] = "none" /\ \A q \in Pool : db[q] = "none" => p <= q
  /\ acked' = [acked EXCEPT ![Id(o)] = @ + 1]
  /\ work' = [work EXCEPT ![Monitor] = {p}]
  /\ Settle(o, "partial", "TRIGGERED", "create")
  /\ UNCHANGED <<data, rest, lost, counts>>

\* isPositionClosedError: nothing left to close.
TriggerClosed(o) ==
  /\ Turn(o)
  /\ Settle(o, "closed", "CANCELLED", "link")
  /\ UNCHANGED <<data, rest, work, acked, lost, counts>>

InGroup(c, K) == {d \in Cond : Group[d] = Group[c] /\ Kind[d] \in K}

\* Which others a trigger takes along: all after a closed position
\* (cancelGroupConditions); the TPs after an SL, the SL after a single TP or
\* after the last ACTIVE one of a ladder (handleLinkedCancellation).
TakesAlong(c, way, d) ==
  \/ way = "closed"
  \/ Kind[c] = "SL" /\ Kind[d] = "TP"
  \/ /\ Kind[c] = "TP" /\ Kind[d] = "SL"
     /\ Group[c] \in Ladder => Listed(InGroup(c, {"TP"})) = {}

Linked(c, way) ==
  Listed({d \in InGroup(c, Kinds) \ {c} : TakesAlong(c, way, d)})

CollectLinked ==
  /\ pc[Monitor] = "link"
  /\ rest' = [rest EXCEPT ![Monitor] = Linked(hit[1], hit[2])]
  /\ hit' = NoHit
  /\ Goto(Monitor, "next")
  /\ UNCHANGED <<data, todo, cur, st, ret, work, acked, lost, counts>>

\* The loop over the collected pointers, of the monitor and of the handlers.
CancelNext(t, o) ==
  /\ pc[t] = "next" /\ o \in rest[t]
  /\ rest' = [rest EXCEPT ![t] = @ \ {o}]
  /\ cur' = [cur EXCEPT ![t] = o]
  /\ st' = [st EXCEPT ![t] = "CANCELLED"]
  /\ ret' = [ret EXCEPT ![t] = "next"]
  /\ Goto(t, "mark")
  /\ UNCHANGED <<data, todo, hit, work, acked, lost, counts>>

CancelDone(t) ==
  /\ pc[t] = "next" /\ rest[t] = {}
  /\ Goto(t, Home(t))
  /\ UNCHANGED <<data, todo, hit, cur, st, ret, rest, work, acked, lost, counts>>

(***************************************************************************)
(* Manual cancellation, of one condition (C = {c}) or of a group.  Targets *)
(* come from memory, else from Redis, else from PostgreSQL; those loaded   *)
(* are put back into memory before their status is updated.                *)
(***************************************************************************)
StartCancel(t, C) ==
  /\ Called(t)
  /\ IF Listed(C) # {}
     THEN /\ rest' = [rest EXCEPT ![t] = Listed(C)]
          /\ Goto(t, "next")
          /\ UNCHANGED work
     ELSE /\ work' = [work EXCEPT ![t] = C]
          /\ Goto(t, "lookredis")
          /\ UNCHANGED rest
  /\ UNCHANGED <<data, todo, hit, cur, st, ret, acked, lost, dbFaults,
                 redisFaults, restarts>>

LookInRedis(t) ==
  /\ pc[t] = "lookredis"
  /\ \/ /\ work[t] \cap redis # {}
        /\ work' = [work EXCEPT ![t] = @ \cap redis]
        /\ Goto(t, "load")
        /\ UNCHANGED redisFaults
     \/ /\ \/ work[t] \cap redis = {} /\ UNCHANGED redisFaults
           \/ RedisFails
        /\ Goto(t, "lookdb")
        /\ UNCHANGED work
  /\ UNCHANGED <<data, todo, hit, cur, st, ret, rest, acked, lost, calls, dbFaults,
                 restarts>>

ActiveRows == {c \in Cond : db[c] = "ACTIVE"}

LookInDB(t) ==
  /\ pc[t] = "lookdb"
  /\ \/ /\ work' = [work EXCEPT ![t] = @ \cap ActiveRows]
        /\ Goto(t, IF work[t] \cap ActiveRows = {} THEN "idle" ELSE "load")
        /\ UNCHANGED dbFaults
     \/ /\ DBFails
        /\ work' = [work EXCEPT ![t] = {}]
        /\ Goto(t, "idle")
  /\ UNCHANGED <<data, todo, hit, cur, st, ret, rest, acked, lost, calls, redisFaults, restarts>>

LoadTarget(t, c) ==
  /\ pc[t] = "load" /\ c \in work[t]
  /\ made[c] < MaxObj
  /\ AddToMemory(c)
  /\ cur' = [cur EXCEPT ![t] = <<c, made[c] + 1>>]
  /\ rest' = [rest EXCEPT ![t] = @ \cup {<<c, made[c] + 1>>}]
  /\ work' = [work EXCEPT ![t] = @ \ {c}]
  /\ ret' = [ret EXCEPT ![t] = IF work[t] = {c} THEN "next" ELSE "load"]
  /\ Goto(t, "chk")
  /\ UNCHANGED <<db, redis, todo, hit, st, acked, lost, counts>>

(***************************************************************************)
(* GetActiveTPSLConditions: when Redis has nothing (or fails) the ACTIVE   *)
(* rows are read and written back to Redis.                                *)
(***************************************************************************)
StartList(t) ==
  /\ Called(t)
  /\ \/ redis = {} /\ UNCHANGED redisFaults
     \/ RedisFails
  /\ Goto(t, "readdb")
  /\ UNCHANGED <<data, todo, hit, cur, st, ret, rest, work, acked, lost, dbFaults, restarts>>

ReadRows(t) ==
  /\ pc[t] = "readdb"
  /\ \/ /\ work' = [work EXCEPT ![t] = ActiveRows]
        /\ Goto(t, IF ActiveRows = {} THEN "idle" ELSE "refill")
        /\ UNCHANGED dbFaults
     \/ DBFails /\ Goto(t, "idle") /\ UNCHANGED work
  /\ UNCHANGED <<data, todo, hit, cur, st, ret, rest, acked, lost, calls, redisFaults, restarts>>

RefillRedis(t, c) ==
  /\ pc[t] = "refill" /\ c \in work[t]
  /\ \/ redis' = redis \cup {c} /\ UNCHANGED redisFaults
     \/ RedisFails /\ UNCHANGED redis
  /\ work' = [work EXCEPT ![t] = @ \ {c}]
  /\ Goto(t, IF work[t] = {c} THEN "idle" ELSE "refill")
  /\ UNCHANGED <<db, mem, live, made, todo, hit, cur, st, ret, rest, acked, lost, calls, dbFaults, restarts>>

(***************************************************************************)
(* The process dies and StartLocalTPSLMonitor runs in the next one: Redis  *)
(* when it answers with something, else PostgreSQL, which is then copied   *)
(* over the hash.                                                          *)
(***************************************************************************)
Boot(S) ==
  /\ restarts < MaxRestart /\ restarts' = restarts + 1
  /\ \A c \in S : made[c] < MaxObj
  /\ made' = [c \in Cond |-> IF c \in S THEN made[c] + 1 ELSE made[c]]
  /\ mem' = [c \in Cond |-> IF c \in S THEN made[c] + 1 ELSE 0]
  /\ live' = {<<c, made[c] + 1>> : c \in S}
  /\ todo' = {}
  /\ hit' = NoHit
  /\ pc' = [t \in Thread |-> "idle"]
  /\ cur' = [t \in Thread |-> NoObj]
  /\ st' = [t \in Thread |-> "none"]
  /\ ret' = [t \in Thread |-> "idle"]
  /\ rest' = [t \in Thread |-> {}]
  /\ work' = [t \in Thread |-> {}]
  /\ UNCHANGED <<db, acked, lost, calls>>

RestartFromRedis ==
  /\ redis # {}
  /\ Boot(redis)
  /\ UNCHANGED <<redis, dbFaults, redisFaults>>

\* A Redis fault is a failed read, a failed copy back, or both.
RestartFromDB ==
  /\ \/ redis = {} /\ redis' = ActiveRows /\ UNCHANGED redisFaults
     \/ RedisFails /\ redis' \in {ActiveRows, redis}
  /\ Boot(ActiveRows)
  /\ UNCHANGED dbFaults

RestartEmpty ==
  /\ \/ redis = {} /\ UNCHANGED redisFaults
     \/ RedisFails
  /\ DBFails
  /\ Boot({})
  /\ UNCHANGED redis

-----------------------------------------------------------------------------
Init ==
  /\ db = [c \in Cond |-> "none"]
  /\ redis = {}
  /\ mem = [c \in Cond |-> 0]
  /\ live = {}
  /\ made = [c \in Cond |-> 0]
  /\ todo = {}
  /\ hit = NoHit
  /\ pc = [t \in Thread |-> "idle"]
  /\ cur = [t \in Thread |-> NoObj]
  /\ st = [t \in Thread |-> "none"]
  /\ ret = [t \in Thread |-> "idle"]
  /\ rest = [t \in Thread |-> {}]
  /\ work = [t \in Thread |-> {}]
  /\ acked = [c \in Cond |-> 0] /\ lost = [c \in Cond |-> 0]
  /\ calls = 0 /\ dbFaults = 0 /\ redisFaults = 0 /\ restarts = 0

\* updateConditionStatus and upsertActiveTPSLToRedis, whoever runs them.
Write(t) ==
  \/ MarkStatus(t) \/ UpdateRow(t) \/ RemoveFromRedis(t)
  \/ CheckActive(t) \/ PutToRedis(t)

Tick ==
  \/ \E C \in SUBSET Cond : TickStart(C)
  \/ \E o \in todo : MoveExtremum(o) \/ Leave(o) \/ TriggerFull(o)
                      \/ TriggerClosed(o)
  \/ \E o \in todo, p \in Pool : TriggerPartial(o, p)
  \/ CollectLinked

\* A goroutine inside a call goes on.
Proceed(t) ==
  \/ Write(t)
  \/ InsertNew(t) \/ CancelDone(t) \/ LookInRedis(t) \/ LookInDB(t)
  \/ ReadRows(t)
  \/ \E c \in Cond : CreateRow(t, c) \/ LoadTarget(t, c) \/ RefillRedis(t, c)
  \/ \E o \in rest[t] : CancelNext(t, o)

Targets == {{c} : c \in Cond} \cup {InGroup(c, Kinds) : c \in Cond}

Request(t) ==
  \/ \E B \in Batch : StartRegister(t, B)
  \/ \E C \in Targets : StartCancel(t, C)
  \/ StartList(t)

Restart == RestartFromRedis \/ RestartFromDB \/ RestartEmpty

Next ==
  \/ Tick \/ Restart
  \/ \E t \in Thread : Proceed(t)
  \/ \E t \in Caller : Request(t)

Spec == Init /\ [][Next]_vars

\* The ticker keeps the monitor going and the scheduler runs every goroutine
\* that is inside a call; nobody is obliged to send a request.
FairSpec ==
  Spec /\ WF_vars(Tick) /\ \A t \in Thread : WF_vars(Proceed(t))

-----------------------------------------------------------------------------
(***************************************************************************)
(* Properties                                                              *)
(***************************************************************************)

\* Types, and the discipline of the shared code: a status is written only
\* with a terminal value and an object at hand, and the list's entries are
\* objects that were made.
DataOK ==
  /\ db \in [Cond -> Status]
  /\ redis \subseteq Cond
  /\ mem \in [Cond -> Nat] /\ made \in [Cond -> Nat]
  /\ \A c \in Cond : mem[c] <= made[c]
  /\ live \subseteq Obj
ThreadOK ==
  /\ todo \subseteq Obj
  /\ hit \in Nat \X Ways
  /\ pc \in [Thread -> Labels]
  /\ cur \in [Thread -> Obj \cup {NoObj}]
  /\ st \in [Thread -> Terminal \cup {"none"}]
  /\ ret \in [Thread -> {"idle", "fire", "create", "link", "next", "load"}]
  /\ rest \in [Thread -> SUBSET Obj]
  /\ work \in [Thread -> SUBSET Cond]
  /\ \A t \in Thread : pc[t] \in {"mark", "db"} => st[t] \in Terminal
  /\ \A t \in Thread : pc[t] \in AtHand => cur[t] \in Obj
CountOK ==
  /\ acked \in [Cond -> Nat] /\ lost \in [Cond -> Nat]
  /\ calls \in Nat /\ dbFaults \in Nat
  /\ redisFaults \in Nat /\ restarts \in Nat
TypeOK == DataOK /\ ThreadOK /\ CountOK

\* The condition a thread is about to put into memory or into Redis.
Pending(t) ==
  (IF pc[t] \in {"load", "refill"} THEN work[t] ELSE {})
    \cup (IF pc[t] \in {"insert", "chk", "put", "mark", "db", "fire"}
          THEN {Id(cur[t])} ELSE {})
    \cup {Id(o) : o \in rest[t]}

\* Whatever may place an order, now or after a restart, is on record: no
\* condition reaches memory, Redis or a thread before its row exists.
WriteAhead ==
  \A c \in Cond :
    \/ mem[c] # 0
    \/ c \in redis
    \/ \E o \in todo : Id(o) = c
    \/ \E t \in Thread : c \in Pending(t)
    => db[c] # "none"

\* A row that says ACTIVE is watched by the monitor, except while a thread is
\* between Create and addToMemory or between removeFromMemory and the UPDATE:
\* short of a restart or a failed UPDATE nobody loses a stop loss that the
\* table and the history pages show as armed.
WatchedWhenActive ==
  (restarts = 0 /\ dbFaults = 0) =>
    \A c \in ActiveRows :
      \/ mem[c] # 0
      \/ \E t \in Thread : pc[t] \in {"insert", "db"} /\ Id(cur[t]) = c

\* At most one order per object made for a condition is reported as accepted:
\* duplicates come from a restart, from a manual cancellation that reloads the
\* condition or from an order whose acceptance was lost, never from the ticks
\* of one process alone.
AckedOncePerLoad == \A c \in Cond : acked[c] <= made[c]

Quiescent == \A t \in Thread : pc[t] = "idle"

\* Between calls, without faults, the list is exactly the set of ACTIVE rows
\* and Redis holds all of them.
Agreement ==
  (Quiescent /\ restarts = 0 /\ dbFaults = 0 /\ redisFaults = 0) =>
    /\ \A c \in Cond : (mem[c] # 0) <=> (c \in ActiveRows)
    /\ ActiveRows \subseteq redis

\* Once a stop loss was executed and everything is at rest, no take profit
\* of its group is armed any more.
NoTakeProfitAfterStopLoss ==
  (Quiescent /\ restarts = 0 /\ dbFaults = 0) =>
    \A c, d \in Cond :
      (Kind[c] = "SL" /\ Kind[d] = "TP" /\ Group[c] = Group[d]
        /\ acked[c] > 0 /\ db[c] = "TRIGGERED")
      => mem[d] = 0 /\ db[d] # "ACTIVE"

\* An order reported as accepted is eventually on record as settled.
AcceptedIsRecorded ==
  \A c \in Cond : acked[c] > 0 ~> db[c] \in Terminal

\* "Iterate all active conditions, check for triggers": an order is sent only
\* for a condition whose row is ACTIVE.
FiresOnlyActive ==
  [][\A c \in Cond : acked'[c] > acked[c] => db[c] = "ACTIVE"]_vars

\* "Load the ACTIVE conditions from the DB": a restart whose reads all
\* succeed watches every ACTIVE row.
RestartLoadsActiveRows ==
  [][(restarts' > restarts /\ dbFaults' = dbFaults)
       => \A c \in ActiveRows : mem'[c] # 0]_vars
=============================================================================
