------------------------------ MODULE Strategies ------------------------------
(***************************************************************************)
(* The strategies that trade by themselves and survive a restart: DCA      *)
(* (api/dca.go), grid (api/grid_trading.go), auto-scale (api/auto_scale.go)*)
(* and the record of which of them run, in PostgreSQL and in Redis         *)
(* (api/strategy_persist.go, strategy_state_redis.go, strategy_admin.go).  *)
(*                                                                         *)
(* Threads: the handlers, Callers, and the main goroutine, which recovers  *)
(* strategies before the server listens.  Each start makes a task: an      *)
(* entry of the strategy's map, a stop channel and a loop, known by a      *)
(* number.  A step ends where the code releases the kind's mutex or talks  *)
(* to PostgreSQL, Redis or the exchange.  Start and stop hold the mutex    *)
(* while they write the record; the loops take it for single updates.      *)
(***************************************************************************)
EXTENDS Naturals, FiniteSets, Functions

CONSTANTS
  Strategy,      \* pairs of type and symbol: the key of the record
  Caller, Main,  \* handler goroutines, and the main goroutine
  TotalOrders,   \* DCAConfig.TotalOrders, AutoScaleConfig.MaxScaleCount
  MaxFailures,   \* consecutive failures that stop a DCA (10 in the code)
  GridCount,     \* levels of a grid
  MaxTask,       \* bound: tasks made
  MaxTick,       \* bound: ticks that do something
  MaxCall,       \* bound: starts and stops asked for
  MaxTrouble     \* bound: requests of the administration, restarts, and
                 \* failures of PostgreSQL, Redis and the exchange, together

ASSUME StrategyAssumption == Strategy # {}
ASSUME MainAssumption  == Main \notin Caller
ASSUME PlanAssumption  == {TotalOrders, MaxFailures, GridCount} \subseteq Nat \ {0}
ASSUME BoundAssumption == {MaxTask, MaxTick, MaxCall, MaxTrouble} \subseteq Nat

Kinds  == {"dca", "grid", "autoscale"}
Status == {"none", "ACTIVE", "STOPPED"}
Task   == 1 .. MaxTask
Thread == Caller \cup {Main}
Free   == "free"
ASSUME FreeAssumption == Free \notin Thread
Levels == 1 .. GridCount
Prices == 0 .. 2 * GridCount + 1   \* level i is at 2 * i, the stops at the ends

VARIABLES
  kind,      \* the type of each strategy
  db, redis, \* its status in the table and in the Redis hash
  redisOn,   \* the ping of InitStrategyStateRedis succeeded
  lock,      \* dcaMu, gridMu, autoScaleMu: the thread that holds each
  pc, job,   \* threads: position, and the strategy at hand
  carry,     \* threads: statuses read or decided, to be written to Redis
  again,     \* threads: RetireStrategy marks once more without the mutex
  todo,      \* strategies the main goroutine has still to recover
  task,      \* the map of tasks: the last task of each strategy, or 0
  of,        \* the strategy of each task made
  active,    \* tasks whose Active field is set
  closes,    \* how often the stop channel of each task was closed
  run,       \* the local state of each task's loop
  wanted,    \* history: the last acknowledged request, "open" under way
  over,      \* history: strategies that ended by themselves
  used       \* counters behind the bounds

stores  == <<db, redis, redisOn>>
threads == <<pc, job, carry, again, todo>>
tasks   == <<task, of, active, closes, run>>
vars    == <<kind, stores, lock, threads, tasks, wanted, over, used>>

Trouble == {"admin", "crash", "down", "db", "redis", "error"}
Events  == Trouble \cup {"call", "tick"}
Use(e)  ==
  /\ used' = [used EXCEPT ![e] = @ + 1]
  /\ used'["call"] <= MaxCall /\ used'["tick"] <= MaxTick
  /\ SumFunctionOnSet(used', Trouble) <= MaxTrouble

Made       == DOMAIN run
Goto(t, l) == pc' = [pc EXCEPT ![t] = l]
Closed(n)  == closes[n] > 0
NoRows     == [s \in Strategy |-> "none"]
Stored(s)  == IF db[s] = "none" THEN {} ELSE {db[s]}

(***************************************************************************)
(* The record.                                                             *)
(***************************************************************************)
\* SaveStrategyState writes the row, reads it back, and takes the status for
\* Redis from what it read: a failed write leaves the old one.
SaveDB(t) ==
  LET s == job[t] IN
  /\ pc[t] = "saveDB"
  /\ \/ db' = [db EXCEPT ![s] = "ACTIVE"] /\ carry' = [carry EXCEPT ![t][s] = "ACTIVE"]
        /\ UNCHANGED used
     \/ Use("db") /\ UNCHANGED db
        /\ \E x \in {"ACTIVE"} \cup Stored(s) : carry' = [carry EXCEPT ![t][s] = x]
  /\ Goto(t, "saveRedis")
  /\ UNCHANGED <<kind, redis, redisOn, lock, job, again, todo, tasks, wanted, over>>

\* What a call leaves when it returns, and the mutex it releases.
Return(t, word) ==
  /\ Goto(t, IF t # Main THEN "idle" ELSE IF todo = {} THEN "ready" ELSE "recover")
  /\ lock' = [k \in Kinds |-> IF lock[k] = t THEN Free ELSE lock[k]]
  /\ wanted' = IF t = Main THEN wanted ELSE [wanted EXCEPT ![job[t]] = word]

\* A write to the Redis hash: done, skipped without a client, or failed.
Redis(value) ==
  \/ redis' = (IF redisOn THEN value ELSE redis) /\ UNCHANGED used
  \/ redisOn /\ Use("redis") /\ UNCHANGED redis

SaveRedis(t) ==
  /\ pc[t] = "saveRedis"
  /\ Redis([redis EXCEPT ![job[t]] = carry[t][job[t]]])
  /\ Return(t, "run")
  /\ carry' = [carry EXCEPT ![t] = NoRows]
  /\ UNCHANGED <<kind, db, redisOn, job, again, todo, tasks, over>>

\* MarkStrategyStopped updates the row if it says ACTIVE, then the hash.
MarkDB(t) ==
  LET s == job[t] IN
  /\ pc[t] = "markDB"
  /\ \/ db' = [db EXCEPT ![s] = IF @ = "ACTIVE" THEN "STOPPED" ELSE @] /\ UNCHANGED used
     \/ Use("db") /\ UNCHANGED db
  /\ Goto(t, "markRedis")
  /\ UNCHANGED <<kind, redis, redisOn, lock, job, carry, again, todo, tasks, wanted, over>>

\* (Bug.)  The hash is left to the next replacement.
MarkRedisNot(t) ==
  /\ pc[t] = "markRedis"
  /\ Return(t, "stop")
  /\ UNCHANGED <<kind, stores, job, carry, again, todo, tasks, over, used>>

\* The entry becomes STOPPED; if the write fails after a synchronisation from
\* the table it has the row's status.  RetireStrategy goes round once more.
MarkRedis(t) ==
  LET s == job[t] IN
  /\ pc[t] = "markRedis"
  /\ \/ Redis([redis EXCEPT ![s] = "STOPPED"])
     \/ /\ redisOn /\ Use("redis")
        /\ \E x \in Stored(s) : redis' = [redis EXCEPT ![s] = x]
  /\ IF again[t]
     THEN /\ Goto(t, "markDB") /\ again' = [again EXCEPT ![t] = FALSE]
          /\ lock' = [k \in Kinds |-> IF lock[k] = t THEN Free ELSE lock[k]]
          /\ UNCHANGED wanted
     ELSE Return(t, "stop") /\ UNCHANGED again
  /\ UNCHANGED <<kind, db, redisOn, job, carry, todo, tasks, over>>

(***************************************************************************)
(* Requests.                                                               *)
(***************************************************************************)
Loop0 == [loop |-> "select", then |-> "select", tries |-> 0, count |-> 0,
          fails |-> 0, net |-> 0, filled |-> {}, at |-> 0, price |-> 0,
          pairs |-> 0, known |-> FALSE]

\* The first order of a DCA does not wait for the ticker; three attempts.
NewDCA       == [Loop0 EXCEPT !.loop = "order", !.tries = 3]
NewGrid      == Loop0
NewAutoScale == Loop0
NewTask(k)   ==
  CASE k = "dca" -> NewDCA [] k = "grid" -> NewGrid [] k = "autoscale" -> NewAutoScale

Running(s) == task[s] \in active

\* StartDCA, StartGrid, StartAutoScale: refused while a task is active.
Start(t, s) ==
  LET n == Cardinality(Made) + 1 IN
  /\ lock[kind[s]] = Free /\ ~Running(s)
  /\ n \in Task
  /\ run' = [m \in Made \cup {n} |-> IF m = n THEN NewTask(kind[s]) ELSE run[m]]
  /\ of' = [of EXCEPT ![n] = s]
  /\ task' = [task EXCEPT ![s] = n]
  /\ active' = active \cup {n}
  /\ lock' = [lock EXCEPT ![kind[s]] = t]
  /\ job' = [job EXCEPT ![t] = s]
  /\ Goto(t, "saveDB")

AskStart(t, s) ==
  /\ pc[t] = "idle" /\ pc[Main] = "ready" /\ Use("call")
  /\ Start(t, s)
  /\ wanted' = [wanted EXCEPT ![s] = "open"]
  /\ over' = over \ {s}
  /\ UNCHANGED <<kind, stores, carry, again, todo, closes>>

\* StopDCA, StopGrid, StopAutoScale, alone or as the first half of
\* RetireStrategy.
AskStop(t, s, retire) ==
  /\ pc[t] = "idle" /\ pc[Main] = "ready"
  /\ Use(IF retire THEN "admin" ELSE "call")
  /\ lock[kind[s]] = Free /\ Running(s)
  /\ closes' = [closes EXCEPT ![task[s]] = @ + 1]
  /\ active' = active \ {task[s]}
  /\ lock' = [lock EXCEPT ![kind[s]] = t]
  /\ job' = [job EXCEPT ![t] = s]
  /\ again' = [again EXCEPT ![t] = retire]
  /\ Goto(t, "markDB")
  /\ wanted' = [wanted EXCEPT ![s] = "open"]
  /\ UNCHANGED <<kind, stores, carry, todo, task, of, run, over>>

\* RetireStrategy of a strategy that does not run only marks the record.
AskRetire(t, s) ==
  /\ pc[t] = "idle" /\ pc[Main] = "ready" /\ Use("admin")
  /\ lock[kind[s]] = Free /\ ~Running(s)
  /\ job' = [job EXCEPT ![t] = s]
  /\ Goto(t, "markDB")
  /\ wanted' = [wanted EXCEPT ![s] = "open"]
  /\ UNCHANGED <<kind, stores, lock, carry, again, todo, tasks, over>>

\* DemoteStrategy and RestoreStrategy: an update of another column, then
\* syncStrategyStateFromDB, which reads the row and writes it to the hash.
AskSync(t, s) ==
  /\ pc[t] = "idle" /\ pc[Main] = "ready" /\ Use("admin")
  /\ db[s] # "none"
  /\ job' = [job EXCEPT ![t] = s]
  /\ Goto(t, "sync")
  /\ UNCHANGED <<kind, stores, lock, carry, again, todo, tasks, wanted, over>>

ReadRow(t) ==
  /\ pc[t] = "sync"
  /\ carry' = [carry EXCEPT ![t] = db]
  /\ Goto(t, "syncWrite")
  /\ UNCHANGED <<kind, stores, lock, job, again, todo, tasks, wanted, over, used>>

WriteRow(t) ==
  /\ pc[t] = "syncWrite"
  /\ Redis([redis EXCEPT ![job[t]] = carry[t][job[t]]])
  /\ Goto(t, "idle")
  /\ carry' = [carry EXCEPT ![t] = NoRows]
  /\ UNCHANGED <<kind, db, redisOn, lock, job, again, todo, tasks, wanted, over>>

\* GetAllStrategyStates: when the hash is empty or cannot be read, the rows
\* are read and the hash is replaced by them.
AskList(t) ==
  /\ pc[t] = "idle" /\ pc[Main] = "ready" /\ redisOn
  /\ \/ Use("admin") /\ \A s \in Strategy : redis[s] = "none"
     \/ Use("redis")
  /\ Goto(t, "list")
  /\ UNCHANGED <<kind, stores, lock, job, carry, again, todo, tasks, wanted, over>>

ReadRows(t) ==
  /\ pc[t] = "list"
  /\ carry' = [carry EXCEPT ![t] = db]
  /\ Goto(t, IF \E s \in Strategy : db[s] # "none" THEN "replace" ELSE "idle")
  /\ UNCHANGED <<kind, stores, lock, job, again, todo, tasks, wanted, over, used>>

Replace(t) ==
  /\ pc[t] = "replace"
  /\ Redis(carry[t])
  /\ Goto(t, "idle")
  /\ carry' = [carry EXCEPT ![t] = NoRows]
  /\ UNCHANGED <<kind, db, redisOn, lock, job, again, todo, tasks, wanted, over>>

(***************************************************************************)
(* Recovery.                                                               *)
(***************************************************************************)
ActiveIn(store) == {s \in Strategy : store[s] = "ACTIVE"}
Recovering(S)   == todo' = S /\ Goto(Main, IF S = {} THEN "ready" ELSE "recover")

\* RecoverStrategies takes the ACTIVE entries of the hash, if there are any;
RecoverFromRedis ==
  /\ pc[Main] = "boot" /\ redisOn /\ ActiveIn(redis) # {}
  /\ Recovering(ActiveIn(redis))
  /\ UNCHANGED <<kind, stores, lock, job, carry, again, tasks, wanted, over, used>>

\* otherwise, or when the hash cannot be read, the ACTIVE rows, if there are
\* any, and it replaces the hash by all rows, unless that fails.
RecoverFromDB ==
  LET refilled == IF redisOn /\ ActiveIn(db) # {} THEN db ELSE redis IN
  /\ pc[Main] = "boot"
  /\ \/ redisOn /\ Use("redis") /\ redis' \in {redis, refilled}
     \/ (~redisOn \/ ActiveIn(redis) = {}) /\ redis' = refilled /\ UNCHANGED used
  /\ Recovering(ActiveIn(db))
  /\ UNCHANGED <<kind, db, redisOn, lock, job, carry, again, tasks, wanted, over>>

\* The query for the ACTIVE rows fails, or the one for all of them.
RecoverDBFails ==
  /\ pc[Main] = "boot" /\ (~redisOn \/ ActiveIn(redis) = {}) /\ Use("db")
  /\ \E S \in {{}, ActiveIn(db)} : Recovering(S)
  /\ UNCHANGED <<kind, stores, lock, job, carry, again, tasks, wanted, over>>

RecoverNext(s) ==
  /\ pc[Main] = "recover" /\ s \in todo
  /\ Start(Main, s)
  /\ todo' = todo \ {s}
  /\ UNCHANGED <<kind, stores, carry, again, closes, wanted, over, used>>

(***************************************************************************)
(* The loops.                                                              *)
(***************************************************************************)
Gone         == [Loop0 EXCEPT !.loop = "gone"]
Leave(r, l)  == IF l = "gone" THEN Gone ELSE [r EXCEPT !.loop = l]
Step(n, l)   == run' = [run EXCEPT ![n] = Leave(@, l)]
Ticks(n, k)  ==
  run[n].loop = "select" /\ kind[of[n]] = k /\ Use("tick")
Unlocked(n)  == lock[kind[of[n]]] = Free
Outside      == UNCHANGED <<kind, stores, lock, threads, task, of, wanted>>

\* A select with both channels ready takes either, so that a loop may tick
\* again after its stop channel was closed.
Stopped(n) ==
  /\ run[n].loop = "select" /\ Closed(n)
  /\ Step(n, "gone")
  /\ Outside /\ UNCHANGED <<active, closes, over, used>>

\* (Bug.)  One order too many.
PlanDoneLate(n) == run[n].count > TotalOrders

PlanDone(n) == run[n].count >= TotalOrders

\* The plan is fulfilled, the position was closed by others (autoscale), the
\* total profit or loss is reached (dca), or it is time for an order.
TickDCA(n) ==
  /\ Ticks(n, "dca")
  /\ \E l \in {"finish", "ending", "order"} :
       /\ (l = "finish") <=> PlanDone(n)
       /\ run' = [run EXCEPT ![n] = [@ EXCEPT !.loop = l, !.then = "gone",
                                              !.tries = 2]]
  /\ Outside /\ UNCHANGED <<active, closes, over>>

TickAutoScale(n) ==
  /\ Ticks(n, "autoscale")
  /\ \E l \in {"finish", "scale"} :
       /\ PlanDone(n) => l = "finish"
       /\ run' = [run EXCEPT ![n] = [@ EXCEPT !.loop = l]]
  /\ Outside /\ UNCHANGED <<active, closes, over>>

\* A filled level is sold a level higher; an empty one is bought at its price
\* or below, but for prices under the grid.
Wants(r, i) ==
  IF i \in r.filled THEN i < GridCount /\ r.price >= 2 * (i + 1)
                    ELSE r.price <= 2 * i /\ r.price >= 2

\* The next level, from r.at on, at which gridTick sends an order.
Advance(r) ==
  LET A == {i \in Levels : i >= r.at /\ Wants(r, i)} IN
  IF A = {} THEN [r EXCEPT !.loop = "select", !.at = 0, !.price = 0]
  ELSE [r EXCEPT !.loop = "trade", !.at = CHOOSE i \in A : \A j \in A : i <= j]

\* The stop loss and the take profit of the whole grid are its outer prices.
TickGrid(n) ==
  /\ Ticks(n, "grid")
  /\ \E p \in Prices :
       LET r == [run[n] EXCEPT !.price = p, !.at = 1] IN
       run' = [run EXCEPT ![n] =
                 IF p \in {0, 2 * GridCount + 1}
                 THEN [r EXCEPT !.loop = "ending", !.then = "select"]
                 ELSE Advance(r)]
  /\ Outside /\ UNCHANGED <<active, closes, over>>

\* The order of a DCA (dcaExecute), of a scale-in (executeScaleIn), or of the
\* grid level at hand: accepted,
Accepted(n) ==
  /\ run[n].loop \in {"order", "scale", "trade"}
  /\ LET r == run[n] IN
     run' = [run EXCEPT ![n] =
       [r EXCEPT !.loop = "count",
                 !.net = IF r.loop = "trade" /\ r.at \in r.filled
                         THEN r.net - 1 ELSE r.net + 1]]
  /\ Outside /\ UNCHANGED <<active, closes, over, used>>

\* or refused, by the risk control or by the exchange.
Refused(n) ==
  /\ run[n].loop \in {"order", "scale", "trade"} /\ Use("error")
  /\ LET r == run[n] IN
     run' = [run EXCEPT ![n] =
       CASE r.loop = "order" ->
              [r EXCEPT !.tries = r.tries - 1,
                        !.loop = IF r.tries = 1 THEN "failed" ELSE "order"]
         [] r.loop = "scale" -> [r EXCEPT !.loop = "select"]
         [] r.loop = "trade" -> Advance([r EXCEPT !.at = r.at + 1])]
  /\ Outside /\ UNCHANGED <<active, closes, over>>

\* The book-keeping after an accepted order, under the mutex.
\* (Bug.)  The level above is marked.
TurnedAbove(r) == r.filled \cup {r.at + 1}

Turned(r) == IF r.at \in r.filled THEN r.filled \ {r.at} ELSE r.filled \cup {r.at}

Count(n) ==
  /\ run[n].loop = "count" /\ Unlocked(n)
  /\ LET r == run[n] IN
     run' = [run EXCEPT ![n] =
       CASE kind[of[n]] = "dca" ->
              [r EXCEPT !.loop = "select", !.tries = 0, !.count = r.count + 1, !.fails = 0]
         [] kind[of[n]] = "autoscale" ->
              [r EXCEPT !.loop = "protect", !.count = r.count + 1]
         [] kind[of[n]] = "grid" ->
              Advance([r EXCEPT !.filled = Turned(r), !.at = r.at + 1])]
  /\ Outside /\ UNCHANGED <<active, closes, over, used>>

\* (Bug.)  The ids of the new pair are not kept.
ReplacedForgotten(r, cancelled, placed) ==
  [r EXCEPT !.loop = "select", !.pairs = IF placed = "none" THEN @ ELSE @ + 1]

\* updateTPSLAfterScale (UpdateTPSL is set): the pair of stops whose ids are
\* kept is cancelled and a new one placed.  Either may fail, the second half
\* way, and the ids are only kept of a whole pair.
Replaced(r, cancelled, placed) ==
  [r EXCEPT !.loop  = "select",
            !.pairs = @ - (IF r.known /\ cancelled THEN 1 ELSE 0)
                        + (IF placed = "none" THEN 0 ELSE 1),
            !.known = placed = "both" \/ (@ /\ ~cancelled)]

Protect(n) ==
  /\ run[n].loop = "protect"
  /\ \E cancelled \in BOOLEAN, placed \in {"both", "one", "none"} :
       /\ run' = [run EXCEPT ![n] = Replaced(@, cancelled, placed)]
       /\ IF cancelled /\ placed = "both" THEN UNCHANGED used ELSE Use("error")
  /\ Outside /\ UNCHANGED <<active, closes, over>>

\* All attempts of a DCA order failed; too many such rounds stop it.
Failed(n) ==
  /\ run[n].loop = "failed" /\ Unlocked(n)
  /\ LET r == run[n] IN
     run' = [run EXCEPT ![n] =
       [r EXCEPT !.tries = 0, !.fails = r.fails + 1, !.then = "select",
                 !.loop = IF r.fails + 1 >= MaxFailures THEN "ending" ELSE "select"]]
  /\ Outside /\ UNCHANGED <<active, closes, over, used>>

\* The loop ends its task: Active is cleared under the mutex,
Deactivate(n, l) ==
  /\ Unlocked(n)
  /\ active' = active \ {n}
  /\ over' = over \cup (IF n \in active THEN {of[n]} ELSE {})
  /\ Step(n, l)
  /\ Outside /\ UNCHANGED <<closes, used>>

Finish(n) == run[n].loop = "finish" /\ Deactivate(n, "gone")

\* (Bug.)  The stop channel is seen to before Active is cleared.
EndingLate(n) ==
  /\ run[n].loop = "ending"
  /\ Step(n, "check")
  /\ Outside /\ UNCHANGED <<active, closes, over, used>>

Ending(n) == run[n].loop = "ending" /\ Deactivate(n, "check")

\* and then, without it, the stop channel is closed unless it is already.
Check(n) ==
  /\ run[n].loop = "check"
  /\ Step(n, IF Closed(n) THEN run[n].then ELSE "close")
  /\ Outside /\ UNCHANGED <<active, closes, over, used>>

\* (Bug.)  The loop relies on Active alone.
CloseNot(n) ==
  /\ run[n].loop = "close"
  /\ Step(n, run[n].then)
  /\ Outside /\ UNCHANGED <<active, closes, over, used>>

Close(n) ==
  /\ run[n].loop = "close"
  /\ closes' = [closes EXCEPT ![n] = @ + 1]
  /\ Step(n, run[n].then)
  /\ Outside /\ UNCHANGED <<active, over, used>>

(***************************************************************************)
(* The process stops, at any point, and starts again.                      *)
(***************************************************************************)
NoTask   == [s \in Strategy |-> 0]
Unused   == [n \in Task |-> CHOOSE s \in Strategy : TRUE]
Unclosed == [n \in Task |-> 0]

Crash ==
  /\ redisOn' \in BOOLEAN
  /\ Use(IF redisOn' THEN "crash" ELSE "down")
  /\ pc' = [t \in Thread |-> IF t = Main THEN "boot" ELSE "idle"]
  /\ again' = [t \in Thread |-> FALSE] /\ todo' = {}
  /\ lock' = [k \in Kinds |-> Free]
  /\ carry' = [t \in Thread |-> NoRows]
  /\ task' = NoTask /\ active' = {} /\ of' = Unused /\ closes' = Unclosed /\ run' = <<>>
  /\ UNCHANGED <<kind, db, redis, job, wanted, over>>

Init ==
  /\ kind \in [Strategy -> Kinds]
  /\ db = NoRows /\ redis = NoRows /\ redisOn = TRUE
  /\ lock = [k \in Kinds |-> Free]
  /\ pc = [t \in Thread |-> IF t = Main THEN "boot" ELSE "idle"]
  /\ job \in [Thread -> {CHOOSE s \in Strategy : TRUE}]
  /\ carry = [t \in Thread |-> NoRows] /\ again = [t \in Thread |-> FALSE] /\ todo = {}
  /\ task = NoTask /\ active = {} /\ of = Unused /\ closes = Unclosed /\ run = <<>>
  /\ wanted = [s \in Strategy |-> "none"] /\ over = {}
  /\ used = [e \in Events |-> 0]

-----------------------------------------------------------------------------
Record(t) == SaveDB(t) \/ SaveRedis(t) \/ MarkDB(t) \/ MarkRedis(t)

Recover ==
  \/ RecoverFromRedis \/ RecoverFromDB \/ RecoverDBFails
  \/ \E s \in Strategy : RecoverNext(s)

Proceed(t) ==
  \/ Record(t)
  \/ ReadRow(t) \/ WriteRow(t) \/ ReadRows(t) \/ Replace(t)
  \/ t = Main /\ Recover

Request(t) ==
  \/ \E s \in Strategy :
       \/ AskStart(t, s) \/ AskRetire(t, s) \/ AskSync(t, s)
       \/ \E retire \in BOOLEAN : AskStop(t, s, retire)
  \/ AskList(t)

Work(n) ==
  \/ Accepted(n) \/ Refused(n) \/ Count(n) \/ Protect(n) \/ Failed(n)
  \/ Finish(n) \/ Ending(n) \/ Check(n) \/ Close(n)

Loop(n) == Stopped(n) \/ TickDCA(n) \/ TickGrid(n) \/ TickAutoScale(n) \/ Work(n)

Next ==
  \/ Crash
  \/ \E t \in Thread : Proceed(t)
  \/ \E t \in Caller : Request(t)
  \/ \E n \in Made : Loop(n)

Spec == Init /\ [][Next]_vars

-----------------------------------------------------------------------------
(***************************************************************************)
(* Properties                                                              *)
(***************************************************************************)
Places == {"idle", "boot", "recover", "ready", "saveDB", "saveRedis", "markDB",
           "markRedis", "sync", "syncWrite", "list", "replace"}
LoopPlaces == {"select", "order", "scale", "trade", "count", "protect", "failed",
               "finish", "ending", "check", "close", "gone"}

TypeOK ==
  /\ db \in [Strategy -> Status] /\ redis \in [Strategy -> Status] /\ redisOn \in BOOLEAN
  /\ lock \in [Kinds -> Thread \cup {Free}]
  /\ pc \in [Thread -> Places] /\ job \in [Thread -> Strategy]
  /\ carry \in [Thread -> [Strategy -> Status]]
  /\ again \in [Thread -> BOOLEAN] /\ todo \subseteq Strategy
  /\ Made \in {1 .. n : n \in 0 .. MaxTask} /\ active \subseteq Made
  /\ task \in [Strategy -> Made \cup {0}] /\ of \in [Task -> Strategy]
  /\ closes \in [Task -> Nat]
  /\ \A n \in Made :
       /\ run[n].loop \in LoopPlaces /\ run[n].then \in {"select", "gone"}
       /\ run[n].filled \subseteq Levels
       /\ run[n].count \in Nat /\ run[n].net \in Nat /\ run[n].pairs \in Nat
  /\ wanted \in [Strategy -> {"none", "run", "stop", "open"}] /\ over \subseteq Strategy
  /\ used \in [Events -> Nat]

\* Closing a closed channel ends the process: whichever of a handler and the
\* loop itself ends a task, and in whatever order, its channel is closed once.
ClosedOnce == \A n \in Task : closes[n] <= 1

\* No store failed or was missing, and nobody used the administration or the
\* list, which write the record without the mutex.
Without(E)  == \A e \in E : used[e] = 0
Undisturbed == Without({"db", "redis", "down", "admin"})
SameProcess == Without({"crash", "down", "admin"})

Busy(s) == pc[Main] # "ready" \/ lock[kind[s]] # Free \/ wanted[s] = "open"

\* The last acknowledged request holds, over any number of restarts: a
\* strategy that was started runs, or has ended by itself, and is on record;
\* one that was stopped neither runs nor comes back.  Until a restart this is
\* so of the process whatever the stores do.
LastWordHolds ==
  \A s \in Strategy : ~Busy(s) =>
    /\ Undisturbed \/ SameProcess =>
         /\ wanted[s] = "run"  => Running(s) \/ s \in over
         /\ wanted[s] = "stop" => ~Running(s)
    /\ Undisturbed =>
         /\ wanted[s] = "run"  => db[s] = "ACTIVE" /\ redis[s] = "ACTIVE"
         /\ wanted[s] = "stop" => db[s] # "ACTIVE" /\ redis[s] # "ACTIVE"

\* What a task has bought fits its plan, the order under way included: a DCA
\* or an auto-scale no more than its number of orders, a grid one order per
\* level, whatever it bought and sold before.
OrdersFitPlan ==
  \A n \in Made :
    /\ kind[of[n]] # "grid" => run[n].net <= TotalOrders
    /\ kind[of[n]] = "grid" =>
         /\ run[n].net <= GridCount
         /\ run[n].loop # "count" => run[n].net = Cardinality(run[n].filled)

\* A task places a pair of stops per scale-in and leaves one of them, and one
\* more for each request that failed.
PairsBounded == \A n \in Made : run[n].pairs <= 1 + used["error"]

\* No loop trades where no request can reach it: an active task is the one of
\* the map, which StopX will find, and a loop that waits although its task was
\* stopped, or has ended itself, finds its channel closed.
NoStrayLoop ==
  \A n \in Made :
    IF n \in active THEN task[of[n]] = n
                    ELSE run[n].loop = "select" => Closed(n)

\* The plans of the tasks fit: their orders and their stops (api/dca.go,
\* grid_trading.go, auto_scale.go).
PlansFit == OrdersFitPlan /\ PairsBounded

\* Every loop can be stopped, and is stopped once (api/dca.go, grid_trading.go,
\* auto_scale.go).
LoopsInHand == ClosedOnce /\ NoStrayLoop

\* "Running strategies are recovered": a restart starts no strategy that had
\* ended by itself.
RecoversOnlyRunning ==
  [][\A s \in Strategy :
       (pc[Main] = "recover" /\ task'[s] \notin {0, task[s]}) => s \notin over]_vars

\* "Close all positions and stop": a loop whose task has ended or was stopped
\* does not begin another round of orders.
NoRoundWhenStopped ==
  [][\A n \in (Made \cap Made') \ active :
       run[n].loop = "select" => run'[n].loop \in {"select", "gone"}]_vars
=============================================================================
