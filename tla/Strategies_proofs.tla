-------------------------- MODULE Strategies_proofs --------------------------
(***************************************************************************)
(* Proofs about Strategies, for any number of strategies, handlers, orders *)
(* of a plan, levels of a grid, tasks and requests.                        *)
(***************************************************************************)
EXTENDS Strategies, FiniteSetTheorems, TLAPS

(***************************************************************************)
(* Types.  That the orders and the stops of a task are never fewer than    *)
(* none follows from what the plans allow, so that the types come first    *)
(* with integers there, and TypeOK follows from both.                      *)
(***************************************************************************)
LoopState ==
  [loop : LoopPlaces, then : {"select", "gone"}, tries : Int, count : Nat,
   fails : Nat, net : Int, filled : SUBSET Levels, at : Nat, price : Nat,
   pairs : Int, known : BOOLEAN]

StoresTyped ==
  /\ kind \in [Strategy -> Kinds]
  /\ db \in [Strategy -> Status] /\ redis \in [Strategy -> Status]
  /\ redisOn \in BOOLEAN
ThreadsTyped ==
  /\ lock \in [Kinds -> Thread \cup {Free}]
  /\ pc \in [Thread -> Places] /\ job \in [Thread -> Strategy]
  /\ carry \in [Thread -> [Strategy -> Status]]
  /\ again \in [Thread -> BOOLEAN] /\ todo \subseteq Strategy
TasksTyped ==
  /\ Made \in {1 .. n : n \in 0 .. MaxTask} /\ active \subseteq Made
  /\ task \in [Strategy -> Made \cup {0}] /\ of \in [Task -> Strategy]
  /\ closes \in [Task -> Nat] /\ run \in [Made -> LoopState]
HistoryTyped ==
  /\ wanted \in [Strategy -> {"none", "run", "stop", "open"}]
  /\ over \subseteq Strategy /\ used \in [Events -> Nat]

TypeInv == StoresTyped /\ ThreadsTyped /\ TasksTyped /\ HistoryTyped

LEMMA Threads == Main \in Thread /\ Caller \subseteq Thread /\ Free \notin Thread
  BY FreeAssumption DEF Thread

LEMMA BoundsNat == MaxTask \in Nat /\ TotalOrders \in Nat /\ GridCount \in Nat
  BY PlanAssumption, BoundAssumption

LEMMA NoRowsTyped == NoRows \in [Strategy -> Status]
  BY DEF NoRows, Status

\* An event that is counted is counted once and alone.
LEMMA UseCounts ==
  ASSUME used \in [Events -> Nat], NEW e \in Events, Use(e)
  PROVE  /\ used' \in [Events -> Nat] /\ used'[e] = used[e] + 1
         /\ used'[e] # 0 /\ \A f \in Events : used'[f] >= used[f]
  BY DEF Use

LEMMA MadeFacts ==
  ASSUME TasksTyped
  PROVE  /\ IsFiniteSet(Made) /\ Cardinality(Made) \in 0 .. MaxTask
         /\ Made = 1 .. Cardinality(Made) /\ Made \subseteq Task /\ 0 \notin Made
  <1>1. PICK n \in 0 .. MaxTask : Made = 1 .. n
    BY DEF TasksTyped
  <1>2. n \in Nat
    BY BoundsNat
  <1>3. IsFiniteSet(Made) /\ Cardinality(Made) = n
    BY <1>1, <1>2, FS_Interval
  <1>4. QED
    BY <1>1, <1>2, <1>3, BoundsNat DEF Task

\* Return and the writes to the hash.
LEMMA ReturnTyped ==
  ASSUME ThreadsTyped, HistoryTyped, NEW t \in Thread,
         NEW word \in {"run", "stop"}, Return(t, word)
  PROVE  /\ pc' \in [Thread -> Places] /\ lock' \in [Kinds -> Thread \cup {Free}]
         /\ wanted' \in [Strategy -> {"none", "run", "stop", "open"}]
  <1>1. pc' \in [Thread -> Places]
    BY DEF Return, Goto, ThreadsTyped, Places
  <1>2. lock' \in [Kinds -> Thread \cup {Free}]
    BY DEF Return, ThreadsTyped
  <1>3. wanted' \in [Strategy -> {"none", "run", "stop", "open"}]
    BY DEF Return, HistoryTyped, ThreadsTyped
  <1>4. QED
    BY <1>1, <1>2, <1>3

LEMMA RedisTyped ==
  ASSUME StoresTyped, HistoryTyped, NEW f \in [Strategy -> Status], Redis(f)
  PROVE  redis' \in [Strategy -> Status] /\ used' \in [Events -> Nat]
  BY UseCounts DEF Redis, StoresTyped, HistoryTyped, Events, Trouble

LEMMA RecordTyped ==
  ASSUME TypeInv, NEW t \in Thread, Record(t) PROVE TypeInv'
  <1> USE DEF Events, Trouble
  <1>1. job[t] \in Strategy /\ carry[t] \in [Strategy -> Status]
    BY DEF TypeInv, ThreadsTyped
  <1>2. CASE SaveDB(t)
    <2>1. /\ db' \in [Strategy -> Status] /\ used' \in [Events -> Nat]
      BY <1>1, <1>2, UseCounts
      DEF SaveDB, TypeInv, StoresTyped, HistoryTyped, Status
    <2>2. carry' \in [Thread -> [Strategy -> Status]]
      <3>1. PICK x \in {"ACTIVE"} \cup Stored(job[t]) :
              carry' = [carry EXCEPT ![t][job[t]] = x]
        BY <1>2 DEF SaveDB
      <3>2. x \in Status
        BY <1>1 DEF Stored, TypeInv, StoresTyped, Status
      <3>3. QED
        BY <1>1, <3>1, <3>2 DEF TypeInv, ThreadsTyped
    <2>3. pc' \in [Thread -> Places]
      BY <1>2 DEF SaveDB, Goto, TypeInv, ThreadsTyped, Places
    <2>4. QED
      BY <1>2, <2>1, <2>2, <2>3
      DEF SaveDB, TypeInv, StoresTyped, ThreadsTyped, TasksTyped, HistoryTyped,
          tasks, Made
  <1>3. CASE SaveRedis(t)
    <2>1. redis' \in [Strategy -> Status] /\ used' \in [Events -> Nat]
      <3>1. [redis EXCEPT ![job[t]] = carry[t][job[t]]] \in [Strategy -> Status]
        BY <1>1 DEF TypeInv, StoresTyped
      <3>2. QED
        BY <1>3, <3>1, RedisTyped DEF SaveRedis, TypeInv
    <2>2. /\ pc' \in [Thread -> Places]
          /\ lock' \in [Kinds -> Thread \cup {Free}]
          /\ wanted' \in [Strategy -> {"none", "run", "stop", "open"}]
      BY <1>3, ReturnTyped DEF SaveRedis, TypeInv
    <2>3. carry' \in [Thread -> [Strategy -> Status]]
      BY <1>3, NoRowsTyped DEF SaveRedis, TypeInv, ThreadsTyped
    <2>4. QED
      BY <1>3, <2>1, <2>2, <2>3
      DEF SaveRedis, TypeInv, StoresTyped, ThreadsTyped, TasksTyped,
          HistoryTyped, tasks, Made
  <1>4. CASE MarkDB(t)
    <2>1. db' \in [Strategy -> Status] /\ used' \in [Events -> Nat]
      BY <1>1, <1>4, UseCounts
      DEF MarkDB, TypeInv, StoresTyped, HistoryTyped, Status
    <2>2. pc' \in [Thread -> Places]
      BY <1>4 DEF MarkDB, Goto, TypeInv, ThreadsTyped, Places
    <2>3. QED
      BY <1>4, <2>1, <2>2
      DEF MarkDB, TypeInv, StoresTyped, ThreadsTyped, TasksTyped, HistoryTyped,
          tasks, Made
  <1>5. CASE MarkRedis(t)
    <2>1. redis' \in [Strategy -> Status] /\ used' \in [Events -> Nat]
      <3>1. [redis EXCEPT ![job[t]] = "STOPPED"] \in [Strategy -> Status]
        BY <1>1 DEF TypeInv, StoresTyped, Status
      <3>2. CASE Redis([redis EXCEPT ![job[t]] = "STOPPED"])
        BY <3>1, <3>2, RedisTyped DEF TypeInv
      <3>3. CASE Use("redis") /\ \E x \in Stored(job[t]) :
                   redis' = [redis EXCEPT ![job[t]] = x]
        BY <1>1, <3>3, UseCounts DEF Stored, TypeInv, StoresTyped, HistoryTyped
      <3>4. QED
        BY <1>5, <3>2, <3>3 DEF MarkRedis
    <2>2. /\ pc' \in [Thread -> Places]
          /\ lock' \in [Kinds -> Thread \cup {Free}]
          /\ wanted' \in [Strategy -> {"none", "run", "stop", "open"}]
          /\ again' \in [Thread -> BOOLEAN]
      <3>1. CASE again[t]
        <4>1. /\ pc' = [pc EXCEPT ![t] = "markDB"]
              /\ again' = [again EXCEPT ![t] = FALSE] /\ wanted' = wanted
              /\ lock' = [k \in Kinds |-> IF lock[k] = t THEN Free ELSE lock[k]]
          BY <1>5, <3>1 DEF MarkRedis, Goto
        <4>2. again' \in [Thread -> BOOLEAN]
          BY <4>1 DEF TypeInv, ThreadsTyped
        <4>3. pc' \in [Thread -> Places]
          BY <4>1 DEF TypeInv, ThreadsTyped, Places
        <4>4. QED
          BY <4>1, <4>2, <4>3 DEF TypeInv, ThreadsTyped, HistoryTyped
      <3>2. CASE ~again[t]
        BY <1>5, <3>2, ReturnTyped DEF MarkRedis, TypeInv, ThreadsTyped
      <3>3. QED
        BY <3>1, <3>2
    <2>3. QED
      BY <1>5, <2>1, <2>2
      DEF MarkRedis, TypeInv, StoresTyped, ThreadsTyped, TasksTyped,
          HistoryTyped, tasks, Made
  <1>6. QED
    BY <1>2, <1>3, <1>4, <1>5 DEF Record

\* The fields a loop sets together.
LEMMA LoopUpdates ==
  ASSUME NEW r \in LoopState
  PROVE  /\ \A l \in LoopPlaces : [r EXCEPT !.loop = l] \in LoopState
         /\ \A l \in LoopPlaces, x \in Int :
              /\ [r EXCEPT !.loop = l, !.tries = x] \in LoopState
              /\ [r EXCEPT !.tries = x, !.loop = l] \in LoopState
              /\ [r EXCEPT !.loop = l, !.net = x] \in LoopState
         /\ \A l \in LoopPlaces, h \in {"select", "gone"} :
              [r EXCEPT !.loop = l, !.then = h] \in LoopState
         /\ \A l \in LoopPlaces, h \in {"select", "gone"}, x \in Int :
              [r EXCEPT !.loop = l, !.then = h, !.tries = x] \in LoopState
         /\ \A l \in LoopPlaces, i \in Nat :
              /\ [r EXCEPT !.loop = l, !.at = i] \in LoopState
              /\ [r EXCEPT !.loop = l, !.count = i] \in LoopState
         /\ \A l \in LoopPlaces, i, j \in Nat :
              [r EXCEPT !.loop = l, !.at = i, !.price = j] \in LoopState
         /\ \A i \in Nat : [r EXCEPT !.at = i] \in LoopState
         /\ \A i, j \in Nat : [r EXCEPT !.price = i, !.at = j] \in LoopState
         /\ \A F \in SUBSET Levels, i \in Nat :
              [r EXCEPT !.filled = F, !.at = i] \in LoopState
         /\ \A l \in LoopPlaces, x \in Int, i, j \in Nat :
              [r EXCEPT !.loop = l, !.tries = x, !.count = i, !.fails = j]
                \in LoopState
         /\ \A l \in LoopPlaces, h \in {"select", "gone"}, x \in Int, i \in Nat :
              [r EXCEPT !.tries = x, !.fails = i, !.then = h, !.loop = l]
                \in LoopState
         /\ \A l \in LoopPlaces, x \in Int, b \in BOOLEAN :
              [r EXCEPT !.loop = l, !.pairs = x, !.known = b] \in LoopState
  BY ZenonT(60) DEF LoopState

LEMMA Loop0Typed == Loop0 \in LoopState /\ Gone \in LoopState
  <1>1. Loop0 \in LoopState
    BY DEF Loop0, LoopState, LoopPlaces
  <1>2. "gone" \in LoopPlaces
    BY DEF LoopPlaces
  <1>3. QED
    BY <1>1, <1>2, LoopUpdates DEF Gone

\* A start makes the next task.
LEMMA StartTyped ==
  ASSUME TypeInv, NEW t \in Thread, NEW s \in Strategy, Start(t, s)
  PROVE  LET n == Cardinality(Made) + 1 IN
         /\ n \in Task \ Made /\ Made' = Made \cup {n} /\ Made' = 1 .. n
         /\ run' \in [Made' -> LoopState] /\ of' \in [Task -> Strategy]
         /\ Made' \in {1 .. m : m \in 0 .. MaxTask} /\ active' \subseteq Made'
         /\ task' \in [Strategy -> Made' \cup {0}]
         /\ lock' \in [Kinds -> Thread \cup {Free}]
         /\ job' \in [Thread -> Strategy] /\ pc' \in [Thread -> Places]
  <1> DEFINE n == Cardinality(Made) + 1
  <1>1. /\ Cardinality(Made) \in 0 .. MaxTask /\ Made = 1 .. Cardinality(Made)
        /\ n \in Task
    BY MadeFacts DEF TypeInv, Start
  <1>2. Cardinality(Made) \in Nat /\ n \in 0 .. MaxTask
    BY <1>1, BoundsNat DEF Task
  <1>3. n \notin Made /\ 1 .. n = Made \cup {n}
    BY <1>1, <1>2
  <1> HIDE DEF n
  <1>4. run' = [m \in Made \cup {n} |->
                  IF m = n THEN NewTask(kind[s]) ELSE run[m]]
    BY DEF Start, n
  <1>5. NewTask(kind[s]) \in LoopState
    <2>1. "order" \in LoopPlaces
      BY DEF LoopPlaces
    <2>2. [Loop0 EXCEPT !.loop = "order", !.tries = 3] \in LoopState
      <3>1. 3 \in Int
        OBVIOUS
      <3>2. QED
        BY <2>1, <3>1, Loop0Typed, LoopUpdates, Zenon
    <2>3. kind[s] \in Kinds
      BY DEF TypeInv, StoresTyped
    <2>4. QED
      BY <2>2, <2>3, Loop0Typed
      DEF NewTask, NewDCA, NewGrid, NewAutoScale, Kinds
  <1>6. Made' = Made \cup {n}
    BY <1>4 DEF Made
  <1>7. run' \in [Made' -> LoopState]
    BY <1>4, <1>5, <1>6 DEF TypeInv, TasksTyped
  <1>8. /\ of' \in [Task -> Strategy] /\ active' \subseteq Made'
        /\ task' \in [Strategy -> Made' \cup {0}]
    BY <1>1, <1>6 DEF Start, TypeInv, TasksTyped, n
  <1>9. kind[s] \in Kinds
    BY DEF TypeInv, StoresTyped
  <1>10. /\ lock' \in [Kinds -> Thread \cup {Free}]
         /\ job' \in [Thread -> Strategy] /\ pc' \in [Thread -> Places]
    BY <1>9 DEF Start, Goto, TypeInv, ThreadsTyped, Places
  <1>11. QED
    BY <1>1, <1>2, <1>3, <1>6, <1>7, <1>8, <1>10 DEF n

LEMMA RequestTyped ==
  ASSUME TypeInv, NEW t \in Thread, Request(t) PROVE TypeInv'
  <1> USE Threads DEF Events, Trouble
  <1>1. ASSUME NEW s \in Strategy, AskStart(t, s) PROVE TypeInv'
    <2>1. used' \in [Events -> Nat]
      BY <1>1, UseCounts DEF AskStart, TypeInv, HistoryTyped
    <2>2. /\ wanted' \in [Strategy -> {"none", "run", "stop", "open"}]
          /\ over' \subseteq Strategy
      BY <1>1 DEF AskStart, TypeInv, HistoryTyped
    <2>3. Start(t, s)
      BY <1>1 DEF AskStart
    <2>4. QED
      BY <1>1, <2>1, <2>2, <2>3, StartTyped
      DEF AskStart, TypeInv, StoresTyped, ThreadsTyped, TasksTyped,
          HistoryTyped, stores
  <1>2. ASSUME NEW s \in Strategy, NEW retire \in BOOLEAN, AskStop(t, s, retire)
        PROVE  TypeInv'
    <2>1. used' \in [Events -> Nat]
      BY <1>2, UseCounts DEF AskStop, TypeInv, HistoryTyped
    <2>2. wanted' \in [Strategy -> {"none", "run", "stop", "open"}]
      BY <1>2 DEF AskStop, TypeInv, HistoryTyped
    <2>3. kind[s] \in Kinds
      BY DEF TypeInv, StoresTyped
    <2>4. /\ lock' \in [Kinds -> Thread \cup {Free}]
          /\ job' \in [Thread -> Strategy] /\ pc' \in [Thread -> Places]
      BY <1>2, <2>3 DEF AskStop, Goto, TypeInv, ThreadsTyped, Places
    <2>5. again' \in [Thread -> BOOLEAN]
      <3>1. again' = [again EXCEPT ![t] = retire]
        BY <1>2 DEF AskStop
      <3>2. QED
        BY <3>1 DEF TypeInv, ThreadsTyped
    <2>6. /\ closes' = [closes EXCEPT ![task[s]] = closes[task[s]] + 1]
          /\ task[s] \in active /\ active' \subseteq active
      BY <1>2 DEF AskStop, Running
    <2>7. closes' \in [Task -> Nat] /\ active' \subseteq Made
      <3>1. task[s] \in Task /\ closes \in [Task -> Nat] /\ active \subseteq Made
        BY <2>6, MadeFacts DEF TypeInv, TasksTyped
      <3>2. closes[task[s]] + 1 \in Nat
        BY <3>1
      <3>3. QED
        BY <2>6, <3>1, <3>2
    <2>8. QED
      BY <1>2, <2>1, <2>2, <2>4, <2>5, <2>7
      DEF AskStop, TypeInv, StoresTyped, ThreadsTyped, TasksTyped,
          HistoryTyped, stores, Made
  <1>3. ASSUME NEW s \in Strategy, AskRetire(t, s) \/ AskSync(t, s)
        PROVE  TypeInv'
    <2>1. used' \in [Events -> Nat]
      BY <1>3, UseCounts DEF AskRetire, AskSync, TypeInv, HistoryTyped
    <2>2. wanted' \in [Strategy -> {"none", "run", "stop", "open"}]
      BY <1>3 DEF AskRetire, AskSync, TypeInv, HistoryTyped
    <2>3. job' \in [Thread -> Strategy]
      BY <1>3 DEF AskRetire, AskSync, TypeInv, ThreadsTyped
    <2>a. pc' \in [Thread -> Places]
      BY <1>3 DEF AskRetire, AskSync, Goto, TypeInv, ThreadsTyped, Places
    <2>4. QED
      BY <1>3, <2>1, <2>2, <2>3, <2>a
      DEF AskRetire, AskSync, TypeInv, StoresTyped, ThreadsTyped, TasksTyped,
          HistoryTyped, stores, tasks, Made
  <1>4. CASE AskList(t)
    <2>1. used' \in [Events -> Nat]
      BY <1>4, UseCounts DEF AskList, TypeInv, HistoryTyped
    <2>2. pc' \in [Thread -> Places]
      BY <1>4 DEF AskList, Goto, TypeInv, ThreadsTyped, Places
    <2>3. QED
      BY <1>4, <2>1, <2>2
      DEF AskList, TypeInv, StoresTyped, ThreadsTyped, TasksTyped,
          HistoryTyped, stores, tasks, Made
  <1>5. QED
    BY <1>1, <1>2, <1>3, <1>4 DEF Request

\* The copies of rows into the hash that take no mutex.
Copy(t) == ReadRow(t) \/ WriteRow(t) \/ ReadRows(t) \/ Replace(t)

LEMMA CopyTyped ==
  ASSUME TypeInv, NEW t \in Thread, Copy(t) PROVE TypeInv'
  <1>1. /\ job[t] \in Strategy /\ carry[t] \in [Strategy -> Status]
        /\ db \in [Strategy -> Status]
    BY DEF TypeInv, ThreadsTyped, StoresTyped
  <1>2. carry' \in [Thread -> [Strategy -> Status]]
    BY <1>1, NoRowsTyped
    DEF Copy, ReadRow, WriteRow, ReadRows, Replace, TypeInv, ThreadsTyped
  <1>3. pc' \in [Thread -> Places]
    BY DEF Copy, ReadRow, WriteRow, ReadRows, Replace, Goto, TypeInv,
           ThreadsTyped, Places
  <1>4. redis' \in [Strategy -> Status] /\ used' \in [Events -> Nat]
    <2>1. CASE ReadRow(t) \/ ReadRows(t)
      BY <2>1 DEF ReadRow, ReadRows, TypeInv, StoresTyped, HistoryTyped, stores
    <2>2. CASE WriteRow(t)
      <3>1. [redis EXCEPT ![job[t]] = carry[t][job[t]]] \in [Strategy -> Status]
        BY <1>1 DEF TypeInv, StoresTyped
      <3>2. QED
        BY <2>2, <3>1, RedisTyped DEF WriteRow, TypeInv
    <2>3. CASE Replace(t)
      BY <1>1, <2>3, RedisTyped DEF Replace, TypeInv
    <2>4. QED
      BY <2>1, <2>2, <2>3 DEF Copy
  <1>5. QED
    BY <1>2, <1>3, <1>4
    DEF Copy, ReadRow, WriteRow, ReadRows, Replace, TypeInv, StoresTyped,
        ThreadsTyped, TasksTyped, HistoryTyped, stores, tasks, Made

LEMMA RecoverTyped == ASSUME TypeInv, Recover PROVE TypeInv'
  <1> USE Threads DEF Events, Trouble
  <1>1. CASE RecoverFromRedis \/ RecoverFromDB \/ RecoverDBFails
    <2>1. used' \in [Events -> Nat]
      BY <1>1, UseCounts
      DEF RecoverFromRedis, RecoverFromDB, RecoverDBFails, TypeInv, HistoryTyped
    <2>2. redis' \in [Strategy -> Status]
      BY <1>1
      DEF RecoverFromRedis, RecoverFromDB, RecoverDBFails, TypeInv, StoresTyped,
          stores
    <2>3. PICK S \in SUBSET Strategy : Recovering(S)
      BY <1>1
      DEF RecoverFromRedis, RecoverFromDB, RecoverDBFails, ActiveIn
    <2>4. todo' \subseteq Strategy /\ pc' \in [Thread -> Places]
      BY <2>3 DEF Recovering, Goto, TypeInv, ThreadsTyped, Places
    <2>5. QED
      BY <1>1, <2>1, <2>2, <2>4
      DEF RecoverFromRedis, RecoverFromDB, RecoverDBFails, TypeInv, StoresTyped,
          ThreadsTyped, TasksTyped, HistoryTyped, stores, tasks, Made
  <1>2. ASSUME NEW s \in Strategy, RecoverNext(s) PROVE TypeInv'
    <2>1. Start(Main, s)
      BY <1>2 DEF RecoverNext
    <2>2. QED
      BY <1>2, <2>1, StartTyped
      DEF RecoverNext, TypeInv, StoresTyped, ThreadsTyped, TasksTyped,
          HistoryTyped, stores
  <1>3. QED
    BY <1>1, <1>2 DEF Recover

-----------------------------------------------------------------------------
(***************************************************************************)
(* Plans.  A loop may only send another order while its plan has room; for *)
(* a DCA and an auto-scale the orders accepted are those counted and the   *)
(* one about to be, for a grid the levels filled and the one about to      *)
(* turn.  The ids of a pair of stops are kept only of a pair in place.     *)
(***************************************************************************)
OrderPlan(r) ==
  /\ r.loop # "trade"
  /\ r.net = r.count + (IF r.loop = "count" THEN 1 ELSE 0)
  /\ r.count <= TotalOrders
  /\ r.loop \in {"order", "scale", "count"} => r.count < TotalOrders

Turning(r) ==
  IF r.loop # "count" THEN 0 ELSE IF r.at \in r.filled THEN -1 ELSE 1

GridPlan(r) ==
  /\ r.loop \notin {"order", "scale", "protect", "failed", "finish"}
  /\ r.loop \in {"trade", "count"} => r.at \in Levels
  /\ r.net = Cardinality(r.filled) + Turning(r)

Known(r)   == IF r.known THEN 1 ELSE 0
StopPlan(r, errors) == Known(r) <= r.pairs /\ r.pairs <= errors + Known(r)

Plan(n, r) ==
  /\ IF kind[of[n]] = "grid" THEN GridPlan(r) ELSE OrderPlan(r)
  /\ StopPlan(r, used["error"])

PlanInv == \A n \in Made : Plan(n, run[n])

\* A set of naturals has a least element, so that Advance finds a level.
LEMMA LeastLevel ==
  ASSUME NEW A \in SUBSET Nat, A # {}
  PROVE  \E i \in A : \A j \in A : i <= j
  <1>1. PICK i \in A : \A j \in A : <<j, i>> \notin OpToRel(<, Nat)
    BY NatLessThanWellFounded, WFMin
  <1>2. \A j \in A : ~(j < i)
    BY <1>1 DEF OpToRel
  <1>3. QED
    BY <1>2

LEMMA AdvanceFacts ==
  ASSUME NEW r \in LoopState
  PROVE  \/ Advance(r) = [r EXCEPT !.loop = "select", !.at = 0, !.price = 0]
         \/ \E i \in Levels : Advance(r) = [r EXCEPT !.loop = "trade", !.at = i]
  <1> DEFINE A == {i \in Levels : i >= r.at /\ Wants(r, i)}
  <1>1. CASE A = {}
    BY <1>1 DEF Advance
  <1>2. CASE A # {}
    <2>1. A \subseteq Nat
      BY DEF Levels
    <2>2. \E i \in A : \A j \in A : i <= j
      BY <1>2, <2>1, LeastLevel
    <2>3. PICK i : i = CHOOSE k \in A : \A j \in A : k <= j
      OBVIOUS
    <2>4. i \in A
      BY <2>2, <2>3
    <2>5. Advance(r) = [r EXCEPT !.loop = "trade", !.at = i]
      BY <1>2, <2>3 DEF Advance
    <2>6. QED
      BY <2>4, <2>5
  <1>3. QED
    BY <1>1, <1>2

LEMMA LevelsFinite ==
  /\ IsFiniteSet(Levels) /\ Cardinality(Levels) = GridCount
  /\ \A F \in SUBSET Levels :
       IsFiniteSet(F) /\ Cardinality(F) \in Nat /\ Cardinality(F) <= GridCount
  <1>1. IsFiniteSet(Levels) /\ Cardinality(Levels) = GridCount
    BY FS_Interval, BoundsNat DEF Levels
  <1>2. QED
    BY <1>1, FS_Subset, FS_CardinalityType

\* A grid moves on to the next level that wants an order.
LEMMA GridAdvances ==
  ASSUME NEW r \in LoopState, r.net = Cardinality(r.filled)
  PROVE  /\ Advance(r) \in LoopState /\ GridPlan(Advance(r))
         /\ Advance(r).pairs = r.pairs /\ Advance(r).known = r.known
  <1>1. CASE Advance(r) = [r EXCEPT !.loop = "select", !.at = 0, !.price = 0]
    <2>1. "select" \in LoopPlaces
      BY DEF LoopPlaces
    <2>2. Advance(r) \in LoopState
      <3>1. 0 \in Nat
        OBVIOUS
      <3>2. [r EXCEPT !.loop = "select", !.at = 0, !.price = 0] \in LoopState
        BY <2>1, <3>1, LoopUpdates, Zenon
      <3>3. QED
        BY <1>1, <3>2
    <2>3. QED
      BY <1>1, <2>2 DEF LoopState, GridPlan, Turning
  <1>2. ASSUME NEW i \in Levels,
               Advance(r) = [r EXCEPT !.loop = "trade", !.at = i]
        PROVE  /\ Advance(r) \in LoopState /\ GridPlan(Advance(r))
               /\ Advance(r).pairs = r.pairs /\ Advance(r).known = r.known
    <2>1. "trade" \in LoopPlaces /\ i \in Nat
      BY DEF LoopPlaces, Levels
    <2>2. Advance(r) \in LoopState
      BY <1>2, <2>1 DEF LoopState
    <2>3. QED
      BY <1>2, <2>2 DEF LoopState, GridPlan, Turning
  <1>3. QED
    BY <1>1, <1>2, AdvanceFacts

\* A level that is sold is no longer filled, one that is bought is.
LEMMA TurnedFacts ==
  ASSUME NEW r \in LoopState, r.at \in Levels
  PROVE  /\ Turned(r) \in SUBSET Levels
         /\ Cardinality(Turned(r)) =
              Cardinality(r.filled) + (IF r.at \in r.filled THEN -1 ELSE 1)
  <1>1. r.filled \in SUBSET Levels
    BY DEF LoopState
  <1>2. IsFiniteSet(r.filled) /\ Cardinality(r.filled) \in Nat
    BY <1>1, LevelsFinite
  <1>3. CASE r.at \in r.filled
    <2>1. Cardinality(r.filled \ {r.at}) = Cardinality(r.filled) - 1
      BY <1>2, <1>3, FS_RemoveElement
    <2>2. QED
      BY <1>1, <1>2, <1>3, <2>1 DEF Turned
  <1>4. CASE r.at \notin r.filled
    <2>1. Cardinality(r.filled \cup {r.at}) = Cardinality(r.filled) + 1
      BY <1>2, <1>4, FS_AddElement
    <2>2. QED
      BY <1>1, <1>4, <2>1 DEF Turned
  <1>5. QED
    BY <1>3, <1>4

\* The stops after updateTPSLAfterScale.
LEMMA ReplacedFacts ==
  ASSUME NEW r \in LoopState, NEW errors \in Nat, NEW errors2 \in Nat,
         StopPlan(r, errors), NEW cancelled \in BOOLEAN,
         NEW placed \in {"both", "one", "none"},
         IF cancelled /\ placed = "both" THEN errors2 = errors
                                         ELSE errors2 = errors + 1
  PROVE  LET q == Replaced(r, cancelled, placed) IN
         /\ q \in LoopState /\ StopPlan(q, errors2)
         /\ q.loop = "select" /\ q.net = r.net /\ q.count = r.count
  <1> DEFINE k == IF r.known THEN 1 ELSE 0
             b == placed = "both" \/ (r.known /\ ~cancelled)
             p == r.pairs - (IF r.known /\ cancelled THEN 1 ELSE 0)
                          + (IF placed = "none" THEN 0 ELSE 1)
             q == [r EXCEPT !.loop = "select", !.pairs = p, !.known = b]
  <1>1. r.pairs \in Int /\ p \in Int /\ b \in BOOLEAN /\ k <= r.pairs
        /\ r.pairs <= errors + k /\ "select" \in LoopPlaces
    BY DEF LoopState, StopPlan, Known, LoopPlaces
  <1>2. (IF b THEN 1 ELSE 0) <= p /\ p <= errors2 + (IF b THEN 1 ELSE 0)
    BY <1>1
  <1>3. Replaced(r, cancelled, placed) = q
    BY DEF Replaced
  <1> HIDE DEF b, p, k
  <1>4. q \in LoopState
    BY <1>1 DEF LoopState
  <1>5. /\ q.pairs = p /\ q.known = b /\ q.loop = "select"
        /\ q.net = r.net /\ q.count = r.count
    BY DEF LoopState
  <1> HIDE DEF q
  <1>6. StopPlan(q, errors2)
    BY <1>2, <1>5 DEF StopPlan, Known
  <1>7. QED
    BY <1>3, <1>4, <1>5, <1>6

\* A loop that keeps its books, between two orders.
SameBooks(r, q) ==
  /\ q.net = r.net /\ q.count = r.count /\ q.filled = r.filled
  /\ q.pairs = r.pairs /\ q.known = r.known

LEMMA PlainStep ==
  ASSUME NEW r \in LoopState, NEW q \in LoopState, SameBooks(r, q),
         r.loop # "count"
  PROVE  /\ GridPlan(r) /\ q.loop \in {"select", "ending", "check", "close"}
              => GridPlan(q)
         /\ OrderPlan(r)
              /\ \/ q.loop \in {"select", "finish", "failed", "ending", "check",
                                "close"}
                 \/ q.loop \in {"order", "scale"} /\ r.count < TotalOrders
              => OrderPlan(q)
         /\ \A e : StopPlan(r, e) <=> StopPlan(q, e)
  BY DEF SameBooks, GridPlan, OrderPlan, StopPlan, Known, Turning

LEMMA GonePlan ==
  /\ Gone.loop = "gone" /\ GridPlan(Gone) /\ OrderPlan(Gone)
  /\ \A e \in Nat : StopPlan(Gone, e)
  <1>1. /\ Gone.loop = "gone" /\ Gone.net = 0 /\ Gone.count = 0
        /\ Gone.filled = {} /\ Gone.pairs = 0 /\ Gone.known = FALSE
    BY DEF Gone, Loop0
  <1>2. Cardinality({}) = 0
    BY FS_EmptySet
  <1>3. QED
    BY <1>1, <1>2, BoundsNat DEF GridPlan, OrderPlan, StopPlan, Known, Turning

\* What every step of a loop leaves alone, and what it may do to the counters.
LEMMA LoopFrame ==
  ASSUME TypeInv, NEW n \in Made, Loop(n)
  PROVE  /\ run' = [run EXCEPT ![n] = run'[n]] /\ Made' = Made
         /\ UNCHANGED <<kind, stores, lock, threads, task, of, wanted>>
         /\ active' \subseteq active /\ over' \subseteq Strategy
         /\ closes' \in [Task -> Nat] /\ used' \in [Events -> Nat]
         /\ \A e \in Events : used'[e] >= used[e]
  <1> USE DEF Events, Trouble
  <1>1. run' = [run EXCEPT ![n] = run'[n]]
    <2>1. n \in DOMAIN run
      BY DEF Made
    <2>2. \E q : run' = [run EXCEPT ![n] = q]
      BY DEF Loop, Work, Stopped, TickDCA, TickGrid, TickAutoScale, Accepted,
             Refused, Count, Protect, Failed, Finish, Ending, Check, Close,
             Deactivate, Step
    <2>3. QED
      BY <2>1, <2>2
  <1>2. Made' = Made
    BY <1>1 DEF Made
  <1>3. UNCHANGED <<kind, stores, lock, threads, task, of, wanted>>
    BY DEF Loop, Work, Stopped, TickDCA, TickGrid, TickAutoScale, Accepted,
           Refused, Count, Protect, Failed, Finish, Ending, Check, Close,
           Deactivate, Outside
  <1>4. active' \subseteq active /\ over' \subseteq Strategy
    <2>1. of[n] \in Strategy /\ over \subseteq Strategy
      BY MadeFacts DEF TypeInv, TasksTyped, HistoryTyped
    <2>2. \/ UNCHANGED <<active, over>>
          \/ active' = active \ {n} /\ over' \subseteq over \cup {of[n]}
      BY DEF Loop, Work, Stopped, TickDCA, TickGrid, TickAutoScale, Accepted,
             Refused, Count, Protect, Failed, Finish, Ending, Check, Close,
             Deactivate
    <2>3. QED
      BY <2>1, <2>2
  <1>5. closes' \in [Task -> Nat]
    <2>1. closes' = closes \/ closes' = [closes EXCEPT ![n] = closes[n] + 1]
      BY DEF Loop, Work, Stopped, TickDCA, TickGrid, TickAutoScale, Accepted,
             Refused, Count, Protect, Failed, Finish, Ending, Check, Close,
             Deactivate
    <2>2. QED
      BY <2>1, MadeFacts DEF TypeInv, TasksTyped
  <1>6. used' \in [Events -> Nat] /\ \A e \in Events : used'[e] >= used[e]
    <2>1. used' = used \/ Use("tick") \/ Use("error")
      BY DEF Loop, Work, Stopped, TickDCA, TickGrid, TickAutoScale, Accepted,
             Refused, Count, Protect, Failed, Finish, Ending, Check, Close,
             Deactivate, Ticks
    <2>2. used \in [Events -> Nat]
      BY DEF TypeInv, HistoryTyped
    <2>3. \A e \in Events : used[e] >= used[e]
      BY <2>2
    <2>4. CASE used' = used
      BY <2>2, <2>3, <2>4
    <2>5. CASE Use("tick") \/ Use("error")
      BY <2>2, <2>5, UseCounts
    <2>6. QED
      BY <2>1, <2>4, <2>5
  <1>7. QED
    BY <1>1, <1>2, <1>3, <1>4, <1>5, <1>6

Fits(n, r) == IF kind[of[n]] = "grid" THEN GridPlan(r) ELSE OrderPlan(r)

LEMMA MoreErrors ==
  ASSUME NEW r \in LoopState, NEW d \in Nat, NEW e \in Nat, d <= e,
         StopPlan(r, d)
  PROVE  StopPlan(r, e)
  BY DEF StopPlan, Known, LoopState

\* The steps that only move a loop on.
LEMMA MovesOn ==
  ASSUME TypeInv, PlanInv, NEW n \in Made,
         \/ Stopped(n) \/ Finish(n) \/ Ending(n) \/ Check(n) \/ Close(n)
         \/ TickDCA(n) \/ TickAutoScale(n) \/ Failed(n)
  PROVE  run'[n] \in LoopState /\ Fits(n, run'[n])
         /\ StopPlan(run'[n], used["error"])
  <1> DEFINE r == run[n]
  <1>1. /\ r \in LoopState /\ Fits(n, r) /\ StopPlan(r, used["error"])
        /\ n \in DOMAIN run /\ used["error"] \in Nat
    BY DEF TypeInv, TasksTyped, HistoryTyped, PlanInv, Plan, Made, Fits,
           Events, Trouble
  <1>2. ASSUME NEW l \in {"select", "check", "close", "gone"}, Step(n, l),
               r.loop # "count"
        PROVE  /\ run'[n] \in LoopState /\ Fits(n, run'[n])
               /\ StopPlan(run'[n], used["error"])
    <2>1. CASE l = "gone"
      BY <1>1, <1>2, <2>1, GonePlan, Loop0Typed DEF Step, Leave, Fits
    <2>2. CASE l # "gone"
      <3>1. run'[n] = [r EXCEPT !.loop = l] /\ l \in LoopPlaces
        BY <1>1, <1>2, <2>2 DEF Step, Leave, LoopPlaces
      <3>2. run'[n] \in LoopState /\ SameBooks(r, run'[n]) /\ run'[n].loop = l
        BY <1>1, <3>1 DEF LoopState, SameBooks
      <3>3. QED
        BY <1>1, <1>2, <2>2, <3>2, PlainStep DEF Fits
    <2>3. QED
      BY <2>1, <2>2
  <1>3. CASE Stopped(n) \/ Finish(n) \/ Ending(n) \/ Check(n) \/ Close(n)
    <2>1. r.then \in {"select", "gone"}
      BY <1>1 DEF LoopState
    <2>2. \E l \in {"select", "check", "close", "gone"} : Step(n, l)
      BY <1>3, <2>1 DEF Stopped, Finish, Ending, Check, Close, Deactivate
    <2>3. r.loop # "count"
      BY <1>3 DEF Stopped, Finish, Ending, Check, Close
    <2>4. QED
      BY <1>2, <2>2, <2>3
  <1>4. CASE TickDCA(n)
    <2>1. PICK l \in {"finish", "ending", "order"} :
            /\ l = "finish" <=> PlanDone(n)
            /\ run'[n] = [r EXCEPT !.loop = l, !.then = "gone", !.tries = 2]
      BY <1>1, <1>4 DEF TickDCA
    <2>2. /\ r.loop = "select" /\ kind[of[n]] = "dca" /\ l \in LoopPlaces
          /\ l = "order" => r.count < TotalOrders
      BY <1>1, <1>4, <2>1, BoundsNat
      DEF TickDCA, Ticks, PlanDone, LoopState, LoopPlaces
    <2>3. run'[n] \in LoopState /\ SameBooks(r, run'[n]) /\ run'[n].loop = l
      <3>1. run'[n] = [r EXCEPT !.loop = l, !.then = "gone", !.tries = 2]
        BY <2>1
      <3>2. 2 \in Int /\ "gone" \in {"select", "gone"}
        OBVIOUS
      <3>3. [r EXCEPT !.loop = l, !.then = "gone", !.tries = 2] \in LoopState
        BY <1>1, <2>2, <3>2, LoopUpdates, Zenon
      <3>4. QED
        BY <1>1, <3>1, <3>3 DEF LoopState, SameBooks
    <2>4. QED
      BY <1>1, <2>2, <2>3, PlainStep DEF Fits
  <1>5. CASE TickAutoScale(n)
    <2>1. PICK l \in {"finish", "scale"} :
            /\ PlanDone(n) => l = "finish"
            /\ run'[n] = [r EXCEPT !.loop = l]
      BY <1>1, <1>5 DEF TickAutoScale
    <2>2. /\ r.loop = "select" /\ kind[of[n]] = "autoscale" /\ l \in LoopPlaces
          /\ l = "scale" => r.count < TotalOrders
      BY <1>1, <1>5, <2>1, BoundsNat
      DEF TickAutoScale, Ticks, PlanDone, LoopState, LoopPlaces
    <2>3. run'[n] \in LoopState /\ SameBooks(r, run'[n]) /\ run'[n].loop = l
      BY <1>1, <2>1, <2>2 DEF LoopState, SameBooks
    <2>4. QED
      BY <1>1, <2>2, <2>3, PlainStep DEF Fits
  <1>6. CASE Failed(n)
    <2>1. PICK l \in {"select", "ending"} :
            run'[n] = [r EXCEPT !.tries = 0, !.fails = r.fails + 1,
                                !.then = "select", !.loop = l]
      <3> DEFINE l == IF r.fails + 1 >= MaxFailures THEN "ending" ELSE "select"
      <3>1. run' = [run EXCEPT ![n] =
                      [r EXCEPT !.tries = 0, !.fails = r.fails + 1,
                                !.then = "select", !.loop = l]]
        BY <1>6 DEF Failed
      <3>2. l \in {"select", "ending"}
        OBVIOUS
      <3> HIDE DEF l
      <3>3. QED
        BY <1>1, <3>1, <3>2
    <2>2. r.loop = "failed" /\ l \in LoopPlaces /\ kind[of[n]] # "grid"
      BY <1>1, <1>6 DEF Failed, LoopPlaces, Fits, GridPlan
    <2>3. run'[n] \in LoopState /\ SameBooks(r, run'[n]) /\ run'[n].loop = l
      <3>1. /\ r.fails + 1 \in Nat /\ 0 \in Int
            /\ "select" \in {"select", "gone"}
        BY <1>1 DEF LoopState
      <3>2. [r EXCEPT !.tries = 0, !.fails = r.fails + 1, !.then = "select",
                      !.loop = l] \in LoopState
        BY <1>1, <2>2, <3>1, LoopUpdates, Zenon
      <3>3. QED
        BY <1>1, <2>1, <3>2 DEF LoopState, SameBooks
    <2>4. QED
      BY <1>1, <2>2, <2>3, PlainStep DEF Fits
  <1>7. QED
    BY <1>3, <1>4, <1>5, <1>6

\* The price of a tick, and the next level.
LEMMA GridTicks ==
  ASSUME TypeInv, PlanInv, NEW n \in Made, TickGrid(n)
  PROVE  run'[n] \in LoopState /\ Fits(n, run'[n])
         /\ StopPlan(run'[n], used["error"])
  <1> DEFINE r == run[n]
  <1>1. /\ r \in LoopState /\ GridPlan(r) /\ StopPlan(r, used["error"])
        /\ n \in DOMAIN run /\ kind[of[n]] = "grid" /\ r.loop = "select"
    BY DEF TypeInv, TasksTyped, PlanInv, Plan, Made, TickGrid, Ticks
  <1>2. PICK p \in Prices :
          LET q == [r EXCEPT !.price = p, !.at = 1] IN
          run'[n] = IF p \in {0, 2 * GridCount + 1}
                    THEN [q EXCEPT !.loop = "ending", !.then = "select"]
                    ELSE Advance(q)
    BY <1>1 DEF TickGrid
  <1> DEFINE q == [r EXCEPT !.price = p, !.at = 1]
  <1>3. q \in LoopState /\ SameBooks(r, q) /\ q.loop = "select"
    <2>1. p \in Nat /\ 1 \in Nat
      BY BoundsNat DEF Prices
    <2>2. q \in LoopState
      BY <1>1, <2>1, LoopUpdates, Zenon
    <2>3. QED
      BY <1>1, <2>2 DEF LoopState, SameBooks
  <1>4. q.net = Cardinality(q.filled) /\ StopPlan(q, used["error"])
    <2>1. q.net = Cardinality(q.filled)
      <3>1. r.net = Cardinality(r.filled) + 0
        BY <1>1 DEF GridPlan, Turning
      <3>2. r.net = Cardinality(r.filled)
        BY <1>1, <3>1, LevelsFinite DEF LoopState
      <3>3. QED
        BY <1>3, <3>2 DEF SameBooks
    <2>2. QED
      BY <1>1, <1>3, <2>1, PlainStep
  <1>5. /\ run'[n] = [q EXCEPT !.loop = "ending", !.then = "select"]
           \/ run'[n] = Advance(q)
    BY <1>2
  <1> HIDE DEF q
  <1>6. CASE run'[n] = Advance(q)
    <2>1. /\ run'[n] \in LoopState /\ GridPlan(run'[n])
          /\ run'[n].pairs = q.pairs /\ run'[n].known = q.known
      BY <1>3, <1>4, <1>6, GridAdvances
    <2>2. QED
      BY <1>1, <1>4, <2>1 DEF Fits, StopPlan, Known
  <1>7. CASE run'[n] = [q EXCEPT !.loop = "ending", !.then = "select"]
    <2>1. "ending" \in LoopPlaces
      BY DEF LoopPlaces
    <2>2. run'[n] \in LoopState
      BY <1>3, <1>7, <2>1 DEF LoopState
    <2>3. SameBooks(q, run'[n]) /\ run'[n].loop = "ending"
      BY <1>3, <1>7 DEF LoopState, SameBooks
    <2>4. GridPlan(q)
      BY <1>1, <1>3, PlainStep
    <2>5. QED
      BY <1>1, <1>3, <1>4, <2>2, <2>3, <2>4, PlainStep DEF Fits
  <1>8. QED
    BY <1>5, <1>6, <1>7

\* An order accepted is on the plan: the loop had room for it.
LEMMA AcceptedFits ==
  ASSUME TypeInv, PlanInv, NEW n \in Made, Accepted(n)
  PROVE  run'[n] \in LoopState /\ Fits(n, run'[n])
         /\ StopPlan(run'[n], used["error"])
  <1> DEFINE r == run[n]
             x == IF r.loop = "trade" /\ r.at \in r.filled THEN r.net - 1
                                                           ELSE r.net + 1
             q == [r EXCEPT !.loop = "count", !.net = x]
  <1>1. /\ r \in LoopState /\ Fits(n, r) /\ StopPlan(r, used["error"])
        /\ n \in DOMAIN run
    BY DEF TypeInv, TasksTyped, PlanInv, Plan, Made, Fits
  <1>2. run'[n] = q /\ r.loop \in {"order", "scale", "trade"}
    BY <1>1 DEF Accepted
  <1>3. x \in Int /\ "count" \in LoopPlaces
    BY <1>1 DEF LoopState, LoopPlaces
  <1> HIDE DEF x
  <1>4. q \in LoopState
    BY <1>1, <1>3, LoopUpdates, Zenon
  <1>5. /\ q.loop = "count" /\ q.net = x /\ q.count = r.count /\ q.at = r.at
        /\ q.filled = r.filled /\ q.pairs = r.pairs /\ q.known = r.known
    BY <1>1 DEF LoopState
  <1> HIDE DEF q
  <1>6. Fits(n, q)
    <2>1. CASE kind[of[n]] = "grid"
      <3>1. GridPlan(r)
        BY <1>1, <2>1 DEF Fits
      <3>2. r.loop = "trade" /\ r.at \in Levels
        BY <1>2, <3>1 DEF GridPlan
      <3>3. r.net = Cardinality(r.filled)
        BY <1>1, <3>1, <3>2, LevelsFinite DEF GridPlan, Turning, LoopState
      <3>4. q.net = Cardinality(q.filled) + Turning(q)
        BY <1>1, <1>5, <3>2, <3>3 DEF Turning, LoopState, x
      <3>5. QED
        BY <1>5, <2>1, <3>2, <3>4 DEF Fits, GridPlan
    <2>2. CASE kind[of[n]] # "grid"
      <3>1. OrderPlan(r)
        BY <1>1, <2>2 DEF Fits
      <3>2. OrderPlan(q)
        BY <1>1, <1>2, <1>5, <3>1 DEF OrderPlan, LoopState, x
      <3>3. QED
        BY <2>2, <3>2 DEF Fits
    <2>3. QED
      BY <2>1, <2>2
  <1>7. QED
    BY <1>1, <1>2, <1>4, <1>5, <1>6 DEF StopPlan, Known

\* A refusal costs an attempt, or the level is left as it was.
LEMMA RefusedFits ==
  ASSUME TypeInv, PlanInv, NEW n \in Made, Refused(n)
  PROVE  run'[n] \in LoopState /\ Fits(n, run'[n])
         /\ StopPlan(run'[n], used["error"])
  <1> DEFINE r == run[n]
  <1>1. /\ r \in LoopState /\ Fits(n, r) /\ StopPlan(r, used["error"])
        /\ n \in DOMAIN run
    BY DEF TypeInv, TasksTyped, PlanInv, Plan, Made, Fits
  <1>2. r.loop \in {"order", "scale", "trade"}
    BY DEF Refused
  <1>3. CASE r.loop = "trade"
    <2> DEFINE q == [r EXCEPT !.at = r.at + 1]
    <2>1. run'[n] = Advance(q)
      BY <1>1, <1>3 DEF Refused
    <2>2. r.at + 1 \in Nat
      BY <1>1 DEF LoopState
    <2>3. q \in LoopState
      BY <1>1, <2>2, LoopUpdates, Zenon
    <2>4. SameBooks(r, q)
      BY <1>1 DEF LoopState, SameBooks
    <2> HIDE DEF q
    <2>5. kind[of[n]] = "grid" /\ GridPlan(r)
      BY <1>1, <1>3 DEF Fits, OrderPlan
    <2>6. q.net = Cardinality(q.filled)
      BY <1>1, <1>3, <2>4, <2>5, LevelsFinite
      DEF GridPlan, Turning, LoopState, SameBooks
    <2>7. /\ run'[n] \in LoopState /\ GridPlan(run'[n])
          /\ run'[n].pairs = q.pairs /\ run'[n].known = q.known
      BY <2>1, <2>3, <2>6, GridAdvances
    <2>8. QED
      BY <1>1, <2>4, <2>5, <2>7 DEF Fits, SameBooks, StopPlan, Known
  <1>4. ASSUME NEW l \in {"select", "failed", "order"},
               run'[n] \in LoopState, SameBooks(r, run'[n]), run'[n].loop = l,
               l = "order" => r.loop = "order", r.loop # "trade"
        PROVE  Fits(n, run'[n]) /\ StopPlan(run'[n], used["error"])
    <2>1. kind[of[n]] # "grid" /\ OrderPlan(r)
      BY <1>1, <1>2, <1>4 DEF Fits, GridPlan
    <2>2. r.loop # "count" /\ (l = "order" => r.count < TotalOrders)
      BY <1>2, <1>4, <2>1 DEF OrderPlan
    <2>3. QED
      BY <1>1, <1>4, <2>1, <2>2, PlainStep DEF Fits
  <1>5. CASE r.loop = "scale"
    <2>1. run'[n] = [r EXCEPT !.loop = "select"] /\ "select" \in LoopPlaces
      BY <1>1, <1>5 DEF Refused, LoopPlaces
    <2>2. /\ run'[n] \in LoopState /\ SameBooks(r, run'[n])
          /\ run'[n].loop = "select"
      BY <1>1, <2>1 DEF LoopState, SameBooks
    <2>3. QED
      BY <1>4, <1>5, <2>2
  <1>6. CASE r.loop = "order"
    <2> DEFINE l == IF r.tries = 1 THEN "failed" ELSE "order"
               q == [r EXCEPT !.tries = r.tries - 1, !.loop = l]
    <2>1. run'[n] = q
      BY <1>1, <1>6 DEF Refused
    <2>2. r.tries - 1 \in Int /\ l \in LoopPlaces /\ l \in {"failed", "order"}
      BY <1>1 DEF LoopState, LoopPlaces
    <2> HIDE DEF l
    <2>3. q \in LoopState
      BY <1>1, <2>2, LoopUpdates, Zenon
    <2>4. SameBooks(r, q) /\ q.loop = l
      BY <1>1 DEF LoopState, SameBooks
    <2>5. QED
      BY <1>4, <1>6, <2>1, <2>2, <2>3, <2>4
  <1>7. QED
    BY <1>2, <1>3, <1>5, <1>6

\* The book-keeping of an accepted order.
LEMMA CountFits ==
  ASSUME TypeInv, PlanInv, NEW n \in Made, Count(n)
  PROVE  run'[n] \in LoopState /\ Fits(n, run'[n])
         /\ StopPlan(run'[n], used["error"])
  <1> DEFINE r == run[n]
  <1>1. /\ r \in LoopState /\ Fits(n, r) /\ StopPlan(r, used["error"])
        /\ n \in DOMAIN run /\ r.loop = "count" /\ kind[of[n]] \in Kinds
    BY MadeFacts
    DEF TypeInv, StoresTyped, TasksTyped, PlanInv, Plan, Made, Fits, Count
  <1>2. CASE kind[of[n]] = "grid"
    <2> DEFINE q == [r EXCEPT !.filled = Turned(r), !.at = r.at + 1]
    <2>1. run'[n] = Advance(q)
      BY <1>1, <1>2 DEF Count
    <2>2. GridPlan(r) /\ r.at \in Levels
      BY <1>1, <1>2 DEF Fits, GridPlan
    <2>3. /\ Turned(r) \in SUBSET Levels /\ r.at + 1 \in Nat
          /\ r.net = Cardinality(Turned(r))
      <3>1. r.at + 1 \in Nat
        BY <1>1 DEF LoopState
      <3>2. QED
        BY <1>1, <2>2, <3>1, TurnedFacts DEF GridPlan, Turning
    <2>4. q \in LoopState
      BY <1>1, <2>3, LoopUpdates, Zenon
    <2>5. /\ q.filled = Turned(r) /\ q.net = r.net
          /\ q.pairs = r.pairs /\ q.known = r.known
      BY <1>1 DEF LoopState
    <2> HIDE DEF q
    <2>6. /\ run'[n] \in LoopState /\ GridPlan(run'[n])
          /\ run'[n].pairs = q.pairs /\ run'[n].known = q.known
      BY <2>1, <2>3, <2>4, <2>5, GridAdvances
    <2>7. QED
      BY <1>1, <1>2, <2>5, <2>6 DEF Fits, StopPlan, Known
  <1>3. ASSUME NEW q \in LoopState, run'[n] = q, kind[of[n]] # "grid",
               q.loop \in {"select", "protect"}, q.count = r.count + 1,
               q.net = r.net, q.pairs = r.pairs, q.known = r.known
        PROVE  Fits(n, q) /\ StopPlan(q, used["error"])
    <2>1. OrderPlan(r) /\ r.count \in Nat /\ r.count < TotalOrders
      BY <1>1, <1>3 DEF Fits, OrderPlan, LoopState
    <2>2. OrderPlan(q)
      BY <1>1, <1>3, <2>1, BoundsNat DEF OrderPlan
    <2>3. QED
      BY <1>1, <1>3, <2>2 DEF Fits, StopPlan, Known
  <1>4. r.count + 1 \in Nat /\ 0 \in Int /\ 0 \in Nat
    BY <1>1 DEF LoopState
  <1>5. CASE kind[of[n]] = "dca"
    <2> DEFINE q == [r EXCEPT !.loop = "select", !.tries = 0,
                              !.count = r.count + 1, !.fails = 0]
    <2>1. run'[n] = q /\ "select" \in LoopPlaces
      BY <1>1, <1>5 DEF Count, LoopPlaces
    <2>2. q \in LoopState
      BY <1>1, <1>4, <2>1, LoopUpdates, Zenon
    <2>3. /\ q.loop = "select" /\ q.count = r.count + 1 /\ q.net = r.net
          /\ q.pairs = r.pairs /\ q.known = r.known
      BY <1>1 DEF LoopState
    <2> HIDE DEF q
    <2>4. QED
      BY <1>3, <1>5, <2>1, <2>2, <2>3
  <1>6. CASE kind[of[n]] = "autoscale"
    <2> DEFINE q == [r EXCEPT !.loop = "protect", !.count = r.count + 1]
    <2>1. run'[n] = q /\ "protect" \in LoopPlaces
      BY <1>1, <1>6 DEF Count, LoopPlaces
    <2>2. q \in LoopState
      BY <1>1, <1>4, <2>1, LoopUpdates, Zenon
    <2>3. /\ q.loop = "protect" /\ q.count = r.count + 1 /\ q.net = r.net
          /\ q.pairs = r.pairs /\ q.known = r.known
      BY <1>1 DEF LoopState
    <2> HIDE DEF q
    <2>4. QED
      BY <1>3, <1>6, <2>1, <2>2, <2>3
  <1>7. QED
    BY <1>1, <1>2, <1>5, <1>6 DEF Kinds

\* A new pair of stops, whole or in part.
LEMMA ProtectFits ==
  ASSUME TypeInv, PlanInv, NEW n \in Made, Protect(n)
  PROVE  run'[n] \in LoopState /\ Fits(n, run'[n])
         /\ StopPlan(run'[n], used'["error"])
  <1> DEFINE r == run[n]
  <1>1. /\ r \in LoopState /\ Fits(n, r) /\ StopPlan(r, used["error"])
        /\ n \in DOMAIN run /\ r.loop = "protect" /\ used["error"] \in Nat
        /\ "error" \in Events /\ used \in [Events -> Nat]
    BY DEF TypeInv, TasksTyped, HistoryTyped, PlanInv, Plan, Made, Fits, Protect,
           Events, Trouble
  <1>2. PICK cancelled \in BOOLEAN, placed \in {"both", "one", "none"} :
          /\ run' = [run EXCEPT ![n] = Replaced(r, cancelled, placed)]
          /\ IF cancelled /\ placed = "both" THEN UNCHANGED used ELSE Use("error")
    BY DEF Protect
  <1>3. /\ IF cancelled /\ placed = "both"
           THEN used'["error"] = used["error"]
           ELSE used'["error"] = used["error"] + 1
        /\ used'["error"] \in Nat
    BY <1>1, <1>2, UseCounts
  <1>4. LET q == Replaced(r, cancelled, placed) IN
        /\ q \in LoopState /\ StopPlan(q, used'["error"])
        /\ q.loop = "select" /\ q.net = r.net /\ q.count = r.count
    BY <1>1, <1>3, ReplacedFacts
  <1>5. kind[of[n]] # "grid" /\ OrderPlan(r)
    BY <1>1 DEF Fits, GridPlan
  <1>6. QED
    BY <1>1, <1>2, <1>4, <1>5 DEF Fits, OrderPlan

LEMMA LoopFits ==
  ASSUME TypeInv, PlanInv, NEW n \in Made, Loop(n)
  PROVE  run'[n] \in LoopState /\ Fits(n, run'[n])
         /\ StopPlan(run'[n], used'["error"])
  <1>1. /\ used["error"] \in Nat /\ used'["error"] \in Nat
        /\ used["error"] <= used'["error"]
    <2>1. "error" \in Events
      BY DEF Events, Trouble
    <2>2. QED
      BY <2>1, LoopFrame DEF TypeInv, HistoryTyped
  <1>2. CASE Protect(n)
    BY <1>2, ProtectFits
  <1>3. CASE ~Protect(n)
    <2>1. run'[n] \in LoopState /\ Fits(n, run'[n])
          /\ StopPlan(run'[n], used["error"])
      BY <1>3, MovesOn, GridTicks, AcceptedFits, RefusedFits, CountFits
      DEF Loop, Work
    <2>2. QED
      BY <1>1, <2>1, MoreErrors
  <1>4. QED
    BY <1>2, <1>3

LEMMA LoopKeeps ==
  ASSUME TypeInv, PlanInv, NEW n \in Made, Loop(n) PROVE TypeInv' /\ PlanInv'
  <1>1. /\ run' = [run EXCEPT ![n] = run'[n]] /\ Made' = Made
        /\ UNCHANGED <<kind, stores, lock, threads, task, of, wanted>>
        /\ active' \subseteq active /\ over' \subseteq Strategy
        /\ closes' \in [Task -> Nat] /\ used' \in [Events -> Nat]
        /\ \A e \in Events : used'[e] >= used[e]
    BY LoopFrame
  <1>2. /\ run'[n] \in LoopState /\ Fits(n, run'[n])
        /\ StopPlan(run'[n], used'["error"])
    BY LoopFits
  <1>3. run \in [Made -> LoopState] /\ run' \in [Made -> LoopState]
    <2>1. run \in [Made -> LoopState]
      BY DEF TypeInv, TasksTyped
    <2>2. QED
      BY <1>1, <1>2, <2>1
  <1>4. TypeInv'
    BY <1>1, <1>3
    DEF TypeInv, StoresTyped, ThreadsTyped, TasksTyped, HistoryTyped, stores,
        threads
  <1>5. ASSUME NEW m \in Made PROVE Plan(m, run[m])'
    <2>1. CASE m = n
      BY <1>1, <1>2, <2>1 DEF Plan, Fits
    <2>2. CASE m # n
      <3>1. run'[m] = run[m] /\ run[m] \in LoopState
        BY <1>1, <1>3, <2>2
      <3>2. /\ used["error"] \in Nat /\ used'["error"] \in Nat
            /\ used["error"] <= used'["error"]
        <4>1. "error" \in Events
          BY DEF Events, Trouble
        <4>2. QED
          BY <1>1, <4>1 DEF TypeInv, HistoryTyped
      <3>3. Plan(m, run[m])
        BY DEF PlanInv
      <3>4. StopPlan(run[m], used'["error"])
        BY <3>1, <3>2, <3>3, MoreErrors DEF Plan
      <3>5. QED
        BY <1>1, <3>1, <3>3, <3>4 DEF Plan
    <2>3. QED
      BY <2>1, <2>2
  <1>6. QED
    BY <1>1, <1>4, <1>5 DEF PlanInv

\* A step that changes no task, except that it may end or add one.
LEMMA PlanElsewhere ==
  ASSUME TypeInv, PlanInv, kind' = kind, used' \in [Events -> Nat],
         used'["error"] >= used["error"],
         \A m \in Made : run'[m] = run[m] /\ of'[m] = of[m],
         \A m \in Made' \ Made :
           run'[m] = Loop0 \/ (run'[m] = NewDCA /\ kind[of'[m]] # "grid")
  PROVE  PlanInv'
  <1>1. /\ used["error"] \in Nat /\ used'["error"] \in Nat
        /\ "error" \in Events
    BY DEF TypeInv, HistoryTyped, Events, Trouble
  <1>2. ASSUME NEW m \in Made PROVE Plan(m, run[m])'
    <2>1. run[m] \in LoopState /\ Plan(m, run[m])
      BY DEF TypeInv, TasksTyped, PlanInv
    <2>2. StopPlan(run[m], used'["error"])
      BY <1>1, <2>1, MoreErrors DEF Plan
    <2>3. QED
      BY <2>1, <2>2 DEF Plan
  <1>3. ASSUME NEW m \in Made' \ Made PROVE Plan(m, run[m])'
    <2>1. Cardinality({}) = 0
      BY FS_EmptySet
    <2>2. CASE run'[m] = Loop0
      <3>1. GridPlan(Loop0) /\ OrderPlan(Loop0) /\ StopPlan(Loop0, used'["error"])
        BY <1>1, <2>1, BoundsNat
        DEF Loop0, GridPlan, OrderPlan, StopPlan, Known, Turning
      <3>2. QED
        BY <2>2, <3>1 DEF Plan
    <2>3. CASE run'[m] = NewDCA /\ kind[of'[m]] # "grid"
      <3>1. /\ NewDCA.loop = "order" /\ NewDCA.net = 0 /\ NewDCA.count = 0
            /\ NewDCA.pairs = 0 /\ NewDCA.known = FALSE
        BY DEF NewDCA, Loop0
      <3>2. OrderPlan(NewDCA) /\ StopPlan(NewDCA, used'["error"])
        BY <1>1, <3>1, PlanAssumption DEF OrderPlan, StopPlan, Known
      <3>3. QED
        BY <2>3, <3>2 DEF Plan
    <2>4. QED
      BY <2>2, <2>3
  <1>4. QED
    BY <1>2, <1>3 DEF PlanInv

LEMMA CrashTyped == ASSUME TypeInv, Crash PROVE TypeInv' /\ PlanInv'
  <1>1. used' \in [Events -> Nat]
    BY UseCounts DEF Crash, TypeInv, HistoryTyped, Events, Trouble
  <1>2. ThreadsTyped'
    <2>1. /\ lock' \in [Kinds -> Thread \cup {Free}]
          /\ carry' \in [Thread -> [Strategy -> Status]]
      BY NoRowsTyped DEF Crash
    <2>2. pc' \in [Thread -> Places]
      BY DEF Crash, Places
    <2>3. again' \in [Thread -> BOOLEAN]
      BY DEF Crash
    <2>4. job' \in [Thread -> Strategy] /\ todo' \subseteq Strategy
      BY DEF Crash, TypeInv, ThreadsTyped
    <2>5. QED
      BY <2>1, <2>2, <2>3, <2>4 DEF ThreadsTyped
  <1>3. Made' = {} /\ run' \in [{} -> LoopState]
    BY DEF Crash, Made
  <1>4. TasksTyped'
    <2>1. {} = 1 .. 0 /\ 0 \in 0 .. MaxTask
      BY BoundsNat
    <2>2. Made' \in {1 .. n : n \in 0 .. MaxTask}
      BY <1>3, <2>1
    <2>3. (CHOOSE s \in Strategy : TRUE) \in Strategy
      BY StrategyAssumption
    <2>4. QED
      BY <1>3, <2>2, <2>3 DEF Crash, TasksTyped, NoTask, Unused, Unclosed
  <1>5. QED
    BY <1>1, <1>2, <1>3, <1>4
    DEF TypeInv, Crash, StoresTyped, HistoryTyped, PlanInv

LEMMA InitTyped == Init => TypeInv /\ PlanInv
  <1> SUFFICES ASSUME Init PROVE TypeInv /\ PlanInv
    OBVIOUS
  <1>1. (CHOOSE s \in Strategy : TRUE) \in Strategy
    BY StrategyAssumption
  <1>2. Made = {} /\ run \in [{} -> LoopState]
    BY DEF Init, Made
  <1>3. ThreadsTyped
    <2>1. /\ lock \in [Kinds -> Thread \cup {Free}]
          /\ carry \in [Thread -> [Strategy -> Status]]
      BY NoRowsTyped DEF Init
    <2>2. pc \in [Thread -> Places]
      BY DEF Init, Places
    <2>3. again \in [Thread -> BOOLEAN]
      BY DEF Init
    <2>4. job \in [Thread -> Strategy] /\ todo \subseteq Strategy
      BY <1>1 DEF Init
    <2>5. QED
      BY <2>1, <2>2, <2>3, <2>4 DEF ThreadsTyped
  <1>4. TasksTyped
    <2>1. {} = 1 .. 0 /\ 0 \in 0 .. MaxTask
      BY BoundsNat
    <2>2. Made \in {1 .. n : n \in 0 .. MaxTask}
      BY <1>2, <2>1
    <2>3. QED
      BY <1>1, <1>2, <2>2 DEF Init, TasksTyped, NoTask, Unused, Unclosed
  <1>5. StoresTyped /\ HistoryTyped
    BY NoRowsTyped DEF Init, StoresTyped, HistoryTyped
  <1>6. QED
    BY <1>2, <1>3, <1>4, <1>5 DEF TypeInv, PlanInv

\* The threads count events, and never take one back.
LEMMA ThreadCounts ==
  ASSUME TypeInv, NEW t \in Thread, Proceed(t) \/ Request(t)
  PROVE  /\ kind' = kind /\ used' \in [Events -> Nat]
         /\ \A e \in Events : used'[e] >= used[e]
  <1>1. kind' = kind
    BY DEF Proceed, Record, SaveDB, SaveRedis, MarkDB, MarkRedis, ReadRow,
           WriteRow, ReadRows, Replace, Recover, RecoverFromRedis, RecoverFromDB,
           RecoverDBFails, RecoverNext, Request, AskStart, AskStop, AskRetire,
           AskSync, AskList
  <1>2. used' = used \/ \E e \in Events : Use(e)
    <2> USE DEF Events, Trouble
    <2>1. CASE Record(t) \/ Copy(t)
      BY <2>1
      DEF Record, SaveDB, SaveRedis, MarkDB, MarkRedis, Copy, ReadRow, WriteRow,
          ReadRows, Replace, Redis
    <2>2. CASE Recover
      BY <2>2
      DEF Recover, RecoverFromRedis, RecoverFromDB, RecoverDBFails, RecoverNext
    <2>3. CASE Request(t)
      <3>1. ASSUME NEW s \in Strategy, NEW retire \in BOOLEAN,
                   AskStop(t, s, retire)
            PROVE  Use("admin") \/ Use("call")
        BY <3>1 DEF AskStop
      <3>2. QED
        BY <2>3, <3>1 DEF Request, AskStart, AskRetire, AskSync, AskList
    <2>4. QED
      BY <2>1, <2>2, <2>3 DEF Proceed, Copy
  <1>3. used \in [Events -> Nat]
    BY DEF TypeInv, HistoryTyped
  <1>4. \A e \in Events : used[e] >= used[e]
    BY <1>3
  <1>5. QED
    BY <1>1, <1>2, <1>3, <1>4, UseCounts

\* Only a start touches a task's loop.
LEMMA NoStart ==
  ASSUME NEW t \in Thread, Proceed(t) \/ Request(t)
  PROVE  \/ UNCHANGED <<task, of, run>>
         \/ \E s \in Strategy : Start(t, s)
  BY DEF Proceed, Record, SaveDB, SaveRedis, MarkDB, MarkRedis, ReadRow, WriteRow,
         ReadRows, Replace, Recover, RecoverFromRedis, RecoverFromDB,
         RecoverDBFails, RecoverNext, Request, AskStart, AskStop, AskRetire,
         AskSync, AskList, tasks

LEMMA ThreadKeeps ==
  ASSUME TypeInv, PlanInv, NEW t \in Thread, Proceed(t) \/ Request(t)
  PROVE  TypeInv' /\ PlanInv'
  <1>1. TypeInv'
    BY RecordTyped, CopyTyped, RecoverTyped, RequestTyped, Threads
    DEF Proceed, Copy
  <1>2. "error" \in Events
    BY DEF Events, Trouble
  <1>3. CASE UNCHANGED <<task, of, run>>
    <2>1. \A m \in Made : run'[m] = run[m] /\ of'[m] = of[m]
      BY <1>3
    <2>2. Made' \ Made = {}
      BY <1>3 DEF Made
    <2>3. QED
      BY <1>1, <1>2, <2>1, <2>2, ThreadCounts, PlanElsewhere
  <1>4. ASSUME NEW s \in Strategy, Start(t, s) PROVE PlanInv'
    <2> DEFINE n == Cardinality(Made) + 1
    <2>1. n \in Task \ Made /\ Made' = Made \cup {n}
      BY <1>4, StartTyped
    <2>2. /\ run' = [m \in Made \cup {n} |->
                       IF m = n THEN NewTask(kind[s]) ELSE run[m]]
          /\ of' = [of EXCEPT ![n] = s]
      BY <1>4 DEF Start
    <2> HIDE DEF n
    <2>3. \A m \in Made : run'[m] = run[m] /\ of'[m] = of[m]
      BY <2>1, <2>2, MadeFacts DEF TypeInv, TasksTyped
    <2>4. run'[n] = NewTask(kind[s]) /\ of'[n] = s /\ kind[s] \in Kinds
      BY <2>1, <2>2 DEF TypeInv, TasksTyped, StoresTyped
    <2>5. run'[n] = Loop0 \/ (run'[n] = NewDCA /\ kind[of'[n]] # "grid")
      BY <2>4 DEF NewTask, NewGrid, NewAutoScale, Kinds
    <2>6. QED
      BY <1>2, <2>1, <2>3, <2>5, ThreadCounts, PlanElsewhere
  <1>5. QED
    BY <1>1, <1>3, <1>4, NoStart

LEMMA Keeps ==
  TypeInv /\ PlanInv /\ [Next]_vars => TypeInv' /\ PlanInv'
  <1> SUFFICES ASSUME TypeInv, PlanInv, [Next]_vars PROVE TypeInv' /\ PlanInv'
    OBVIOUS
  <1>1. CASE Crash
    BY <1>1, CrashTyped
  <1>2. ASSUME NEW t \in Thread, Proceed(t) \/ Request(t)
        PROVE  TypeInv' /\ PlanInv'
    BY <1>2, ThreadKeeps
  <1>3. ASSUME NEW n \in Made, Loop(n) PROVE TypeInv' /\ PlanInv'
    BY <1>3, LoopKeeps
  <1>4. CASE UNCHANGED vars
    <2> USE <1>4 DEF vars, stores, threads, tasks
    <2>1. TypeInv'
      BY DEF TypeInv, StoresTyped, ThreadsTyped, TasksTyped, HistoryTyped, Made
    <2>2. PlanInv'
      BY DEF PlanInv, Plan, Made
    <2>3. QED
      BY <2>1, <2>2
  <1>5. QED
    BY <1>1, <1>2, <1>3, <1>4, Threads DEF Next

LEMMA Kept == Spec => [](TypeInv /\ PlanInv)
  BY InitTyped, Keeps, PTL DEF Spec

\* No task has ever sold more than it bought or cancelled more stops than it
\* placed, whatever fails: those fields are naturals.
THEOREM TypeCorrect == Spec => []TypeOK
  <1>1. TypeInv /\ PlanInv => TypeOK
    <2> SUFFICES ASSUME TypeInv, PlanInv PROVE TypeOK
      OBVIOUS
    <2>1. ASSUME NEW n \in Made
          PROVE  /\ run[n].loop \in LoopPlaces
                 /\ run[n].then \in {"select", "gone"}
                 /\ run[n].filled \subseteq Levels
                 /\ run[n].count \in Nat /\ run[n].net \in Nat
                 /\ run[n].pairs \in Nat
      <3> DEFINE r == run[n]
      <3>1. r \in LoopState /\ Fits(n, r) /\ StopPlan(r, used["error"])
        BY DEF TypeInv, TasksTyped, PlanInv, Plan, Fits
      <3>2. /\ r.filled \subseteq Levels /\ r.count \in Nat /\ r.net \in Int
            /\ r.pairs \in Int
        BY <3>1 DEF LoopState
      <3>3. IsFiniteSet(r.filled) /\ Cardinality(r.filled) \in Nat
        BY <3>2, LevelsFinite
      <3>4. r.at \in r.filled => Cardinality(r.filled) # 0
        BY <3>3, FS_EmptySet
      <3>5. r.net \in Nat
        BY <3>1, <3>2, <3>3, <3>4 DEF Fits, GridPlan, OrderPlan, Turning
      <3>6. r.pairs \in Nat
        BY <3>1, <3>2 DEF StopPlan, Known
      <3>7. QED
        BY <3>1, <3>2, <3>5, <3>6 DEF LoopState
    <2>2. QED
      BY <2>1
      DEF TypeInv, StoresTyped, ThreadsTyped, TasksTyped, HistoryTyped, TypeOK
  <1>2. QED
    BY <1>1, Kept, PTL

\* A DCA and an auto-scale never buy more than their number of orders, a grid
\* never more than one order per level, and an auto-scale leaves at most one
\* pair of stops, and one more for each request that failed.
THEOREM TasksFitPlans == Spec => []PlansFit
  <1>1. TypeInv /\ PlanInv => PlansFit
    <2> SUFFICES ASSUME TypeInv, PlanInv, NEW n \in Made
                 PROVE  /\ kind[of[n]] # "grid" => run[n].net <= TotalOrders
                        /\ kind[of[n]] = "grid" =>
                             /\ run[n].net <= GridCount
                             /\ run[n].loop # "count" =>
                                  run[n].net = Cardinality(run[n].filled)
                        /\ run[n].pairs <= 1 + used["error"]
      BY DEF PlansFit, OrdersFitPlan, PairsBounded
    <2> DEFINE r == run[n]
    <2>1. /\ r \in LoopState /\ Fits(n, r) /\ StopPlan(r, used["error"])
          /\ used["error"] \in Nat
      BY DEF TypeInv, TasksTyped, HistoryTyped, PlanInv, Plan, Fits, Events,
             Trouble
    <2>2. r.filled \in SUBSET Levels /\ r.count \in Nat /\ r.pairs \in Int
      BY <2>1 DEF LoopState
    <2>3. /\ Cardinality(r.filled) \in Nat /\ Cardinality(r.filled) <= GridCount
          /\ GridCount \in Nat /\ TotalOrders \in Nat
      BY <2>2, LevelsFinite, BoundsNat
    <2>4. r.pairs <= 1 + used["error"]
      BY <2>1, <2>2 DEF StopPlan, Known
    <2>5. CASE kind[of[n]] # "grid"
      BY <2>1, <2>2, <2>3, <2>4, <2>5 DEF Fits, OrderPlan
    <2>6. CASE kind[of[n]] = "grid"
      <3>1. GridPlan(r)
        BY <2>1, <2>6 DEF Fits
      <3>2. r.loop = "count" /\ r.at \notin r.filled =>
              Cardinality(r.filled) + 1 <= GridCount
        <4>1. SUFFICES ASSUME r.loop = "count", r.at \notin r.filled
                       PROVE  Cardinality(r.filled) + 1 <= GridCount
          OBVIOUS
        <4>2. r.at \in Levels /\ r.filled \cup {r.at} \in SUBSET Levels
          BY <2>2, <3>1, <4>1 DEF GridPlan
        <4>3. /\ Cardinality(r.filled \cup {r.at}) = Cardinality(r.filled) + 1
              /\ Cardinality(r.filled \cup {r.at}) <= GridCount
          BY <2>2, <4>1, <4>2, LevelsFinite, FS_AddElement
        <4>4. QED
          BY <4>3
      <3>3. QED
        BY <2>3, <2>4, <2>6, <3>1, <3>2 DEF GridPlan, Turning
    <2>7. QED
      BY <2>5, <2>6
  <1>2. QED
    BY <1>1, Kept, PTL

-----------------------------------------------------------------------------
(***************************************************************************)
(* Loops in hand.  Who closes a stop channel: StopX, which then has taken  *)
(* the task out of Active, or the loop, which clears Active first and then *)
(* looks.  Between its look and its close no StopX can come, because the   *)
(* task is no longer active.                                               *)
(***************************************************************************)
Past == {"check", "close", "gone"}   \* places of a loop that gave up Active

Hand(n) ==
  IF n \in active
  THEN task[of[n]] = n /\ closes[n] = 0 /\ run[n].loop \notin Past
  ELSE /\ Closed(n) \/ run[n].loop \in Past
       /\ run[n].loop = "close" => closes[n] = 0

HandInv ==
  /\ \A n \in Task : closes[n] <= 1
  /\ \A n \in Task \ Made : closes[n] = 0
  /\ \A s \in Strategy : task[s] # 0 => of[task[s]] = s
  /\ \A n \in Made : Hand(n)

LEMMA AdvancePlace ==
  ASSUME NEW r \in LoopState PROVE Advance(r).loop \in {"select", "trade"}
  <1>1. CASE Advance(r) = [r EXCEPT !.loop = "select", !.at = 0, !.price = 0]
    BY <1>1 DEF LoopState
  <1>2. CASE \E i \in Levels : Advance(r) = [r EXCEPT !.loop = "trade", !.at = i]
    BY <1>2 DEF LoopState
  <1>3. QED
    BY <1>1, <1>2, AdvanceFacts

\* A loop at work is not past its task, and leaves the task alone.
AtWork(n) ==
  \/ TickDCA(n) \/ TickGrid(n) \/ TickAutoScale(n) \/ Accepted(n) \/ Refused(n)
  \/ Count(n) \/ Protect(n) \/ Failed(n)

LEMMA WorkPlaces ==
  ASSUME TypeInv, PlanInv, NEW n \in Made, AtWork(n)
  PROVE  /\ run[n].loop \notin Past /\ run'[n].loop \notin Past
         /\ UNCHANGED <<active, closes, over>>
  <1> DEFINE r == run[n]
  <1>1. /\ UNCHANGED <<active, closes, over>> /\ r.loop \notin Past
        /\ r \in LoopState /\ n \in DOMAIN run /\ kind[of[n]] \in Kinds
    BY MadeFacts
    DEF AtWork, TickDCA, TickGrid, TickAutoScale, Accepted, Refused, Count,
        Protect, Failed, Ticks, Past, TypeInv, TasksTyped, StoresTyped, Made
  <1>2. CASE TickDCA(n) \/ TickAutoScale(n) \/ Accepted(n)
    BY <1>1, <1>2, ZenonT(60) DEF TickDCA, TickAutoScale, Accepted, Past, LoopState
  <1>a. CASE Failed(n)
    <2>1. run'[n].loop \in {"ending", "select"}
      BY <1>1, <1>a DEF Failed, LoopState
    <2>2. QED
      BY <1>1, <2>1 DEF Past
  <1>3. CASE Protect(n)
    <2>1. run'[n].loop = "select"
      <3>1. PICK cancelled \in BOOLEAN, placed \in {"both", "one", "none"} :
              run' = [run EXCEPT ![n] = Replaced(r, cancelled, placed)]
        BY <1>3 DEF Protect
      <3>2. run'[n] = Replaced(r, cancelled, placed)
        BY <1>1, <3>1
      <3>3. Replaced(r, cancelled, placed).loop = "select"
        BY <1>1 DEF Replaced, LoopState
      <3>4. QED
        BY <3>2, <3>3
    <2>2. QED
      BY <1>1, <2>1 DEF Past
  <1>4. CASE TickGrid(n)
    <2>1. PICK p \in Prices :
            LET q == [r EXCEPT !.price = p, !.at = 1] IN
            \/ run'[n] = [q EXCEPT !.loop = "ending", !.then = "select"]
            \/ run'[n] = Advance(q)
      BY <1>1, <1>4 DEF TickGrid
    <2> DEFINE q == [r EXCEPT !.price = p, !.at = 1]
    <2>2. q \in LoopState
      <3>1. p \in Nat /\ 1 \in Nat
        BY BoundsNat DEF Prices
      <3>2. QED
        BY <1>1, <3>1, LoopUpdates, Zenon
    <2>3. \/ run'[n] = [q EXCEPT !.loop = "ending", !.then = "select"]
          \/ run'[n] = Advance(q)
      BY <2>1
    <2> HIDE DEF q
    <2>4. run'[n].loop \in {"ending", "select", "trade"}
      BY <2>2, <2>3, AdvancePlace DEF LoopState
    <2>5. QED
      BY <1>1, <2>4 DEF Past
  <1>5. CASE Refused(n)
    <2>1. CASE r.loop = "trade"
      <3> DEFINE q == [r EXCEPT !.at = r.at + 1]
      <3>1. run'[n] = Advance(q)
        BY <1>1, <1>5, <2>1 DEF Refused
      <3>2. r.at + 1 \in Nat
        BY <1>1 DEF LoopState
      <3>3. q \in LoopState
        BY <1>1, <3>2, LoopUpdates, Zenon
      <3> HIDE DEF q
      <3>4. QED
        BY <1>1, <3>1, <3>3, AdvancePlace DEF Past
    <2>2. CASE r.loop = "scale"
      BY <1>1, <1>5, <2>2 DEF Refused, Past, LoopState
    <2>3. CASE r.loop = "order"
      BY <1>1, <1>5, <2>3 DEF Refused, Past, LoopState
    <2>4. QED
      BY <1>5, <2>1, <2>2, <2>3 DEF Refused
  <1>6. CASE Count(n)
    <2>1. CASE kind[of[n]] = "grid"
      <3> DEFINE q == [r EXCEPT !.filled = Turned(r), !.at = r.at + 1]
      <3>1. run'[n] = Advance(q)
        BY <1>1, <1>6, <2>1 DEF Count
      <3>2. r.at + 1 \in Nat /\ r.loop = "count" /\ GridPlan(r)
        BY <1>1, <1>6, <2>1 DEF LoopState, Count, PlanInv, Plan
      <3>3. Turned(r) \in SUBSET Levels
        BY <1>1, <3>2, TurnedFacts DEF GridPlan
      <3>4. q \in LoopState
        BY <1>1, <3>2, <3>3, LoopUpdates, Zenon
      <3> HIDE DEF q
      <3>5. QED
        BY <1>1, <3>1, <3>4, AdvancePlace DEF Past
    <2>2. CASE kind[of[n]] = "dca"
      BY <1>1, <1>6, <2>2 DEF Count, Past, LoopState
    <2>3. CASE kind[of[n]] = "autoscale"
      BY <1>1, <1>6, <2>3 DEF Count, Past, LoopState
    <2>4. QED
      BY <1>1, <2>1, <2>2, <2>3 DEF Kinds
  <1>7. QED
    BY <1>2, <1>a, <1>3, <1>4, <1>5, <1>6 DEF AtWork

LEMMA LoopHand ==
  ASSUME TypeInv, PlanInv, HandInv, NEW n \in Made, Loop(n) PROVE HandInv'
  <1>1. /\ run' = [run EXCEPT ![n] = run'[n]] /\ Made' = Made
        /\ UNCHANGED <<task, of>>
    BY LoopFrame
  <1>2. /\ n \in Task /\ n \in DOMAIN run /\ Hand(n) /\ closes[n] <= 1
        /\ closes \in [Task -> Nat] /\ Made \subseteq Task
        /\ run[n].then \in {"select", "gone"}
    BY MadeFacts DEF TypeInv, TasksTyped, Made, HandInv, LoopState
  <1>3. /\ active' = active \/ active' = active \ {n}
        /\ closes' = closes \/ closes' = [closes EXCEPT ![n] = closes[n] + 1]
    BY DEF Loop, Work, Stopped, TickDCA, TickGrid, TickAutoScale, Accepted,
           Refused, Count, Protect, Failed, Finish, Ending, Check, Close,
           Deactivate
  <1>4. Hand(n)' /\ closes'[n] <= 1
    <2>1. CASE AtWork(n)
      <3>1. /\ run[n].loop \notin Past /\ run'[n].loop \notin Past
            /\ active' = active /\ closes' = closes
        BY <2>1, WorkPlaces
      <3>2. run[n].loop # "close" /\ run'[n].loop # "close"
        BY <3>1 DEF Past
      <3>3. QED
        BY <1>1, <1>2, <3>1, <3>2 DEF Hand, Closed
    <2>2. CASE Stopped(n)
      <3>1. run'[n].loop = "gone"
        BY <1>2, <2>2, GonePlan DEF Stopped, Step, Leave
      <3>2. QED
        BY <1>1, <1>2, <2>2, <3>1 DEF Stopped, Hand, Closed, Past
    <2>3. CASE Finish(n) \/ Ending(n)
      <3>1. run'[n].loop \in {"gone", "check"} /\ n \notin active'
            /\ closes' = closes
        BY <1>2, <2>3, GonePlan
        DEF Finish, Ending, Deactivate, Step, Leave, TypeInv, TasksTyped,
            LoopState
      <3>2. QED
        BY <1>2, <3>1 DEF Hand, Past
    <2>4. CASE Check(n)
      <3>1. /\ UNCHANGED <<active, closes>> /\ run[n].loop = "check"
            /\ Closed(n) => run'[n].loop \in {"select", "gone"}
            /\ ~Closed(n) => run'[n].loop = "close"
        BY <1>2, <2>4, GonePlan
        DEF Check, Step, Leave, TypeInv, TasksTyped, LoopState
      <3>2. QED
        BY <1>1, <1>2, <3>1 DEF Hand, Past, Closed
    <2>5. CASE Close(n)
      <3>1. /\ active' = active /\ run[n].loop = "close"
            /\ closes'[n] = closes[n] + 1 /\ run'[n].loop \in {"select", "gone"}
        BY <1>2, <2>5, GonePlan
        DEF Close, Step, Leave, TypeInv, TasksTyped, LoopState
      <3>2. QED
        BY <1>1, <1>2, <3>1 DEF Hand, Past, Closed
    <2>6. QED
      BY <2>1, <2>2, <2>3, <2>4, <2>5 DEF Loop, Work, AtWork
  <1>5. ASSUME NEW m \in Task, m # n PROVE closes'[m] = closes[m]
    BY <1>2, <1>3, <1>5
  <1>6. ASSUME NEW m \in Made, m # n PROVE Hand(m)'
    <2>0. m \in active' <=> m \in active
      BY <1>3, <1>6
    <2>1. closes'[m] = closes[m] /\ run'[m] = run[m]
      BY <1>1, <1>2, <1>5, <1>6 DEF Made
    <2>2. Hand(m)
      BY DEF HandInv
    <2>3. QED
      BY <1>1, <2>0, <2>1, <2>2 DEF Hand, Closed
  <1>7. QED
    BY <1>1, <1>2, <1>4, <1>5, <1>6 DEF HandInv

LEMMA StartHand ==
  ASSUME TypeInv, HandInv, NEW t \in Thread, NEW s \in Strategy, Start(t, s),
         closes' = closes
  PROVE  HandInv'
  <1>0. PICK n \in Task \ Made : n = Cardinality(Made) + 1
    BY StartTyped
  <1>1. n \in Task \ Made /\ Made' = Made \cup {n}
    BY <1>0, StartTyped
  <1>2. /\ run' = [m \in Made \cup {n} |->
                     IF m = n THEN NewTask(kind[s]) ELSE run[m]]
        /\ of' = [of EXCEPT ![n] = s] /\ task' = [task EXCEPT ![s] = n]
        /\ active' = active \cup {n} /\ task[s] \notin active
    BY <1>0 DEF Start, Running
  <1>3. /\ Made \subseteq Task /\ 0 \notin Made /\ active \subseteq Made
        /\ task \in [Strategy -> Made \cup {0}] /\ of \in [Task -> Strategy]
        /\ n # 0 /\ kind[s] \in Kinds
    BY <1>1, MadeFacts DEF TypeInv, TasksTyped, StoresTyped, Task
  <1>4. run'[n].loop \in {"select", "order"}
    <2>1. run'[n] = NewTask(kind[s])
      BY <1>1, <1>2
    <2>2. QED
      BY <1>3, <2>1 DEF NewTask, NewDCA, NewGrid, NewAutoScale, Loop0, Kinds
  <1>5. Hand(n)'
    <2>1. closes[n] = 0 /\ n \in active' /\ task'[of'[n]] = n
      BY <1>1, <1>2, <1>3 DEF HandInv
    <2>2. QED
      BY <1>4, <2>1 DEF Hand, Past
  <1>6. ASSUME NEW m \in Made PROVE Hand(m)'
    <2>1. /\ m # n /\ run'[m] = run[m] /\ of'[m] = of[m] /\ of[m] \in Strategy
      BY <1>1, <1>2, <1>3
    <2>2. m \in active' <=> m \in active
      BY <1>2, <2>1
    <2>3. Hand(m)
      BY DEF HandInv
    <2>4. m \in active => task'[of[m]] = m
      BY <1>2, <1>3, <2>1, <2>3 DEF Hand
    <2>5. QED
      BY <2>1, <2>2, <2>3, <2>4 DEF Hand, Closed
  <1>7. ASSUME NEW u \in Strategy, task'[u] # 0 PROVE of'[task'[u]] = u
    <2>1. CASE u = s
      BY <1>1, <1>2, <1>3, <2>1
    <2>2. CASE u # s
      BY <1>1, <1>2, <1>3, <1>7, <2>2 DEF HandInv
    <2>3. QED
      BY <2>1, <2>2
  <1>8. QED
    BY <1>1, <1>5, <1>6, <1>7 DEF HandInv

LEMMA StopHand ==
  ASSUME TypeInv, HandInv, NEW t \in Thread, NEW s \in Strategy,
         NEW retire \in BOOLEAN, AskStop(t, s, retire)
  PROVE  HandInv'
  <1>0. PICK n \in active : n = task[s]
    BY DEF AskStop, Running
  <1>1. /\ n \in active /\ UNCHANGED <<task, of, run>>
        /\ closes' = [closes EXCEPT ![n] = closes[n] + 1]
        /\ active' = active \ {n}
    BY <1>0 DEF AskStop
  <1>2. /\ n \in Made /\ Made \subseteq Task /\ closes \in [Task -> Nat]
        /\ Made' = Made
    BY <1>1, MadeFacts DEF TypeInv, TasksTyped, Made
  <1>3. Hand(n) /\ closes[n] = 0 /\ run[n].loop \notin Past
    BY <1>0, <1>1, <1>2 DEF HandInv, Hand
  <1>4. Hand(n)' /\ closes'[n] = 1
    BY <1>1, <1>2, <1>3 DEF Hand, Closed, Past
  <1>5. ASSUME NEW m \in Made, m # n PROVE Hand(m)'
    <2>1. closes'[m] = closes[m]
      BY <1>1, <1>2, <1>5
    <2>2. m \in active' <=> m \in active
      BY <1>1, <1>5
    <2>3. Hand(m)
      BY DEF HandInv
    <2>4. QED
      BY <1>1, <2>1, <2>2, <2>3 DEF Hand, Closed
  <1>6. QED
    BY <1>1, <1>2, <1>4, <1>5 DEF HandInv

\* The steps of a thread that neither start nor stop a task.
LEMMA NoTaskTouched ==
  ASSUME NEW t \in Thread, Proceed(t) \/ Request(t)
  PROVE  \/ UNCHANGED tasks
         \/ closes' = closes /\ \E s \in Strategy : Start(t, s)
         \/ \E s \in Strategy, retire \in BOOLEAN : AskStop(t, s, retire)
  BY DEF Proceed, Record, SaveDB, SaveRedis, MarkDB, MarkRedis, ReadRow, WriteRow,
         ReadRows, Replace, Recover, RecoverFromRedis, RecoverFromDB,
         RecoverDBFails, RecoverNext, Request, AskStart, AskRetire, AskSync,
         AskList, tasks

LEMMA HandKeeps ==
  TypeInv /\ PlanInv /\ HandInv /\ [Next]_vars => HandInv'
  <1> SUFFICES ASSUME TypeInv, PlanInv, HandInv, [Next]_vars PROVE HandInv'
    OBVIOUS
  <1>1. CASE Crash
    <2>1. Made' = {}
      BY <1>1 DEF Crash, Made
    <2>2. QED
      BY <1>1, <2>1 DEF Crash, HandInv, Unclosed, NoTask
  <1>2. CASE UNCHANGED tasks
    BY <1>2 DEF HandInv, Hand, Closed, Made, tasks
  <1>3. ASSUME NEW t \in Thread, Proceed(t) \/ Request(t) PROVE HandInv'
    BY <1>2, <1>3, NoTaskTouched, StartHand, StopHand
  <1>4. ASSUME NEW n \in Made, Loop(n) PROVE HandInv'
    BY <1>4, LoopHand
  <1>5. QED
    BY <1>1, <1>2, <1>3, <1>4, Threads DEF Next, vars

LEMMA HandStart == Init => HandInv
  <1> SUFFICES ASSUME Init PROVE HandInv
    OBVIOUS
  <1>1. Made = {}
    BY DEF Init, Made
  <1>2. QED
    BY <1>1 DEF Init, HandInv, Unclosed, NoTask

\* Every stop channel is closed at most once, by a handler or by the loop
\* itself; an active task is the one the map knows, so that StopX finds it;
\* and a loop that waits although its task has ended or was stopped finds its
\* channel closed.
THEOREM LoopsStopOnce == Spec => []LoopsInHand
  <1>1. Init => HandInv
    BY HandStart
  <1>2. HandInv => LoopsInHand
    BY DEF HandInv, Hand, LoopsInHand, ClosedOnce, NoStrayLoop, Past
  <1>3. QED
    BY <1>1, <1>2, Kept, HandKeeps, PTL DEF Spec

-----------------------------------------------------------------------------
(***************************************************************************)
(* The last word.  A thread that writes the record holds the mutex of the  *)
(* kind, which keeps the record and the map of tasks together; RetireX and *)
(* the synchronisations write it without, which is why the property stands *)
(* aside when the administration was used.  A restart loses the map: until *)
(* the main goroutine is through with its list, what the stores say is     *)
(* what keeps a started strategy from being forgotten.                     *)
(***************************************************************************)
Locked(t) == pc[t] \in {"saveDB", "saveRedis", "markDB", "markRedis"}
Quiet     == Undisturbed \/ SameProcess

\* Who writes the record by a request holds the mutex.
LockInv ==
  Without({"admin"}) =>
    \A t \in Thread :
      /\ Locked(t) => lock[kind[job[t]]] = t
      /\ again[t] = FALSE /\ pc[t] \notin {"sync", "syncWrite"}

\* The handlers wait for the main goroutine, which writes only what it starts.
MainInv ==
  /\ \A t \in Caller : pc[t] \notin {"boot", "recover", "ready"}
  /\ pc[Main] \in {"boot", "recover", "ready", "saveDB", "saveRedis"}
  /\ pc[Main] \in {"boot", "ready"} => todo = {}
  /\ pc[Main] # "ready" => \A t \in Caller : pc[t] = "idle"

\* The first process has nothing to recover.
FirstInv ==
  SameProcess =>
    /\ todo = {} /\ pc[Main] \in {"boot", "ready"}
    /\ pc[Main] = "boot" =>
         \A s \in Strategy :
           wanted[s] = "none" /\ db[s] = "none" /\ redis[s] = "none"

\* What a request has done to the task while it writes the record.
ThreadWord(t) ==
  /\ pc[t] \in {"saveDB", "saveRedis"} =>
       /\ Running(job[t]) \/ job[t] \in over
       /\ wanted[job[t]] # "stop"
       /\ t # Main => wanted[job[t]] = "open"
  /\ pc[t] \in {"markDB", "markRedis"} =>
       ~Running(job[t]) /\ wanted[job[t]] = "open"

\* What is to become of a strategy between requests.
TaskWord(s) ==
  /\ wanted[s] = "run" =>
       Running(s) \/ s \in over \/ pc[Main] = "boot" \/ s \in todo
  /\ wanted[s] = "stop" => ~Running(s) /\ s \notin todo

WordInv ==
  Quiet => (\A s \in Strategy : TaskWord(s)) /\ (\A t \in Thread : ThreadWord(t))

StoreWord(s) ==
  /\ wanted[s] = "run"  => db[s] = "ACTIVE" /\ redis[s] = "ACTIVE"
  /\ wanted[s] = "stop" => db[s] # "ACTIVE" /\ redis[s] # "ACTIVE"

RecordWord(t) ==
  /\ pc[t] = "saveRedis" =>
       db[job[t]] = "ACTIVE" /\ carry[t][job[t]] = "ACTIVE"
  /\ pc[t] = "markRedis" => db[job[t]] # "ACTIVE"
  /\ pc[t] \notin {"list", "replace"}

RecordInv ==
  Undisturbed =>
    /\ redisOn = TRUE
    /\ \A s \in Strategy : StoreWord(s)
    /\ \A t \in Thread : RecordWord(t)

WordsInv == LockInv /\ MainInv /\ FirstInv /\ WordInv /\ RecordInv

\* What has not happened now had not happened before.
LEMMA QuietBefore ==
  ASSUME used \in [Events -> Nat], used' \in [Events -> Nat],
         \A e \in Events : used'[e] >= used[e]
  PROVE  /\ Undisturbed' => Undisturbed
         /\ SameProcess' => SameProcess
         /\ Quiet' => Quiet
         /\ Without({"admin"})' => Without({"admin"})
         /\ Quiet => Without({"admin"})
  <1>1. ASSUME NEW E \in SUBSET Events, Without(E)' PROVE Without(E)
    <2>1. ASSUME NEW e \in E PROVE used[e] = 0
      <3>1. used'[e] = 0 /\ used'[e] >= used[e] /\ used[e] \in Nat
        BY <1>1 DEF Without
      <3>2. QED
        BY <3>1
    <2>2. QED
      BY <2>1 DEF Without
  <1>2. /\ {"db", "redis", "down", "admin"} \in SUBSET Events
        /\ {"crash", "down", "admin"} \in SUBSET Events
        /\ {"admin"} \in SUBSET Events
    BY DEF Events, Trouble
  <1>3. (Undisturbed' => Undisturbed) /\ (SameProcess' => SameProcess)
    BY <1>1, <1>2 DEF Undisturbed, SameProcess
  <1>4. Without({"admin"})' => Without({"admin"})
    BY <1>1, <1>2
  <1>5. Quiet => Without({"admin"})
    BY DEF Quiet, Undisturbed, SameProcess, Without
  <1>6. QED
    BY <1>3, <1>4, <1>5 DEF Quiet

\* An event that happens is one of those the properties stand aside for.
LEMMA Disturbs ==
  ASSUME used \in [Events -> Nat]
  PROVE  /\ Use("admin") => ~Without({"admin"})' /\ ~Quiet'
         /\ Use("db") \/ Use("redis") \/ Use("down") => ~Undisturbed'
         /\ Use("crash") \/ Use("down") => ~SameProcess'
  <1>1. ASSUME NEW e \in Events, Use(e) PROVE used'[e] # 0
    BY <1>1, UseCounts
  <1>2. {"admin", "db", "redis", "down", "crash"} \subseteq Events
    BY DEF Events, Trouble
  <1>3. QED
    BY <1>1, <1>2 DEF Quiet, Undisturbed, SameProcess, Without

\* The state the threads share, and what a step of one leaves of the others'.
LEMMA ThreadTypes ==
  ASSUME TypeInv
  PROVE  /\ pc \in [Thread -> Places] /\ job \in [Thread -> Strategy]
         /\ lock \in [Kinds -> Thread \cup {Free}]
         /\ carry \in [Thread -> [Strategy -> Status]]
         /\ again \in [Thread -> BOOLEAN] /\ kind \in [Strategy -> Kinds]
         /\ wanted \in [Strategy -> {"none", "run", "stop", "open"}]
         /\ db \in [Strategy -> Status] /\ redis \in [Strategy -> Status]
         /\ used \in [Events -> Nat] /\ task \in [Strategy -> Made \cup {0}]
         /\ active \subseteq Made /\ 0 \notin Made
         /\ over \subseteq Strategy /\ todo \subseteq Strategy
  BY MadeFacts
  DEF TypeInv, StoresTyped, ThreadsTyped, TasksTyped, HistoryTyped

Aside(u) ==
  pc'[u] = pc[u] /\ job'[u] = job[u] /\ carry'[u] = carry[u] /\ again'[u] = again[u]

LEMMA OthersAside ==
  ASSUME TypeInv, NEW t \in Thread, Proceed(t) \/ Request(t)
  PROVE  \A u \in Thread \ {t} : Aside(u)
  <1> USE ThreadTypes DEF Aside, Goto
  <1>1. CASE Record(t)
    BY <1>1 DEF Record, SaveDB, SaveRedis, MarkDB, MarkRedis, Return
  <1>2. CASE Copy(t)
    BY <1>2 DEF Copy, ReadRow, WriteRow, ReadRows, Replace
  <1>3. CASE t = Main /\ Recover
    BY <1>3
    DEF Recover, RecoverFromRedis, RecoverFromDB, RecoverDBFails, RecoverNext,
        Recovering, Start
  <1>4. CASE Request(t)
    <2>1. ASSUME NEW s \in Strategy,
                 AskStart(t, s) \/ AskRetire(t, s) \/ AskSync(t, s)
          PROVE  \A u \in Thread \ {t} : Aside(u)
      BY <2>1 DEF AskStart, AskRetire, AskSync, Start
    <2>2. ASSUME NEW s \in Strategy, NEW retire \in BOOLEAN,
                 AskStop(t, s, retire)
          PROVE  \A u \in Thread \ {t} : Aside(u)
      <3>1. /\ pc' = [pc EXCEPT ![t] = "markDB"] /\ job' = [job EXCEPT ![t] = s]
            /\ carry' = carry
        BY <2>2 DEF AskStop
      <3>2. again' = [again EXCEPT ![t] = retire]
        BY <2>2 DEF AskStop
      <3>3. \A u \in Thread \ {t} : again'[u] = again[u]
        BY <3>2
      <3>4. QED
        BY <3>1, <3>3
    <2>3. CASE AskList(t)
      BY <2>3 DEF AskList
    <2>4. QED
      BY <1>4, <2>1, <2>2, <2>3 DEF Request
  <1>5. QED
    BY <1>1, <1>2, <1>3, <1>4 DEF Proceed, Copy

\* A thread that takes no mutex leaves each where it was, one that takes one
\* found it free, and one that lets go only lets go of its own.
LEMMA LockKeeps ==
  ASSUME TypeInv, LockInv, NEW t \in Thread, Proceed(t) \/ Request(t)
  PROVE  LockInv'
  <1> SUFFICES ASSUME Without({"admin"})'
               PROVE  \A u \in Thread :
                        /\ Locked(u)' => lock'[kind'[job'[u]]] = u
                        /\ again'[u] = FALSE
                        /\ pc'[u] \notin {"sync", "syncWrite"}
    BY DEF LockInv
  <1>1. Without({"admin"}) /\ ~Use("admin") /\ kind' = kind
    BY ThreadCounts, QuietBefore, Disturbs, ThreadTypes
  <1>2. \A u \in Thread :
          /\ Locked(u) => lock[kind[job[u]]] = u
          /\ again[u] = FALSE /\ pc[u] \notin {"sync", "syncWrite"}
    BY <1>1 DEF LockInv
  <1>3. \A u \in Thread : kind[job[u]] \in Kinds
    BY ThreadTypes
  <1>4. ASSUME \A u \in Thread \ {t} :
                 Locked(u) => lock'[kind[job[u]]] = u,
               Locked(t)' => lock'[kind[job'[t]]] = t,
               again'[t] = FALSE, pc'[t] \notin {"sync", "syncWrite"}
        PROVE  \A u \in Thread :
                 /\ Locked(u)' => lock'[kind'[job'[u]]] = u
                 /\ again'[u] = FALSE
                 /\ pc'[u] \notin {"sync", "syncWrite"}
    BY <1>1, <1>2, <1>4, OthersAside DEF Aside, Locked
  <1>5. ASSUME lock' = lock, job'[t] = job[t], again'[t] = again[t],
               Locked(t) \/ pc'[t] \in {"idle", "list", "replace", "recover",
                                        "ready"},
               pc'[t] \notin {"sync", "syncWrite"}
        PROVE  LockInv'
    <2>1. Locked(t)' => lock'[kind[job'[t]]] = t
      BY <1>2, <1>5 DEF Locked
    <2>2. QED
      BY <1>2, <1>4, <1>5, <2>1 DEF LockInv
  <1>6. ASSUME NEW word, Return(t, word), job' = job, again' = again
        PROVE  LockInv'
    <2>1. pc'[t] \in {"idle", "ready", "recover"}
      BY <1>6, ThreadTypes DEF Return, Goto
    <2>2. \A k \in Kinds : lock'[k] = IF lock[k] = t THEN Free ELSE lock[k]
      BY <1>6 DEF Return
    <2>3. \A u \in Thread \ {t} : Locked(u) => lock'[kind[job[u]]] = u
      BY <1>2, <1>3, <2>2
    <2>4. ~Locked(t)'
      BY <2>1 DEF Locked
    <2>5. QED
      BY <1>2, <1>4, <1>6, <2>1, <2>3, <2>4 DEF LockInv
  <1>7. ASSUME NEW s \in Strategy, lock[kind[s]] = Free,
               lock' = [lock EXCEPT ![kind[s]] = t], job'[t] = s,
               again'[t] = FALSE, pc'[t] \in {"saveDB", "markDB"}
        PROVE  LockInv'
    <2>1. kind[s] \in Kinds
      BY ThreadTypes
    <2>2. \A u \in Thread \ {t} : Locked(u) => lock'[kind[job[u]]] = u
      BY <1>2, <1>3, <1>7, Threads, ThreadTypes
    <2>3. lock'[kind[s]] = t
      BY <1>7, <2>1, ThreadTypes
    <2>4. QED
      BY <1>4, <1>7, <2>2, <2>3 DEF LockInv
  <1>8. ASSUME SaveDB(t) \/ MarkDB(t) PROVE LockInv'
    BY <1>5, <1>8, ThreadTypes DEF SaveDB, MarkDB, Goto, Locked
  <1>9. ASSUME SaveRedis(t) PROVE LockInv'
    BY <1>6, <1>9 DEF SaveRedis
  <1>10. ASSUME MarkRedis(t) PROVE LockInv'
    BY <1>2, <1>6, <1>10 DEF MarkRedis
  <1>11. ASSUME Copy(t) PROVE LockInv'
    BY <1>2, <1>5, <1>11, ThreadTypes
    DEF Copy, ReadRow, WriteRow, ReadRows, Replace, Goto
  <1>12. ASSUME AskList(t) PROVE LockInv'
    BY <1>5, <1>12, ThreadTypes DEF AskList, Goto
  <1>13. ASSUME t = Main,
                RecoverFromRedis \/ RecoverFromDB \/ RecoverDBFails
         PROVE  LockInv'
    BY <1>5, <1>13, ThreadTypes
    DEF RecoverFromRedis, RecoverFromDB, RecoverDBFails, Recovering, Goto
  <1>14. ASSUME NEW s \in Strategy, Start(t, s), again' = again PROVE LockInv'
    BY <1>2, <1>7, <1>14, ThreadTypes DEF Start, Goto
  <1>15. ASSUME NEW s \in Strategy, NEW retire \in BOOLEAN,
                AskStop(t, s, retire)
         PROVE  LockInv'
    <2>1. /\ retire = FALSE /\ again' = [again EXCEPT ![t] = retire]
      BY <1>1, <1>15 DEF AskStop
    <2>2. again'[t] = FALSE
      BY <2>1, ThreadTypes
    <2>3. QED
      BY <1>7, <1>15, <2>2, ThreadTypes DEF AskStop, Goto
  <1>16. ASSUME Request(t) PROVE LockInv'
    BY <1>1, <1>12, <1>14, <1>15, <1>16
    DEF Request, AskStart, AskRetire, AskSync
  <1>17. ASSUME t = Main /\ Recover PROVE LockInv'
    BY <1>13, <1>14, <1>17 DEF Recover, RecoverNext
  <1>18. LockInv'
    BY <1>8, <1>9, <1>10, <1>11, <1>16, <1>17 DEF Proceed, Record, Copy
  <1>19. QED
    BY <1>18 DEF LockInv

LEMMA MainKeeps ==
  ASSUME TypeInv, MainInv, NEW t \in Thread,
         Proceed(t) \/ (t \in Caller /\ Request(t))
  PROVE  MainInv'
  <1>1. Main \in Thread /\ Main \notin Caller /\ Caller \subseteq Thread
    BY MainAssumption DEF Thread
  <1>2. \A u \in Thread \ {t} : pc'[u] = pc[u]
    BY OthersAside DEF Aside
  <1>3. CASE t # Main
    <2>1. t \in Caller /\ pc[Main] = "ready" /\ todo = {}
      <3>1. t \in Caller
        BY <1>3 DEF Thread
      <3>2. pc[t] # "idle" \/ pc[Main] = "ready"
        BY <1>3
        DEF Proceed, Record, SaveDB, SaveRedis, MarkDB, MarkRedis, ReadRow,
            WriteRow, ReadRows, Replace, Request, AskStart, AskStop, AskRetire,
            AskSync, AskList
      <3>3. QED
        BY <3>1, <3>2 DEF MainInv
    <2>2. todo' = todo
      BY <1>3
      DEF Proceed, Record, SaveDB, SaveRedis, MarkDB, MarkRedis, ReadRow,
          WriteRow, ReadRows, Replace, Request, AskStart, AskStop, AskRetire,
          AskSync, AskList
    <2>3. pc'[t] \notin {"boot", "recover", "ready"}
      <3> USE <1>3, ThreadTypes DEF Goto
      <3>1. CASE Record(t)
        BY <3>1 DEF Record, SaveDB, SaveRedis, MarkDB, MarkRedis, Return
      <3>2. CASE Copy(t)
        BY <3>2 DEF Copy, ReadRow, WriteRow, ReadRows, Replace
      <3>3. CASE Request(t)
        BY <3>3
        DEF Request, AskStart, AskStop, AskRetire, AskSync, AskList, Start
      <3>4. QED
        BY <3>1, <3>2, <3>3 DEF Proceed, Copy
    <2>4. QED
      BY <1>1, <1>2, <1>3, <2>1, <2>2, <2>3 DEF MainInv
  <1>4. CASE t = Main
    <2>1. pc[Main] \in {"boot", "recover", "saveDB", "saveRedis"}
      BY <1>1, <1>4
      DEF MainInv, Proceed, Record, SaveDB, SaveRedis, MarkDB, MarkRedis,
          ReadRow, WriteRow, ReadRows, Replace, Recover, RecoverFromRedis,
          RecoverFromDB, RecoverDBFails, RecoverNext
    <2>2. \A u \in Caller : pc'[u] = pc[u] /\ pc'[u] = "idle"
      BY <1>1, <1>2, <1>4, <2>1 DEF MainInv
    <2>3. /\ pc'[Main] \in {"recover", "ready", "saveDB", "saveRedis"}
          /\ pc'[Main] = "ready" => todo' = {}
      <3> USE <1>1, <1>4, <2>1, ThreadTypes DEF Goto
      <3>1. CASE SaveDB(Main) \/ SaveRedis(Main)
        BY <3>1 DEF SaveDB, SaveRedis, Return
      <3>2. CASE RecoverFromRedis \/ RecoverFromDB \/ RecoverDBFails
        BY <3>2
        DEF RecoverFromRedis, RecoverFromDB, RecoverDBFails, Recovering
      <3>3. CASE \E s \in Strategy : RecoverNext(s)
        BY <3>3 DEF RecoverNext, Start
      <3>4. QED
        BY <3>1, <3>2, <3>3
        DEF Proceed, Record, MarkDB, MarkRedis, ReadRow, WriteRow, ReadRows,
            Replace, Recover
    <2>4. QED
      BY <2>2, <2>3 DEF MainInv
  <1>5. QED
    BY <1>3, <1>4

\* A handler does nothing before the main goroutine is through.
LEMMA CallersTurn ==
  ASSUME TypeInv, MainInv, NEW t \in Thread, t # Main, Proceed(t) \/ Request(t)
  PROVE  /\ t \in Caller /\ pc[Main] = "ready" /\ pc'[Main] = "ready"
         /\ todo = {} /\ todo' = {}
  <1>1. t \in Caller /\ Main \in Thread
    BY DEF Thread
  <1>2. pc[t] # "idle" \/ pc[Main] = "ready"
    BY DEF Proceed, Record, SaveDB, SaveRedis, MarkDB, MarkRedis, ReadRow,
           WriteRow, ReadRows, Replace, Request, AskStart, AskStop, AskRetire,
           AskSync, AskList
  <1>3. pc[Main] = "ready" /\ todo = {}
    BY <1>1, <1>2 DEF MainInv
  <1>4. pc'[Main] = pc[Main]
    BY <1>1, OthersAside DEF Aside
  <1>5. todo' = todo
    BY DEF Proceed, Record, SaveDB, SaveRedis, MarkDB, MarkRedis, ReadRow,
           WriteRow, ReadRows, Replace, Request, AskStart, AskStop, AskRetire,
           AskSync, AskList
  <1>6. QED
    BY <1>1, <1>3, <1>4, <1>5

\* The main goroutine either reads its list at the start of the process or
\* starts and records the strategies on it, one after the other.
LEMMA MainsTurn ==
  ASSUME MainInv, Proceed(Main)
  PROVE  \/ RecoverFromRedis \/ RecoverFromDB \/ RecoverDBFails
         \/ \E s \in Strategy : RecoverNext(s)
         \/ SaveDB(Main) \/ SaveRedis(Main)
  BY DEF MainInv, Proceed, Record, MarkDB, MarkRedis, ReadRow, WriteRow,
         ReadRows, Replace, Recover

LEMMA FirstKeeps ==
  ASSUME TypeInv, MainInv, FirstInv, NEW t \in Thread,
         Proceed(t) \/ (t \in Caller /\ Request(t))
  PROVE  FirstInv'
  <1> SUFFICES ASSUME SameProcess'
               PROVE  todo' = {} /\ pc'[Main] = "ready"
    BY DEF FirstInv
  <1>1. SameProcess
    BY ThreadCounts, QuietBefore, ThreadTypes
  <1>2. CASE t # Main
    BY <1>2, CallersTurn
  <1>3. CASE t = Main
    <2>1. t \notin Caller /\ Main \in Thread
      BY <1>3, MainAssumption DEF Thread
    <2>2. /\ pc[Main] \in {"boot", "ready"} /\ todo = {}
          /\ pc[Main] = "boot" => ActiveIn(redis) = {} /\ ActiveIn(db) = {}
      BY <1>1 DEF FirstInv, ActiveIn
    <2>3. RecoverFromRedis \/ RecoverFromDB \/ RecoverDBFails
      BY <1>3, <2>1, <2>2, MainsTurn DEF RecoverNext, SaveDB, SaveRedis
    <2>4. pc[Main] = "boot" /\ Recovering({})
      BY <2>2, <2>3 DEF RecoverFromRedis, RecoverFromDB, RecoverDBFails
    <2>5. QED
      BY <2>1, <2>4, ThreadTypes DEF Recovering, Goto
  <1>4. QED
    BY <1>2, <1>3

\* Two threads at the record have different strategies at hand.
LEMMA OwnJobs ==
  ASSUME LockInv, Without({"admin"}), NEW t \in Thread, NEW u \in Thread, t # u,
         Locked(t), Locked(u)
  PROVE  job[t] # job[u]
  BY DEF LockInv

\* A strategy whose mutex is free has no thread at its record.
LEMMA FreeJobs ==
  ASSUME LockInv, Without({"admin"}), NEW u \in Thread, NEW s \in Strategy,
         Locked(u), lock[kind[s]] = Free
  PROVE  job[u] # s
  BY Threads DEF LockInv

LEMMA StartRuns ==
  ASSUME TypeInv, NEW t \in Thread, NEW s \in Strategy, Start(t, s)
  PROVE  /\ Running(s)' /\ lock[kind[s]] = Free
         /\ \A u \in Strategy \ {s} : Running(u)' <=> Running(u)
         /\ pc' = [pc EXCEPT ![t] = "saveDB"] /\ job' = [job EXCEPT ![t] = s]
  <1>1. PICK n \in Task \ Made : n = Cardinality(Made) + 1
    BY StartTyped
  <1>2. /\ task' = [task EXCEPT ![s] = n] /\ active' = active \cup {n}
        /\ lock[kind[s]] = Free
        /\ pc' = [pc EXCEPT ![t] = "saveDB"] /\ job' = [job EXCEPT ![t] = s]
    BY <1>1 DEF Start, Goto
  <1>3. n # 0
    BY <1>1 DEF Task
  <1>4. QED
    BY <1>1, <1>2, <1>3, ThreadTypes DEF Running

LEMMA StopRuns ==
  ASSUME TypeInv, HandInv, NEW t \in Thread, NEW s \in Strategy,
         NEW retire \in BOOLEAN, AskStop(t, s, retire)
  PROVE  /\ ~Running(s)' /\ lock[kind[s]] = Free
         /\ \A u \in Strategy \ {s} : Running(u)' <=> Running(u)
  <1>1. /\ task[s] \in active /\ task' = task /\ active' = active \ {task[s]}
        /\ lock[kind[s]] = Free
    BY DEF AskStop, Running
  <1>2. \A u \in Strategy \ {s} : task[u] # task[s]
    BY <1>1, ThreadTypes DEF HandInv
  <1>3. QED
    BY <1>1, <1>2 DEF Running

Words == /\ \A s \in Strategy : TaskWord(s)
         /\ \A t \in Thread : ThreadWord(t)

\* A step of t about s leaves the words of the other strategies and threads.
LEMMA WordsElsewhere ==
  ASSUME TypeInv, Words, NEW t \in Thread, NEW s \in Strategy,
         \A u \in Strategy \ {s} :
           /\ Running(u)' <=> Running(u)
           /\ wanted'[u] = wanted[u]
           /\ u \in over' <=> u \in over
           /\ u \in todo' <=> u \in todo,
         pc[Main] = "boot" => pc'[Main] = "boot",
         \A u \in Thread \ {t} : Aside(u) /\ (Locked(u) => job[u] # s),
         TaskWord(s)', ThreadWord(t)'
  PROVE  Words'
  <1>1. ASSUME NEW u \in Strategy, u # s PROVE TaskWord(u)'
    BY <1>1 DEF Words, TaskWord
  <1>2. ASSUME NEW u \in Thread, u # t PROVE ThreadWord(u)'
    <2>1. PICK j \in Strategy : j = job[u]
      BY ThreadTypes
    <2>2. pc'[u] = pc[u] /\ job'[u] = j /\ ThreadWord(u)
      BY <1>2, <2>1 DEF Aside, Words
    <2>3. CASE Locked(u)
      <3>1. j # s
        BY <1>2, <2>1, <2>3
      <3>2. /\ Running(j)' <=> Running(j)
            /\ wanted'[j] = wanted[j] /\ (j \in over' <=> j \in over)
        BY <2>1, <3>1
      <3>3. QED
        BY <2>1, <2>2, <3>2 DEF ThreadWord
    <2>4. CASE ~Locked(u)
      BY <2>2, <2>4 DEF ThreadWord, Locked
    <2>5. QED
      BY <2>3, <2>4
  <1>3. QED
    BY <1>1, <1>2 DEF Words

LEMMA RecordWords ==
  ASSUME TypeInv, LockInv, MainInv, Words, Without({"admin"}), NEW t \in Thread,
         Record(t)
  PROVE  Words'
  <1>1. PICK s \in Strategy : s = job[t]
    BY ThreadTypes
  <1>2. /\ UNCHANGED <<kind, job, todo, tasks, over>> /\ Locked(t)
        /\ ThreadWord(t) /\ TaskWord(s) /\ again[t] = FALSE
    BY <1>1
    DEF Record, SaveDB, SaveRedis, MarkDB, MarkRedis, Locked, Words, LockInv
  <1>3. \A u \in Thread \ {t} : Aside(u) /\ (Locked(u) => job[u] # s)
    BY <1>1, <1>2, OthersAside, OwnJobs DEF Proceed
  <1>4. \A u \in Strategy : /\ Running(u)' <=> Running(u)
                            /\ u \in over' <=> u \in over
                            /\ u \in todo' <=> u \in todo
    BY <1>2 DEF Running, tasks
  <1>5. /\ t # Main => pc[Main] = "ready" /\ pc'[Main] = "ready" /\ todo' = {}
        /\ t = Main => pc[t] \in {"saveDB", "saveRedis"}
    <2>1. CASE t # Main
      BY <2>1, CallersTurn DEF Proceed
    <2>2. CASE t = Main
      BY <1>2, <2>2 DEF MainInv, Locked
    <2>3. QED
      BY <2>1, <2>2
  <1>6. pc[Main] # "boot"
    BY <1>5
  <1>7. CASE SaveDB(t) \/ MarkDB(t)
    <2>1. wanted' = wanted
      BY <1>7 DEF SaveDB, MarkDB
    <2>2. \/ pc[t] = "saveDB" /\ pc'[t] = "saveRedis"
          \/ pc[t] = "markDB" /\ pc'[t] = "markRedis"
      BY <1>7, ThreadTypes DEF SaveDB, MarkDB, Goto
    <2>3. TaskWord(s)'
      BY <1>2, <1>4, <1>6, <2>1 DEF TaskWord
    <2>4. job'[t] = s
      BY <1>1, <1>2
    <2>5. ThreadWord(t)'
      BY <1>1, <1>2, <1>4, <2>1, <2>2, <2>4 DEF ThreadWord
    <2>6. QED
      BY <1>3, <1>4, <1>6, <2>1, <2>3, <2>5, WordsElsewhere
  <1>8. ASSUME NEW word \in {"run", "stop"}, Return(t, word),
               word = "run" => pc[t] = "saveRedis",
               word = "stop" => pc[t] = "markRedis"
        PROVE  Words'
    <2>1. wanted' = IF t = Main THEN wanted ELSE [wanted EXCEPT ![s] = word]
      BY <1>1, <1>8 DEF Return
    <2>2. pc'[t] \in {"idle", "ready", "recover"}
      BY <1>8, ThreadTypes DEF Return, Goto
    <2>3. ThreadWord(t)'
      BY <2>2 DEF ThreadWord
    <2>4. TaskWord(s)'
      <3>1. CASE t = Main
        <4>1. wanted' = wanted
          BY <2>1, <3>1
        <4>2. QED
          BY <1>2, <1>4, <1>6, <4>1 DEF TaskWord
      <3>2. CASE t # Main
        <4>1. wanted'[s] = word
          BY <2>1, <3>2, ThreadTypes
        <4>2. word = "run" => Running(s) \/ s \in over
          BY <1>1, <1>2, <1>8 DEF ThreadWord
        <4>3. word = "stop" => ~Running(s)
          BY <1>1, <1>2, <1>8 DEF ThreadWord
        <4>4. s \notin todo'
          BY <1>5, <3>2
        <4>5. QED
          BY <1>4, <1>8, <4>1, <4>2, <4>3, <4>4 DEF TaskWord
      <3>3. QED
        BY <3>1, <3>2
    <2>5. \A u \in Strategy \ {s} : wanted'[u] = wanted[u]
      BY <2>1, ThreadTypes
    <2>6. QED
      BY <1>3, <1>4, <1>6, <2>3, <2>4, <2>5, WordsElsewhere
  <1>9. CASE SaveRedis(t)
    BY <1>8, <1>9 DEF SaveRedis
  <1>10. CASE MarkRedis(t)
    BY <1>2, <1>8, <1>10 DEF MarkRedis
  <1>11. QED
    BY <1>7, <1>9, <1>10 DEF Record

LEMMA StartWords ==
  ASSUME TypeInv, LockInv, MainInv, Words, Without({"admin"}), NEW t \in Thread,
         NEW s \in Strategy,
         (t \in Caller /\ AskStart(t, s)) \/ (t = Main /\ RecoverNext(s))
  PROVE  Words'
  <1>1. Start(t, s)
    BY DEF AskStart, RecoverNext
  <1>2. Proceed(t) \/ Request(t)
    BY DEF Proceed, Recover, Request
  <1>3. /\ Running(s)' /\ lock[kind[s]] = Free
        /\ \A u \in Strategy \ {s} : Running(u)' <=> Running(u)
        /\ pc' = [pc EXCEPT ![t] = "saveDB"] /\ job' = [job EXCEPT ![t] = s]
    BY <1>1, StartRuns
  <1>4. \A u \in Thread \ {t} : Aside(u) /\ (Locked(u) => job[u] # s)
    BY <1>2, <1>3, OthersAside, FreeJobs
  <1>5. pc'[t] = "saveDB" /\ job'[t] = s
    BY <1>3, ThreadTypes
  <1>6. CASE t \in Caller /\ AskStart(t, s)
    <2>1. /\ wanted' = [wanted EXCEPT ![s] = "open"] /\ over' = over \ {s}
          /\ todo' = todo /\ pc[Main] = "ready"
      BY <1>6 DEF AskStart
    <2>2. wanted'[s] = "open" /\ \A u \in Strategy \ {s} : wanted'[u] = wanted[u]
      BY <2>1, ThreadTypes
    <2>3. TaskWord(s)'
      BY <2>2 DEF TaskWord
    <2>4. ThreadWord(t)'
      BY <1>3, <1>5, <2>2 DEF ThreadWord
    <2>5. QED
      BY <1>3, <1>4, <2>1, <2>2, <2>3, <2>4, WordsElsewhere
  <1>7. CASE t = Main /\ RecoverNext(s)
    <2>1. /\ wanted' = wanted /\ over' = over /\ todo' = todo \ {s}
          /\ s \in todo /\ pc[Main] = "recover"
      BY <1>7 DEF RecoverNext
    <2>2. wanted[s] # "stop"
      BY <2>1 DEF Words, TaskWord
    <2>3. TaskWord(s)'
      BY <1>3, <2>1, <2>2 DEF TaskWord
    <2>4. ThreadWord(t)'
      BY <1>3, <1>5, <1>7, <2>1, <2>2 DEF ThreadWord
    <2>5. QED
      BY <1>3, <1>4, <2>1, <2>3, <2>4, WordsElsewhere
  <1>8. QED
    BY <1>6, <1>7

LEMMA StopWords ==
  ASSUME TypeInv, HandInv, LockInv, MainInv, Words, Without({"admin"}),
         NEW t \in Caller, NEW s \in Strategy, NEW retire \in BOOLEAN,
         AskStop(t, s, retire)
  PROVE  Words'
  <1>1. t \in Thread /\ Request(t)
    BY Threads DEF Request
  <1>2. /\ ~Running(s)' /\ lock[kind[s]] = Free
        /\ \A u \in Strategy \ {s} : Running(u)' <=> Running(u)
    BY <1>1, StopRuns
  <1>3. \A u \in Thread \ {t} : Aside(u) /\ (Locked(u) => job[u] # s)
    BY <1>1, <1>2, OthersAside, FreeJobs
  <1>4. /\ pc[Main] = "ready" /\ pc'[t] = "markDB" /\ job'[t] = s
        /\ wanted' = [wanted EXCEPT ![s] = "open"] /\ over' = over
        /\ todo' = todo
    BY <1>1, ThreadTypes DEF AskStop, Goto
  <1>5. wanted'[s] = "open" /\ \A u \in Strategy \ {s} : wanted'[u] = wanted[u]
    BY <1>4, ThreadTypes
  <1>6. TaskWord(s)'
    BY <1>5 DEF TaskWord
  <1>7. ThreadWord(t)'
    BY <1>2, <1>4, <1>5 DEF ThreadWord
  <1>8. QED
    BY <1>1, <1>2, <1>3, <1>4, <1>5, <1>6, <1>7, WordsElsewhere

\* Reading the record, or writing it without the mutex, touches no task.
LEMMA CopyWords ==
  ASSUME TypeInv, MainInv, Words, NEW t \in Thread,
         Copy(t) \/ (t \in Caller /\ AskList(t))
  PROVE  Words'
  <1>1. PICK s \in Strategy : s = job[t]
    BY ThreadTypes
  <1>2. /\ UNCHANGED <<tasks, wanted, over, todo>> /\ ~Locked(t)
        /\ pc[t] \in {"sync", "syncWrite", "list", "replace", "idle"}
    BY DEF Copy, ReadRow, WriteRow, ReadRows, Replace, AskList, Locked
  <1>3. pc'[t] \in {"syncWrite", "replace", "idle", "list"}
    BY ThreadTypes
    DEF Copy, ReadRow, WriteRow, ReadRows, Replace, AskList, Goto
  <1>4. \A u \in Thread \ {t} : Aside(u)
    BY OthersAside DEF Copy, Proceed, Request
  <1>5. t # Main
    BY <1>2 DEF MainInv
  <1>6. pc'[Main] = pc[Main]
    BY <1>4, <1>5, Threads DEF Aside
  <1>7. ASSUME NEW u \in Strategy PROVE TaskWord(u)'
    BY <1>2, <1>6 DEF TaskWord, Words, Running, tasks
  <1>8. ASSUME NEW u \in Thread PROVE ThreadWord(u)'
    <2>1. CASE u = t
      BY <1>3, <2>1 DEF ThreadWord
    <2>2. CASE u # t
      BY <1>2, <1>4, <2>2 DEF ThreadWord, Words, Running, tasks, Aside
    <2>3. QED
      BY <2>1, <2>2
  <1>9. QED
    BY <1>7, <1>8 DEF Words

\* The list the main goroutine takes holds what was started and not stopped:
\* by what the stores say, or because nothing was asked for yet.
LEMMA BootWords ==
  ASSUME TypeInv, FirstInv, RecordInv, Words, Quiet, Quiet',
         Undisturbed' => Undisturbed, SameProcess' => SameProcess,
         RecoverFromRedis \/ RecoverFromDB \/ RecoverDBFails
  PROVE  Words'
  <1>1. Main \in Thread /\ UNCHANGED <<tasks, wanted, over>> /\ pc[Main] = "boot"
    BY Threads
    DEF RecoverFromRedis, RecoverFromDB, RecoverDBFails
  <1>2. pc'[Main] \in {"ready", "recover"}
    BY <1>1, ThreadTypes
    DEF RecoverFromRedis, RecoverFromDB, RecoverDBFails, Recovering, Goto
  <1>3. \A u \in Thread \ {Main} : Aside(u)
    BY <1>1, OthersAside DEF Proceed, Recover
  <1>4. ASSUME NEW u \in Thread PROVE ThreadWord(u)'
    <2>1. CASE u = Main
      BY <1>2, <2>1 DEF ThreadWord
    <2>2. CASE u # Main
      BY <1>1, <1>3, <2>2 DEF ThreadWord, Words, Running, tasks, Aside
    <2>3. QED
      BY <2>1, <2>2
  <1>5. ASSUME NEW s \in Strategy PROVE TaskWord(s)'
    <2>1. CASE SameProcess
      BY <1>1, <2>1 DEF FirstInv, TaskWord
    <2>2. CASE Undisturbed'
      <3>1. StoreWord(s) /\ redisOn = TRUE /\ TaskWord(s)
        BY <2>2 DEF RecordInv, Words
      <3>2. ~Use("redis") /\ ~Use("db")
        BY <2>2, Disturbs, ThreadTypes
      <3>3. todo' \in {ActiveIn(redis), ActiveIn(db)}
        BY <3>1, <3>2
        DEF RecoverFromRedis, RecoverFromDB, RecoverDBFails, Recovering
      <3>4. /\ wanted[s] = "run" => s \in todo'
            /\ wanted[s] = "stop" => s \notin todo'
        BY <3>1, <3>3 DEF StoreWord, ActiveIn
      <3>5. QED
        BY <1>1, <3>1, <3>4 DEF TaskWord, Running, tasks
    <2>3. QED
      BY <2>1, <2>2 DEF Quiet
  <1>6. QED
    BY <1>4, <1>5 DEF Words

LEMMA WordKeeps ==
  ASSUME TypeInv, HandInv, WordsInv, NEW t \in Thread,
         Proceed(t) \/ (t \in Caller /\ Request(t))
  PROVE  WordInv'
  <1> SUFFICES ASSUME Quiet' PROVE Words'
    BY DEF WordInv, Words
  <1>1. /\ LockInv /\ MainInv /\ FirstInv /\ RecordInv
        /\ Undisturbed' => Undisturbed
        /\ Quiet /\ Without({"admin"}) /\ ~Use("admin")
    BY ThreadCounts, QuietBefore, Disturbs, ThreadTypes DEF WordsInv
  <1>2. SameProcess' => SameProcess
    BY ThreadCounts, QuietBefore, ThreadTypes
  <1>3. Words
    BY <1>1 DEF WordsInv, WordInv, Words
  <1>4. CASE Record(t) \/ Copy(t)
    BY <1>1, <1>3, <1>4, RecordWords, CopyWords
  <1>5. CASE t = Main /\ Recover
    BY <1>1, <1>2, <1>3, <1>5, BootWords, StartWords DEF Recover
  <1>6. CASE t \in Caller /\ Request(t)
    <2>1. CASE AskList(t)
      BY <1>1, <1>3, <1>6, <2>1, CopyWords
    <2>2. ASSUME NEW s \in Strategy, AskStart(t, s) PROVE Words'
      BY <1>1, <1>3, <1>6, <2>2, StartWords
    <2>3. ASSUME NEW s \in Strategy, NEW retire \in BOOLEAN,
                 AskStop(t, s, retire)
          PROVE  Words'
      BY <1>1, <1>3, <1>6, <2>3, StopWords
    <2>4. QED
      BY <1>1, <1>6, <2>1, <2>2, <2>3 DEF Request, AskRetire, AskSync
  <1>7. QED
    BY <1>4, <1>5, <1>6 DEF Proceed, Copy

\* As WordsElsewhere, for the stores.
Records == /\ redisOn = TRUE
           /\ \A s \in Strategy : StoreWord(s)
           /\ \A t \in Thread : RecordWord(t)

LEMMA RecordsElsewhere ==
  ASSUME TypeInv, Records, NEW t \in Thread, NEW s \in Strategy,
         redisOn' = redisOn,
         \A u \in Strategy \ {s} :
           wanted'[u] = wanted[u] /\ db'[u] = db[u] /\ redis'[u] = redis[u],
         \A u \in Thread \ {t} : Aside(u) /\ (Locked(u) => job[u] # s),
         StoreWord(s)', RecordWord(t)'
  PROVE  Records'
  <1>1. ASSUME NEW u \in Strategy, u # s PROVE StoreWord(u)'
    BY <1>1 DEF Records, StoreWord
  <1>2. ASSUME NEW u \in Thread, u # t PROVE RecordWord(u)'
    BY <1>2, ThreadTypes DEF Records, RecordWord, Aside, Locked
  <1>3. QED
    BY <1>1, <1>2 DEF Records

LEMMA RecordRecords ==
  ASSUME TypeInv, LockInv, MainInv, Words, Records, Without({"admin"}),
         ~Use("db"), ~Use("redis"), NEW t \in Thread, Record(t)
  PROVE  Records'
  <1>1. PICK s \in Strategy : s = job[t]
    BY ThreadTypes
  <1>2. /\ UNCHANGED <<job, redisOn>> /\ Locked(t) /\ again[t] = FALSE
        /\ ThreadWord(t) /\ RecordWord(t) /\ StoreWord(s) /\ redisOn = TRUE
    BY <1>1
    DEF Record, SaveDB, SaveRedis, MarkDB, MarkRedis, Locked, Words, Records,
        LockInv
  <1>3. \A u \in Thread \ {t} : Aside(u) /\ (Locked(u) => job[u] # s)
    BY <1>1, <1>2, OthersAside, OwnJobs DEF Proceed
  <1>4. job'[t] = s
    BY <1>1, <1>2
  <1>5. CASE SaveDB(t)
    <2>1. /\ db' = [db EXCEPT ![s] = "ACTIVE"]
          /\ carry' = [carry EXCEPT ![t][s] = "ACTIVE"]
          /\ redis' = redis /\ wanted' = wanted
          /\ pc[t] = "saveDB" /\ pc' = [pc EXCEPT ![t] = "saveRedis"]
      BY <1>1, <1>5 DEF SaveDB, Goto
    <2>2. /\ db'[s] = "ACTIVE" /\ carry'[t][s] = "ACTIVE" /\ pc'[t] = "saveRedis"
          /\ \A u \in Strategy \ {s} : db'[u] = db[u]
      BY <2>1, ThreadTypes
    <2>3. StoreWord(s)'
      BY <1>1, <1>2, <2>1, <2>2 DEF StoreWord, ThreadWord
    <2>4. RecordWord(t)'
      BY <1>4, <2>2 DEF RecordWord
    <2>5. QED
      BY <1>2, <1>3, <2>1, <2>2, <2>3, <2>4, RecordsElsewhere
  <1>6. CASE MarkDB(t)
    <2>1. /\ db' = [db EXCEPT ![s] = IF db[s] = "ACTIVE" THEN "STOPPED" ELSE db[s]]
          /\ redis' = redis /\ wanted' = wanted
          /\ pc[t] = "markDB" /\ pc' = [pc EXCEPT ![t] = "markRedis"]
      BY <1>1, <1>6 DEF MarkDB, Goto
    <2>2. /\ db'[s] # "ACTIVE" /\ pc'[t] = "markRedis"
          /\ \A u \in Strategy \ {s} : db'[u] = db[u]
      BY <2>1, ThreadTypes
    <2>3. StoreWord(s)'
      BY <1>1, <1>2, <2>1 DEF StoreWord, ThreadWord
    <2>4. RecordWord(t)'
      BY <1>4, <2>2 DEF RecordWord
    <2>5. QED
      BY <1>2, <1>3, <2>1, <2>2, <2>3, <2>4, RecordsElsewhere
  <1>7. ASSUME NEW word \in {"run", "stop"}, Return(t, word), db' = db,
               NEW x, redis' = [redis EXCEPT ![s] = x],
               word = "run" => pc[t] = "saveRedis" /\ x = "ACTIVE"
                                /\ db[s] = "ACTIVE",
               word = "stop" => pc[t] = "markRedis" /\ x # "ACTIVE"
                                /\ db[s] # "ACTIVE"
        PROVE  Records'
    <2>1. wanted' = IF t = Main THEN wanted ELSE [wanted EXCEPT ![s] = word]
      BY <1>1, <1>7 DEF Return
    <2>2. pc'[t] \in {"idle", "ready", "recover"}
      BY <1>7, ThreadTypes DEF Return, Goto
    <2>3. RecordWord(t)'
      BY <2>2 DEF RecordWord
    <2>4. /\ redis'[s] = x
          /\ \A u \in Strategy \ {s} :
               redis'[u] = redis[u] /\ wanted'[u] = wanted[u]
      BY <1>7, <2>1, ThreadTypes
    <2>5. word = "run" => wanted[s] # "stop"
      BY <1>1, <1>2, <1>7 DEF ThreadWord
    <2>6. word = "stop" => t # Main
      BY <1>7 DEF MainInv
    <2>7. t # Main => wanted'[s] = word
      BY <2>1, ThreadTypes
    <2>8. StoreWord(s)'
      BY <1>7, <2>1, <2>4, <2>5, <2>6, <2>7 DEF StoreWord
    <2>9. QED
      BY <1>2, <1>3, <1>7, <2>3, <2>4, <2>8, RecordsElsewhere
  <1>8. CASE SaveRedis(t)
    <2>1. /\ redis' = [redis EXCEPT ![s] = carry[t][s]] /\ db' = db
          /\ pc[t] = "saveRedis" /\ Return(t, "run")
      BY <1>1, <1>2, <1>8 DEF SaveRedis, Redis
    <2>2. carry[t][s] = "ACTIVE" /\ db[s] = "ACTIVE"
      BY <1>1, <1>2, <2>1 DEF RecordWord
    <2>3. QED
      BY <1>7, <2>1, <2>2
  <1>9. CASE MarkRedis(t)
    <2>1. /\ redis' = [redis EXCEPT ![s] = "STOPPED"] /\ db' = db
          /\ pc[t] = "markRedis" /\ Return(t, "stop")
      BY <1>1, <1>2, <1>9 DEF MarkRedis, Redis
    <2>2. db[s] # "ACTIVE"
      BY <1>1, <1>2, <2>1 DEF RecordWord
    <2>3. QED
      BY <1>7, <2>1, <2>2
  <1>10. QED
    BY <1>5, <1>6, <1>8, <1>9 DEF Record

\* A request that starts or stops a strategy leaves the stores for later.
LEMMA AskRecords ==
  ASSUME TypeInv, LockInv, Records, Without({"admin"}), NEW t \in Thread,
         NEW s \in Strategy, Proceed(t) \/ Request(t), lock[kind[s]] = Free,
         db' = db, redis' = redis, redisOn' = redisOn,
         wanted' = wanted \/ wanted' = [wanted EXCEPT ![s] = "open"],
         pc'[t] \in {"saveDB", "markDB"}
  PROVE  Records'
  <1>1. \A u \in Thread \ {t} : Aside(u) /\ (Locked(u) => job[u] # s)
    BY OthersAside, FreeJobs
  <1>2. /\ \A u \in Strategy \ {s} : wanted'[u] = wanted[u]
        /\ wanted'[s] = wanted[s] \/ wanted'[s] = "open"
    BY ThreadTypes
  <1>3. StoreWord(s)'
    BY <1>2 DEF Records, StoreWord
  <1>4. RecordWord(t)'
    BY DEF RecordWord
  <1>5. QED
    BY <1>1, <1>2, <1>3, <1>4, RecordsElsewhere

LEMMA BootRecords ==
  ASSUME TypeInv, Records, ~Use("db"), ~Use("redis"),
         RecoverFromRedis \/ RecoverFromDB \/ RecoverDBFails
  PROVE  Records'
  <1>1. /\ Main \in Thread /\ UNCHANGED <<db, redisOn, wanted>>
        /\ redis' = redis \/ redis' = db
    BY Threads
    DEF RecoverFromRedis, RecoverFromDB, RecoverDBFails, stores
  <1>2. pc'[Main] \in {"ready", "recover"}
    BY <1>1, ThreadTypes
    DEF RecoverFromRedis, RecoverFromDB, RecoverDBFails, Recovering, Goto
  <1>3. \A u \in Thread \ {Main} : Aside(u)
    BY <1>1, OthersAside DEF Proceed, Recover
  <1>4. ASSUME NEW u \in Thread PROVE RecordWord(u)'
    <2>1. CASE u = Main
      BY <1>2, <2>1 DEF RecordWord
    <2>2. CASE u # Main
      BY <1>1, <1>3, <2>2 DEF RecordWord, Records, Aside
    <2>3. QED
      BY <2>1, <2>2
  <1>5. \A s \in Strategy : StoreWord(s)'
    BY <1>1 DEF Records, StoreWord
  <1>6. QED
    BY <1>1, <1>4, <1>5 DEF Records

LEMMA RecordKeeps ==
  ASSUME TypeInv, WordsInv, NEW t \in Thread,
         Proceed(t) \/ (t \in Caller /\ Request(t))
  PROVE  RecordInv'
  <1> SUFFICES ASSUME Undisturbed' PROVE Records'
    BY DEF RecordInv, Records
  <1>1. /\ LockInv /\ MainInv /\ Undisturbed
        /\ ~Use("admin") /\ ~Use("db") /\ ~Use("redis")
    BY ThreadCounts, QuietBefore, Disturbs, ThreadTypes
    DEF WordsInv, Quiet
  <1>2. Words /\ Records /\ Without({"admin"})
    BY <1>1, QuietBefore, ThreadCounts, ThreadTypes
    DEF WordsInv, WordInv, Words, RecordInv, Records, Quiet
  <1>3. CASE Record(t)
    BY <1>1, <1>2, <1>3, RecordRecords
  <1>4. ~Copy(t)
    BY <1>1, <1>2
    DEF Copy, ReadRow, WriteRow, ReadRows, Replace, LockInv, Records, RecordWord
  <1>5. ASSUME t = Main, Recover PROVE Records'
    <2>1. ASSUME NEW s \in Strategy, RecoverNext(s) PROVE Records'
      <3>1. /\ Start(t, s)
            /\ db' = db /\ redis' = redis /\ redisOn' = redisOn
            /\ wanted' = wanted
        BY <1>5, <2>1 DEF RecoverNext, stores
      <3>2. pc'[t] = "saveDB" /\ lock[kind[s]] = Free
        BY <3>1, StartRuns, ThreadTypes
      <3>3. Proceed(t)
        BY <1>5 DEF Proceed
      <3>4. QED
        BY <1>1, <1>2, <3>1, <3>2, <3>3, AskRecords
    <2>2. QED
      BY <1>1, <1>2, <1>5, <2>1, BootRecords DEF Recover
  <1>6. ASSUME Request(t) PROVE Records'
    <2>1. ASSUME NEW s \in Strategy, AskStart(t, s) PROVE Records'
      <3>1. /\ Start(t, s)
            /\ db' = db /\ redis' = redis /\ redisOn' = redisOn
            /\ wanted' = [wanted EXCEPT ![s] = "open"]
        BY <2>1 DEF AskStart, stores
      <3>2. pc'[t] = "saveDB" /\ lock[kind[s]] = Free
        BY <3>1, StartRuns, ThreadTypes
      <3>3. QED
        BY <1>1, <1>2, <1>6, <3>1, <3>2, AskRecords
    <2>2. ASSUME NEW s \in Strategy, NEW retire \in BOOLEAN,
                 AskStop(t, s, retire)
          PROVE  Records'
      <3>1. /\ lock[kind[s]] = Free
            /\ db' = db /\ redis' = redis /\ redisOn' = redisOn
            /\ wanted' = [wanted EXCEPT ![s] = "open"]
            /\ pc' = [pc EXCEPT ![t] = "markDB"]
        BY <2>2 DEF AskStop, Goto, stores
      <3>2. pc'[t] = "markDB"
        BY <3>1, ThreadTypes
      <3>3. QED
        BY <1>1, <1>2, <1>6, <3>1, <3>2, AskRecords
    <2>3. QED
      BY <1>1, <1>6, <2>1, <2>2 DEF Request, AskRetire, AskSync, AskList
  <1>7. QED
    BY <1>3, <1>4, <1>5, <1>6 DEF Proceed, Copy

\* A loop that ends its task counts as having ended by itself, under the mutex.
LEMMA LoopWords ==
  ASSUME TypeInv, HandInv, WordsInv, NEW n \in Made, Loop(n)
  PROVE  WordsInv'
  <1>1. /\ UNCHANGED <<kind, stores, lock, threads, task, of, wanted>>
        /\ used' \in [Events -> Nat] /\ \A e \in Events : used'[e] >= used[e]
    BY LoopFrame
  <1>2. /\ Undisturbed' => Undisturbed
        /\ SameProcess' => SameProcess
        /\ Quiet' => Quiet
        /\ Without({"admin"})' => Without({"admin"})
    BY <1>1, QuietBefore, ThreadTypes DEF Quiet
  <1>3. \/ active' = active /\ over' = over
        \/ /\ active' = active \ {n}
           /\ over' = over \cup (IF n \in active THEN {of[n]} ELSE {})
    BY DEF Loop, Work, Stopped, TickDCA, TickGrid, TickAutoScale, Accepted,
           Refused, Count, Protect, Failed, Finish, Ending, Check, Close,
           Deactivate
  <1>4. ASSUME NEW s \in Strategy
        PROVE  /\ Running(s)' => Running(s)
               /\ Running(s) \/ s \in over => Running(s)' \/ s \in over'
    <2>1. task[s] = n => of[n] = s
      BY ThreadTypes DEF HandInv
    <2>2. QED
      BY <1>1, <1>3, <2>1 DEF Running
  <1>5. LockInv'
    BY <1>1, <1>2 DEF WordsInv, LockInv, Locked, threads
  <1>6. MainInv' /\ FirstInv'
    BY <1>1, <1>2 DEF WordsInv, MainInv, FirstInv, threads, stores
  <1>7. WordInv'
    <2> SUFFICES ASSUME Quiet' PROVE Words'
      BY DEF WordInv, Words
    <2>1. Words
      BY <1>2 DEF WordsInv, WordInv, Words
    <2>2. ASSUME NEW s \in Strategy PROVE TaskWord(s)'
      BY <1>1, <1>4, <2>1 DEF Words, TaskWord, threads
    <2>3. ASSUME NEW t \in Thread PROVE ThreadWord(t)'
      <3>1. PICK j \in Strategy : j = job[t]
        BY ThreadTypes
      <3>2. job'[t] = j /\ pc'[t] = pc[t] /\ wanted' = wanted /\ ThreadWord(t)
        BY <1>1, <2>1, <3>1 DEF threads, Words
      <3>3. QED
        BY <1>4, <3>1, <3>2 DEF ThreadWord
    <2>4. QED
      BY <2>2, <2>3 DEF Words
  <1>8. RecordInv'
    <2>1. UNCHANGED <<db, redis, redisOn, wanted, pc, job, carry>>
      BY <1>1 DEF stores, threads
    <2>2. QED
      BY <1>2, <2>1 DEF WordsInv, RecordInv, StoreWord, RecordWord
  <1>9. QED
    BY <1>5, <1>6, <1>7, <1>8 DEF WordsInv

\* After a crash nothing runs, and the stores are as they were.
LEMMA CrashWords ==
  ASSUME TypeInv, WordsInv, Crash
  PROVE  WordsInv'
  <1>1. /\ pc' = [t \in Thread |-> IF t = Main THEN "boot" ELSE "idle"]
        /\ again' = [t \in Thread |-> FALSE] /\ todo' = {}
        /\ task' = NoTask /\ active' = {} /\ redisOn' \in BOOLEAN
        /\ db' = db /\ redis' = redis /\ wanted' = wanted
    BY DEF Crash
  <1>2. \A t \in Thread : pc'[t] = IF t = Main THEN "boot" ELSE "idle"
    BY <1>1
  <1>3. /\ used' \in [Events -> Nat] /\ \A e \in Events : used'[e] >= used[e]
        /\ Use("crash") \/ Use("down")
    BY UseCounts, ThreadTypes DEF Crash, Events, Trouble
  <1>4. /\ ~SameProcess'
        /\ Undisturbed' => Undisturbed /\ redisOn' = TRUE
    <2>1. ~SameProcess'
      BY <1>3, Disturbs, ThreadTypes
    <2>2. Undisturbed' => Undisturbed
      BY <1>3, QuietBefore, ThreadTypes
    <2>3. Undisturbed' => redisOn' = TRUE
      BY Disturbs, ThreadTypes DEF Crash
    <2>4. QED
      BY <2>1, <2>2, <2>3
  <1>5. LockInv'
    <2>1. \A t \in Thread : again'[t] = FALSE
      BY <1>1
    <2>2. QED
      BY <1>2, <2>1 DEF LockInv, Locked
  <1>6. MainInv' /\ FirstInv'
    BY <1>1, <1>2, <1>4, Threads, MainAssumption DEF MainInv, FirstInv
  <1>7. WordInv'
    <2>1. ASSUME Quiet', NEW s \in Strategy PROVE TaskWord(s)'
      <3>1. ~Running(s)' /\ s \notin todo' /\ pc'[Main] = "boot"
        BY <1>1, <1>2, Threads DEF Running
      <3>2. QED
        BY <3>1 DEF TaskWord
    <2>2. ASSUME NEW t \in Thread PROVE ThreadWord(t)'
      BY <1>2 DEF ThreadWord
    <2>3. QED
      BY <2>1, <2>2 DEF WordInv
  <1>8. RecordInv'
    BY <1>1, <1>2, <1>4 DEF WordsInv, RecordInv, StoreWord, RecordWord
  <1>9. QED
    BY <1>5, <1>6, <1>7, <1>8 DEF WordsInv

LEMMA WordsStart == Init => WordsInv
  <1> SUFFICES ASSUME Init PROVE WordsInv
    OBVIOUS
  <1>1. /\ db = NoRows /\ redis = NoRows /\ redisOn = TRUE
        /\ pc = [t \in Thread |-> IF t = Main THEN "boot" ELSE "idle"]
        /\ again = [t \in Thread |-> FALSE] /\ todo = {} /\ active = {}
        /\ wanted = [s \in Strategy |-> "none"]
    BY DEF Init
  <1>2. /\ \A t \in Thread : pc[t] = IF t = Main THEN "boot" ELSE "idle"
        /\ \A s \in Strategy :
             wanted[s] = "none" /\ db[s] = "none" /\ redis[s] = "none"
    BY <1>1 DEF NoRows
  <1>3. LockInv
    <2>1. \A t \in Thread : again[t] = FALSE
      BY <1>1
    <2>2. QED
      BY <1>2, <2>1 DEF LockInv, Locked
  <1>4. MainInv /\ FirstInv
    BY <1>1, <1>2, Threads, MainAssumption DEF MainInv, FirstInv
  <1>5. WordInv
    BY <1>1, <1>2 DEF WordInv, TaskWord, ThreadWord
  <1>6. RecordInv
    BY <1>1, <1>2 DEF RecordInv, StoreWord, RecordWord
  <1>7. QED
    BY <1>3, <1>4, <1>5, <1>6 DEF WordsInv

LEMMA WordsKeep ==
  TypeInv /\ HandInv /\ WordsInv /\ [Next]_vars => WordsInv'
  <1> SUFFICES ASSUME TypeInv, HandInv, WordsInv, [Next]_vars PROVE WordsInv'
    OBVIOUS
  <1>1. CASE Crash
    BY <1>1, CrashWords
  <1>2. ASSUME NEW t \in Thread, Proceed(t) \/ (t \in Caller /\ Request(t))
        PROVE  WordsInv'
    BY <1>2, LockKeeps, MainKeeps, FirstKeeps, WordKeeps, RecordKeeps
    DEF WordsInv
  <1>3. ASSUME NEW n \in Made, Loop(n) PROVE WordsInv'
    BY <1>3, LoopWords
  <1>4. CASE UNCHANGED vars
    <2> USE <1>4 DEF vars, stores, threads, tasks
    <2>1. LockInv'
      BY DEF WordsInv, LockInv, Without, Locked
    <2>2. MainInv' /\ FirstInv'
      BY DEF WordsInv, MainInv, FirstInv, SameProcess, Without
    <2>3. WordInv'
      BY DEF WordsInv, WordInv, Quiet, Undisturbed, SameProcess, Without,
             TaskWord, ThreadWord, Running
    <2>4. RecordInv'
      BY DEF WordsInv, RecordInv, Undisturbed, Without, StoreWord, RecordWord
    <2>5. QED
      BY <2>1, <2>2, <2>3, <2>4 DEF WordsInv
  <1>5. QED
    BY <1>1, <1>2, <1>3, <1>4, Threads DEF Next

\* The last acknowledged request holds.  As long as the stores answer and
\* nobody writes the record beside the mutex, a strategy that was started runs
\* or has ended by itself, and is ACTIVE in both stores, and one that was
\* stopped neither runs nor is ACTIVE in either: over any number of restarts.
\* Until the first restart the same is so of the tasks, whatever the stores do.
THEOREM LastWordStands == Spec => []LastWordHolds
  <1>1. TypeInv /\ WordsInv => LastWordHolds
    <2> SUFFICES ASSUME TypeInv, WordsInv, NEW s \in Strategy, ~Busy(s)
                 PROVE
                   /\ Undisturbed \/ SameProcess =>
                        /\ wanted[s] = "run"  => Running(s) \/ s \in over
                        /\ wanted[s] = "stop" => ~Running(s)
                   /\ Undisturbed =>
                        /\ wanted[s] = "run"  =>
                             db[s] = "ACTIVE" /\ redis[s] = "ACTIVE"
                        /\ wanted[s] = "stop" =>
                             db[s] # "ACTIVE" /\ redis[s] # "ACTIVE"
      BY DEF LastWordHolds
    <2>1. pc[Main] = "ready" /\ todo = {}
      BY DEF Busy, WordsInv, MainInv
    <2>2. Undisturbed \/ SameProcess => TaskWord(s)
      BY DEF WordsInv, WordInv, Quiet
    <2>3. Undisturbed => StoreWord(s)
      BY DEF WordsInv, RecordInv
    <2>4. QED
      BY <2>1, <2>2, <2>3 DEF TaskWord, StoreWord
  <1>2. Init => HandInv /\ WordsInv
    BY WordsStart, HandStart
  <1>3. TypeInv /\ PlanInv /\ HandInv /\ WordsInv /\ [Next]_vars
          => HandInv' /\ WordsInv'
    BY HandKeeps, WordsKeep
  <1>4. QED
    BY <1>1, <1>2, <1>3, Kept, PTL DEF Spec

=============================================================================
