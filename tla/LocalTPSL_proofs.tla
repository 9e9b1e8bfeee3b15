-------------------------- MODULE LocalTPSL_proofs --------------------------
(***************************************************************************)
(* Proofs about LocalTPSL, for any set of conditions, groups and handler   *)
(* goroutines and any bounds.                                              *)
(*                                                                         *)
(* TypeCorrect comes first; then, each with the invariant it needs: that a *)
(* row is watched (WatchedWhenActive itself), that an object sells once    *)
(* (SpareInv), that everything has its row (RecordInv), that a stop ends   *)
(* its group (CourseInv, DownInv), and how far the three stores agree      *)
(* (RealInv, StoresInv, AloneInv).                                         *)
(***************************************************************************)
EXTENDS LocalTPSL, TLAPS

LEMMA ObjFacts ==
  /\ \A o \in Obj : Id(o) \in Cond
  /\ \A c \in Cond, n \in Nat : <<c, n>> \in Obj /\ Id(<<c, n>>) = c
  BY DEF Obj, Id

LEMMA MadeObjects ==
  ASSUME DataOK, NEW c \in Cond
  PROVE  /\ <<c, made[c] + 1>> \in Obj /\ <<c, mem[c]>> \in Obj
         /\ mem[c] \in Nat /\ made[c] \in Nat
  BY ObjFacts DEF DataOK

LEMMA ListedLive == ASSUME NEW C PROVE Listed(C) \subseteq live
  BY DEF Listed

LEMMA InitTypeOK == Init => TypeOK
  <1> SUFFICES ASSUME Init PROVE TypeOK
    OBVIOUS
  <1>1. DataOK /\ CountOK
    BY DEF Init, DataOK, CountOK, Status
  <1>2. ThreadOK
    BY DEF Init, ThreadOK, Labels, Ways, AtHand, NoHit
  <1>3. QED
    BY <1>1, <1>2 DEF TypeOK

\* A thread that returns keeps the object only where it is still at hand.
LEMMA ReturnTypeOK ==
  ASSUME TypeOK, NEW t \in Thread, pc[t] \in {"hdel", "put"}, Return(t)
  PROVE  /\ pc' \in [Thread -> Labels]
         /\ ret' \in [Thread -> {"idle", "fire", "create", "link", "next",
                                "load"}]
         /\ cur' \in [Thread -> Obj \cup {NoObj}]
         /\ \A u \in Thread : pc'[u] \in AtHand => cur'[u] \in Obj
         /\ \A u \in Thread :
              pc'[u] \in {"mark", "db"} => pc[u] \in {"mark", "db"}
  <1> USE DEF TypeOK, DataOK, ThreadOK, CountOK, Return, Goto
  <1>1. pc' \in [Thread -> Labels]
    BY DEF Labels
  <1>2. cur[t] \in Obj
    BY DEF AtHand
  <1>3. cur' \in [Thread -> Obj \cup {NoObj}]
    OBVIOUS
  <1>4. pc'[t] \in AtHand => cur'[t] \in Obj
    BY <1>2 DEF AtHand
  <1>5. \A u \in Thread \ {t} : pc'[u] = pc[u] /\ cur'[u] = cur[u]
    OBVIOUS
  <1>6. pc'[t] \notin {"mark", "db"}
    OBVIOUS
  <1>7. QED
    BY <1>1, <1>3, <1>4, <1>5, <1>6

\* The three writes of updateConditionStatus and the two of the upsert.
LEMMA WriteTypeOK ==
  ASSUME TypeOK, NEW t \in Thread, Write(t) PROVE TypeOK'
  <1> USE ObjFacts DEF TypeOK, DataOK, ThreadOK, CountOK, Goto, Return, Labels, AtHand, Terminal, Status
  <1>1. CASE MarkStatus(t)
    BY <1>1 DEF MarkStatus, counts
  <1>2. CASE UpdateRow(t)
    <2>1. cur[t] \in Obj /\ Id(cur[t]) \in Cond /\ st[t] \in Terminal
      BY <1>2, ObjFacts DEF UpdateRow
    <2>2. db' \in [Cond -> Status] /\ dbFaults' \in Nat
      BY <1>2, <2>1 DEF UpdateRow, DBFails
    <2>3. DataOK' /\ CountOK'
      BY <1>2, <2>2 DEF UpdateRow
    <2>4. /\ st' \in [Thread -> Terminal \cup {"none"}]
          /\ pc' \in [Thread -> Labels]
      BY <1>2 DEF UpdateRow
    <2>5. \A u \in Thread : pc'[u] \in {"mark", "db"} => st'[u] \in Terminal
      BY <1>2 DEF UpdateRow
    <2>6. \A u \in Thread : pc'[u] \in AtHand => cur'[u] \in Obj
      BY <1>2, <2>1 DEF UpdateRow
    <2>7. ThreadOK'
      BY <1>2, <2>4, <2>5, <2>6 DEF UpdateRow
    <2>8. QED
      BY <2>3, <2>7
  <1>3. CASE RemoveFromRedis(t)
    <2>1. Return(t) /\ pc[t] = "hdel"
      BY <1>3 DEF RemoveFromRedis
    <2>a. redis \subseteq Cond /\ redisFaults \in Nat
      OBVIOUS
    <2> HIDE DEF TypeOK, DataOK, ThreadOK, CountOK
    <2>2. redis' \subseteq Cond /\ redisFaults' \in Nat
      BY <1>3, <2>a DEF RemoveFromRedis, RedisFails
    <2> USE DEF TypeOK, DataOK, ThreadOK, CountOK
    <2> HIDE DEF Return, Goto, AtHand
    <2>3. QED
      BY <1>3, <2>1, <2>2, ReturnTypeOK DEF RemoveFromRedis
  <1>4. CASE CheckActive(t)
    BY <1>4 DEF CheckActive, data, counts
  <1>5. CASE PutToRedis(t)
    <2>1. Return(t) /\ pc[t] = "put"
      BY <1>5 DEF PutToRedis
    <2>a. redis \subseteq Cond /\ redisFaults \in Nat /\ Id(cur[t]) \in Cond
      BY <2>1
    <2> HIDE DEF TypeOK, DataOK, ThreadOK, CountOK
    <2>2. redis' \subseteq Cond /\ redisFaults' \in Nat
      BY <1>5, <2>a DEF PutToRedis, RedisFails
    <2> USE DEF TypeOK, DataOK, ThreadOK, CountOK
    <2> HIDE DEF Return, Goto, AtHand
    <2>3. QED
      BY <1>5, <2>1, <2>2, ReturnTypeOK DEF PutToRedis
  <1>6. QED
    BY <1>1, <1>2, <1>3, <1>4, <1>5 DEF Write

LEMMA AddToMemoryTypeOK ==
  ASSUME DataOK, NEW c \in Cond, AddToMemory(c)
  PROVE  /\ mem' \in [Cond -> Nat] /\ made' \in [Cond -> Nat]
         /\ \A d \in Cond : mem'[d] <= made'[d]
         /\ live' \subseteq Obj
  <1>1. /\ <<c, made[c] + 1>> \in Obj /\ <<c, mem[c]>> \in Obj
        /\ mem[c] \in Nat /\ made[c] \in Nat
    BY MadeObjects
  <1>2. /\ made' = [made EXCEPT ![c] = made[c] + 1]
        /\ mem' = mem \/ mem' = [mem EXCEPT ![c] = made[c] + 1]
        /\ live' \subseteq live \cup {<<c, made[c] + 1>>, <<c, mem[c]>>}
    BY DEF AddToMemory
  <1>3. live' \subseteq Obj
    BY <1>1, <1>2 DEF DataOK
  <1>4. made' \in [Cond -> Nat] /\ mem' \in [Cond -> Nat]
    BY <1>1, <1>2 DEF DataOK
  <1>5. ASSUME NEW d \in Cond PROVE mem'[d] <= made'[d]
    BY <1>1, <1>2 DEF DataOK
  <1>6. QED
    BY <1>3, <1>4, <1>5

\* Registration, by a handler or by the partial take profit.
LEMMA RegisterTypeOK ==
  ASSUME TypeOK, NEW t \in Thread,
         \/ \E B \in Batch : StartRegister(t, B)
         \/ \E c \in Cond : CreateRow(t, c)
         \/ InsertNew(t)
  PROVE  TypeOK'
  <1> USE DEF TypeOK, DataOK, ThreadOK, CountOK, Goto, Labels, AtHand
  <1>1. ASSUME NEW B \in Batch, StartRegister(t, B) PROVE TypeOK'
    BY <1>1, BatchAssumption DEF StartRegister, Called, data
  <1>2. ASSUME NEW c \in Cond, CreateRow(t, c) PROVE TypeOK'
    <2>1. <<c, 0>> \in Obj
      BY ObjFacts
    <2>2. db' \in [Cond -> Status] /\ dbFaults' \in Nat
      BY <1>2 DEF CreateRow, DBFails, Status
    <2>3. DataOK' /\ CountOK'
      BY <1>2, <2>2 DEF CreateRow
    <2>4. /\ pc' \in [Thread -> Labels]
          /\ cur' \in [Thread -> Obj \cup {NoObj}]
          /\ work' \in [Thread -> SUBSET Cond]
      BY <1>2, <2>1 DEF CreateRow, Registered
    <2>5. \A u \in Thread : pc'[u] \in {"mark", "db"} => st'[u] \in Terminal
      BY <1>2 DEF CreateRow, Registered
    <2>6. \A u \in Thread : pc'[u] \in AtHand => cur'[u] \in Obj
      <3>1. \A u \in Thread \ {t} : pc'[u] = pc[u] /\ cur'[u] = cur[u]
        BY <1>2 DEF CreateRow
      <3>2. pc'[t] \in AtHand => cur'[t] = <<c, 0>>
        BY <1>2 DEF CreateRow, Registered
      <3>3. QED
        BY <2>1, <3>1, <3>2
    <2>7. UNCHANGED <<todo, hit, st, ret, rest>>
      BY <1>2 DEF CreateRow
    <2>8. ThreadOK'
      BY <2>4, <2>5, <2>6, <2>7
    <2>9. QED
      BY <2>3, <2>8
  <1>3. CASE InsertNew(t)
    <2>1. Id(cur[t]) \in Cond /\ AddToMemory(Id(cur[t]))
      BY <1>3, ObjFacts DEF InsertNew
    <2>2. <<Id(cur[t]), made[Id(cur[t])] + 1>> \in Obj
      BY <2>1, MadeObjects
    <2>3. DataOK' /\ CountOK'
      BY <1>3, <2>1, AddToMemoryTypeOK DEF InsertNew, counts
    <2>4. ThreadOK'
      BY <1>3, <2>2 DEF InsertNew, Registered
    <2>5. QED
      BY <2>3, <2>4
  <1>4. QED
    BY <1>1, <1>2, <1>3

\* Manual cancellation, and the loop it shares with the monitor.
LEMMA CancelTypeOK ==
  ASSUME TypeOK, NEW t \in Thread,
         \/ \E C \in Targets : StartCancel(t, C)
         \/ LookInRedis(t) \/ LookInDB(t) \/ CancelDone(t)
         \/ \E c \in Cond : LoadTarget(t, c)
         \/ \E o \in rest[t] : CancelNext(t, o)
  PROVE  TypeOK'
  <1> USE DEF TypeOK, DataOK, ThreadOK, CountOK, Goto, Labels, AtHand
  <1>1. ASSUME NEW C \in Targets, StartCancel(t, C) PROVE TypeOK'
    <2>1. C \subseteq Cond /\ Listed(C) \subseteq Obj
      BY ListedLive DEF Targets, InGroup
    <2>2. CASE Listed(C) # {}
      BY <1>1, <2>1, <2>2 DEF StartCancel, Called, data
    <2>3. CASE Listed(C) = {}
      BY <1>1, <2>1, <2>3 DEF StartCancel, Called, data
    <2>4. QED
      BY <2>2, <2>3
  <1>2. CASE LookInRedis(t)
    BY <1>2 DEF LookInRedis, RedisFails, data
  <1>3. CASE LookInDB(t)
    BY <1>3 DEF LookInDB, DBFails, ActiveRows, data
  <1>4. CASE CancelDone(t)
    BY <1>4 DEF CancelDone, Home, data, counts
  <1>5. ASSUME NEW c \in Cond, LoadTarget(t, c) PROVE TypeOK'
    <2>1. AddToMemory(c) /\ <<c, made[c] + 1>> \in Obj
      BY <1>5, MadeObjects DEF LoadTarget
    <2>2. QED
      BY <1>5, <2>1, AddToMemoryTypeOK DEF LoadTarget, counts
  <1>6. ASSUME NEW o \in rest[t], CancelNext(t, o) PROVE TypeOK'
    BY <1>6 DEF CancelNext, Terminal, data, counts
  <1>7. QED
    BY <1>1, <1>2, <1>3, <1>4, <1>5, <1>6

\* The list endpoint.
LEMMA ListTypeOK ==
  ASSUME TypeOK, NEW t \in Thread,
         \/ StartList(t) \/ ReadRows(t)
         \/ \E c \in Cond : RefillRedis(t, c)
  PROVE  TypeOK'
  <1> USE DEF TypeOK, DataOK, ThreadOK, CountOK, Goto, Labels, AtHand
  <1>1. CASE StartList(t)
    BY <1>1 DEF StartList, Called, RedisFails, data
  <1>2. CASE ReadRows(t)
    BY <1>2 DEF ReadRows, DBFails, ActiveRows, data
  <1>3. ASSUME NEW c \in Cond, RefillRedis(t, c) PROVE TypeOK'
    <2>1. redis' \subseteq Cond /\ redisFaults' \in Nat
      BY <1>3 DEF RefillRedis, RedisFails
    <2>2. DataOK' /\ CountOK'
      BY <1>3, <2>1 DEF RefillRedis
    <2>3. ThreadOK'
      BY <1>3 DEF RefillRedis
    <2>4. QED
      BY <2>2, <2>3
  <1>4. QED
    BY <1>1, <1>2, <1>3

\* The monitor's tick.
LEMMA TickTypeOK == ASSUME TypeOK, Tick PROVE TypeOK'
  <1> USE DEF TypeOK, DataOK, ThreadOK, CountOK, Goto, Labels, AtHand
  <1>0. Monitor \in Thread
    BY DEF Thread
  <1>1. ASSUME NEW C \in SUBSET Cond, TickStart(C) PROVE TypeOK'
    <2>1. {<<c, mem[c]>> : c \in C} \subseteq Obj
      <3>1. ASSUME NEW c \in C PROVE <<c, mem[c]>> \in Obj
        BY MadeObjects
      <3>2. QED
        BY <3>1
    <2>2. QED
      BY <1>0, <1>1, <2>1 DEF TickStart, data, counts
  <1>2. ASSUME NEW o \in todo, MoveExtremum(o) PROVE TypeOK'
    BY <1>0, <1>2 DEF MoveExtremum, data, counts
  <1>3. ASSUME NEW o \in todo, Leave(o) PROVE TypeOK'
    BY <1>0, <1>3 DEF Leave, Turn, data, counts
  <1>4. ASSUME NEW o \in todo, TriggerFull(o) PROVE TypeOK'
    <2>1. Id(o) \in Cond /\ Id(o) \in Nat
      BY ObjFacts, CondAssumption
    <2>2. DataOK' /\ CountOK'
      BY <1>0, <1>4, <2>1 DEF TriggerFull, data, counts
    <2>3. hit' \in Nat \X Ways
      BY <1>4, <2>1 DEF TriggerFull, Settle, Ways
    <2>4. ThreadOK'
      BY <1>0, <1>4, <2>1, <2>3 DEF TriggerFull, Turn, Settle, Terminal
    <2>5. QED
      BY <2>2, <2>4
  <1>5. ASSUME NEW o \in todo, TriggerClosed(o) PROVE TypeOK'
    <2>1. Id(o) \in Cond /\ Id(o) \in Nat
      BY ObjFacts, CondAssumption
    <2>2. QED
      BY <1>0, <1>5, <2>1
      DEF TriggerClosed, Turn, Settle, Ways, Terminal, data, counts
  <1>6. ASSUME NEW o \in todo, NEW p \in Pool, TriggerPartial(o, p)
        PROVE  TypeOK'
    <2>1. Id(o) \in Cond /\ Id(o) \in Nat
      BY ObjFacts, CondAssumption
    <2>2. DataOK' /\ CountOK'
      BY <1>0, <1>6, <2>1 DEF TriggerPartial, data, counts
    <2>3. hit' \in Nat \X Ways
      BY <1>6, <2>1 DEF TriggerPartial, Settle, Ways
    <2>4. ThreadOK'
      BY <1>0, <1>6, <2>1, <2>3, CondAssumption DEF TriggerPartial, Turn, Settle, Terminal
    <2>5. QED
      BY <2>2, <2>4
  <1>7. CASE CollectLinked
    <2>1. Linked(hit[1], hit[2]) \subseteq Obj
      BY ListedLive DEF Linked
    <2>2. QED
      BY <1>0, <1>7, <2>1 DEF CollectLinked, NoHit, Ways, data, counts
  <1>8. QED
    BY <1>1, <1>2, <1>3, <1>4, <1>5, <1>6, <1>7 DEF Tick

\* A restart builds every thread's state anew.
LEMMA BootTypeOK ==
  ASSUME TypeOK, NEW S \in SUBSET Cond, Boot(S),
         redis' \subseteq Cond, dbFaults' \in Nat, redisFaults' \in Nat
  PROVE  TypeOK'
  <1> USE DEF TypeOK, DataOK, ThreadOK, CountOK, Boot
  <1>1. live' \subseteq Obj
    BY ObjFacts
  <1>2. made' \in [Cond -> Nat] /\ mem' \in [Cond -> Nat]
        /\ \A c \in Cond : mem'[c] <= made'[c]
    OBVIOUS
  <1>3. hit' \in Nat \X Ways
    BY DEF NoHit, Ways
  <1>4. QED
    BY <1>1, <1>2, <1>3 DEF Labels, AtHand

LEMMA RestartTypeOK == ASSUME TypeOK, Restart PROVE TypeOK'
  <1>1. ActiveRows \subseteq Cond /\ redis \subseteq Cond
        /\ dbFaults \in Nat /\ redisFaults \in Nat
    BY DEF TypeOK, DataOK, ThreadOK, CountOK, ActiveRows
  <1>2. CASE RestartFromRedis
    BY <1>1, <1>2, BootTypeOK DEF RestartFromRedis
  <1>3. CASE RestartFromDB
    <2>1. redis' \subseteq Cond /\ redisFaults' \in Nat /\ dbFaults' \in Nat
      BY <1>1, <1>3 DEF RestartFromDB, RedisFails
    <2>2. Boot(ActiveRows)
      BY <1>3 DEF RestartFromDB
    <2>3. QED
      BY <1>1, <2>1, <2>2, BootTypeOK
  <1>4. CASE RestartEmpty
    BY <1>1, <1>4, BootTypeOK DEF RestartEmpty, RedisFails, DBFails
  <1>5. QED
    BY <1>2, <1>3, <1>4 DEF Restart

LEMMA NextTypeOK == TypeOK /\ [Next]_vars => TypeOK'
  <1> SUFFICES ASSUME TypeOK, [Next]_vars PROVE TypeOK'
    OBVIOUS
  <1>1. CASE Tick
    BY <1>1, TickTypeOK
  <1>2. CASE Restart
    BY <1>2, RestartTypeOK
  <1>3. ASSUME NEW t \in Thread, Proceed(t) PROVE TypeOK'
    BY <1>3, WriteTypeOK, RegisterTypeOK, CancelTypeOK, ListTypeOK
    DEF Proceed
  <1>4. ASSUME NEW t \in Caller, Request(t) PROVE TypeOK'
    <2>1. t \in Thread
      BY DEF Thread
    <2>2. QED
      BY <1>4, <2>1, RegisterTypeOK, CancelTypeOK, ListTypeOK DEF Request
  <1>5. CASE UNCHANGED vars
    BY <1>5 DEF TypeOK, DataOK, ThreadOK, CountOK, vars, data, locals, counts
  <1>6. QED
    BY <1>1, <1>2, <1>3, <1>4, <1>5 DEF Next

\* Every reachable state is well typed: what UpdateRow writes is terminal and
\* the monitor's list holds only objects that were made.
THEOREM TypeCorrect == Spec => []TypeOK
  <1>1. QED
    BY InitTypeOK, NextTypeOK, PTL DEF Spec

-----------------------------------------------------------------------------
(***************************************************************************)
(* No ACTIVE row goes unwatched.  WatchedWhenActive is inductive: the only *)
(* steps that touch what it relates are the three below; all the others    *)
(* are of a thread that is not inside one of the two windows.              *)
(***************************************************************************)
Clean == restarts = 0 /\ dbFaults = 0
Window(t) == pc[t] \in {"insert", "db"}

LEMMA OutsideWindows ==
  ASSUME WatchedWhenActive, NEW t \in Thread, ~Window(t),
         UNCHANGED <<db, mem>>, Clean' => Clean,
         \A u \in Thread \ {t} : pc'[u] = pc[u] /\ cur'[u] = cur[u]
  PROVE  WatchedWhenActive'
  BY DEF WatchedWhenActive, ActiveRows, Window, Clean

LEMMA MarkWatched ==
  ASSUME TypeOK, WatchedWhenActive, NEW t \in Thread, MarkStatus(t)
  PROVE  WatchedWhenActive'
  <1> SUFFICES ASSUME Clean', NEW c \in ActiveRows'
               PROVE  \/ mem'[c] # 0
                      \/ \E u \in Thread : Window(u)' /\ Id(cur'[u]) = c
    BY DEF WatchedWhenActive, Clean, Window
  <1>1. c \in ActiveRows /\ Clean
    BY DEF MarkStatus, ActiveRows, Clean, counts
  <1>2. CASE c = Id(cur[t])
    <2>1. pc'[t] = "db" /\ cur'[t] = cur[t]
      BY DEF MarkStatus, Goto, TypeOK, ThreadOK
    <2>2. QED
      BY <1>2, <2>1 DEF Window
  <1>3. CASE c # Id(cur[t])
    <2>1. mem'[c] = mem[c]
      BY <1>3, <1>1 DEF MarkStatus, TypeOK, DataOK, ActiveRows
    <2>2. \A u \in Thread : Window(u) => Window(u)' /\ cur'[u] = cur[u]
      BY DEF MarkStatus, Goto, Window, TypeOK, ThreadOK
    <2>3. QED
      BY <1>1, <2>1, <2>2 DEF WatchedWhenActive, Clean, Window
  <1>4. QED
    BY <1>2, <1>3

LEMMA UpdateWatched ==
  ASSUME TypeOK, WatchedWhenActive, NEW t \in Thread, UpdateRow(t)
  PROVE  WatchedWhenActive'
  <1> SUFFICES ASSUME Clean', NEW c \in ActiveRows'
               PROVE  \/ mem'[c] # 0
                      \/ \E u \in Thread : Window(u)' /\ Id(cur'[u]) = c
    BY DEF WatchedWhenActive, Clean, Window
  <1>1. Clean /\ db' = [db EXCEPT ![Id(cur[t])] = st[t]]
    BY DEF UpdateRow, DBFails, Clean, TypeOK, CountOK
  <1>2. st[t] \in Terminal
    BY DEF UpdateRow, TypeOK, ThreadOK
  <1>3. c \in ActiveRows /\ c # Id(cur[t])
    BY <1>1, <1>2 DEF ActiveRows, Terminal, TypeOK, DataOK
  <1>4. \A u \in Thread : Window(u) /\ Id(cur[u]) = c => Window(u)'
    BY <1>3 DEF UpdateRow, Goto, Window, TypeOK, ThreadOK
  <1>5. QED
    BY <1>1, <1>3, <1>4 DEF WatchedWhenActive, Clean, Window, UpdateRow

LEMMA CreateWatched ==
  ASSUME TypeOK, WatchedWhenActive, NEW t \in Thread, NEW d \in Cond,
         CreateRow(t, d)
  PROVE  WatchedWhenActive'
  <1> SUFFICES ASSUME Clean', NEW c \in ActiveRows'
               PROVE  \/ mem'[c] # 0
                      \/ \E u \in Thread : Window(u)' /\ Id(cur'[u]) = c
    BY DEF WatchedWhenActive, Clean, Window
  <1>1. /\ Clean /\ pc[t] = "create" /\ mem' = mem
        /\ db' = [db EXCEPT ![d] = "ACTIVE"]
        /\ cur' = [cur EXCEPT ![t] = <<d, 0>>]
        /\ pc' = [pc EXCEPT ![t] = "insert"]
    BY DEF CreateRow, Goto, DBFails, Clean, TypeOK, CountOK
  <1>2. CASE c = d
    BY <1>1, <1>2 DEF Window, Id, TypeOK, ThreadOK
  <1>3. CASE c # d
    <2>1. c \in ActiveRows
      BY <1>1, <1>3 DEF ActiveRows, TypeOK, DataOK
    <2>2. \A u \in Thread : Window(u) => Window(u)' /\ cur'[u] = cur[u]
      BY <1>1 DEF Window, TypeOK, ThreadOK
    <2>3. QED
      BY <1>1, <2>1, <2>2 DEF WatchedWhenActive, Clean, Window
  <1>4. QED
    BY <1>2, <1>3

\* addToMemory leaves an entry for its condition and disturbs no other.
LEMMA AddedIsListed ==
  ASSUME DataOK, NEW c \in Cond, AddToMemory(c)
  PROVE  mem'[c] # 0 /\ \A d \in Cond : mem[d] # 0 => mem'[d] # 0
  BY DEF AddToMemory, DataOK

LEMMA AddWatched ==
  ASSUME TypeOK, WatchedWhenActive, NEW t \in Thread,
         InsertNew(t) \/ \E c \in Cond : LoadTarget(t, c)
  PROVE  WatchedWhenActive'
  <1> SUFFICES ASSUME Clean', NEW c \in ActiveRows'
               PROVE  \/ mem'[c] # 0
                      \/ \E u \in Thread : Window(u)' /\ Id(cur'[u]) = c
    BY DEF WatchedWhenActive, Clean, Window
  <1>1. PICK d \in Cond :
          /\ AddToMemory(d)
          /\ Window(t) => Id(cur[t]) = d
          /\ \A u \in Thread \ {t} : pc'[u] = pc[u] /\ cur'[u] = cur[u]
    <2>1. CASE InsertNew(t)
      <3>1. Id(cur[t]) \in Cond
        BY <2>1, ObjFacts DEF InsertNew, TypeOK, ThreadOK, AtHand
      <3>2. QED
        BY <2>1, <3>1 DEF InsertNew, Goto, TypeOK, ThreadOK
    <2>2. ASSUME NEW d \in Cond, LoadTarget(t, d)
          PROVE  /\ AddToMemory(d) /\ ~Window(t)
                 /\ \A u \in Thread \ {t} :
                      pc'[u] = pc[u] /\ cur'[u] = cur[u]
      BY <2>2 DEF LoadTarget, Goto, Window, TypeOK, ThreadOK
    <2>3. QED
      BY <2>1, <2>2
  <1>2. c \in ActiveRows /\ Clean
    BY DEF InsertNew, LoadTarget, ActiveRows, Clean, counts
  <1>3. mem'[d] # 0 /\ \A e \in Cond : mem[e] # 0 => mem'[e] # 0
    BY <1>1, AddedIsListed DEF TypeOK
  <1>4. QED
    BY <1>1, <1>2, <1>3 DEF WatchedWhenActive, Clean, Window, ActiveRows

\* The other steps of a thread.
Elsewhere(t) ==
  \/ RemoveFromRedis(t) \/ CheckActive(t) \/ PutToRedis(t)
  \/ CancelDone(t) \/ LookInRedis(t) \/ LookInDB(t) \/ ReadRows(t)
  \/ \E c \in Cond : RefillRedis(t, c)
  \/ \E o \in rest[t] : CancelNext(t, o)
  \/ \E B \in Batch : StartRegister(t, B)
  \/ \E C \in Targets : StartCancel(t, C)
  \/ StartList(t)

LEMMA ElsewhereWatched ==
  ASSUME TypeOK, WatchedWhenActive, NEW t \in Thread, Elsewhere(t)
  PROVE  WatchedWhenActive'
  <1>1. /\ ~Window(t) /\ UNCHANGED <<db, mem>> /\ restarts' = restarts
        /\ dbFaults' = dbFaults \/ dbFaults' = dbFaults + 1
        /\ \A u \in Thread \ {t} : pc'[u] = pc[u] /\ cur'[u] = cur[u]
    <2> USE DEF Window, Goto, data, counts, TypeOK, ThreadOK
    <2>1. CASE RemoveFromRedis(t) \/ CheckActive(t) \/ PutToRedis(t)
      BY <2>1 DEF RemoveFromRedis, CheckActive, PutToRedis, Return
    <2>2. CASE CancelDone(t) \/ \E o \in rest[t] : CancelNext(t, o)
      BY <2>2 DEF CancelDone, CancelNext
    <2>3. CASE LookInRedis(t) \/ LookInDB(t) \/ ReadRows(t)
      BY <2>3 DEF LookInRedis, LookInDB, ReadRows, DBFails
    <2>4. CASE \E c \in Cond : RefillRedis(t, c)
      BY <2>4 DEF RefillRedis
    <2>5. CASE StartList(t) \/ \E B \in Batch : StartRegister(t, B)
      BY <2>5 DEF StartList, StartRegister, Called
    <2>6. CASE \E C \in Targets : StartCancel(t, C)
      BY <2>6 DEF StartCancel, Called
    <2>7. QED
      BY <2>1, <2>2, <2>3, <2>4, <2>5, <2>6 DEF Elsewhere
  <1>2. Clean' => Clean
    BY <1>1 DEF Clean, TypeOK, CountOK
  <1>3. QED
    BY <1>1, <1>2, OutsideWindows

LEMMA TickWatched ==
  ASSUME TypeOK, WatchedWhenActive, Tick PROVE WatchedWhenActive'
  <1>0. Monitor \in Thread
    BY DEF Thread
  <1>1. /\ ~Window(Monitor) /\ UNCHANGED <<db, mem, counts>>
        /\ \A u \in Thread \ {Monitor} : pc'[u] = pc[u] /\ cur'[u] = cur[u]
    <2> USE DEF Window, Goto, data, TypeOK, ThreadOK
    <2>1. CASE \E C \in SUBSET Cond : TickStart(C)
      BY <1>0, <2>1 DEF TickStart
    <2>2. CASE \E o \in todo : MoveExtremum(o) \/ Leave(o)
      BY <1>0, <2>2 DEF MoveExtremum, Leave, Turn
    <2>3. CASE \E o \in todo : TriggerFull(o) \/ TriggerClosed(o)
      BY <1>0, <2>3 DEF TriggerFull, TriggerClosed, Turn, Settle
    <2>4. CASE \E o \in todo, p \in Pool : TriggerPartial(o, p)
      BY <1>0, <2>4 DEF TriggerPartial, Turn, Settle
    <2>5. CASE CollectLinked
      BY <1>0, <2>5 DEF CollectLinked
    <2>6. QED
      BY <2>1, <2>2, <2>3, <2>4, <2>5 DEF Tick
  <1>2. Clean' => Clean
    BY <1>1 DEF Clean, counts
  <1>3. QED
    BY <1>0, <1>1, <1>2, OutsideWindows

LEMMA RestartWatched == ASSUME TypeOK, Restart PROVE WatchedWhenActive'
  <1>1. restarts' = restarts + 1
    BY DEF Restart, RestartFromRedis, RestartFromDB, RestartEmpty, Boot
  <1>2. restarts' # 0
    BY <1>1 DEF TypeOK, CountOK
  <1>3. QED
    BY <1>2 DEF WatchedWhenActive

\* Short of a restart or a failed UPDATE, every row that says ACTIVE is in the
\* monitor's list or in the hands of a thread that is about to insert it or to
\* write its final status.
THEOREM ActiveIsWatched == Spec => []WatchedWhenActive
  <1>1. Init => WatchedWhenActive
    BY DEF Init, WatchedWhenActive, ActiveRows
  <1>2. TypeOK /\ WatchedWhenActive /\ [Next]_vars => WatchedWhenActive'
    <2> SUFFICES ASSUME TypeOK, WatchedWhenActive, [Next]_vars
                 PROVE  WatchedWhenActive'
      OBVIOUS
    <2>1. CASE Tick
      BY <2>1, TickWatched
    <2>2. CASE Restart
      BY <2>2, RestartWatched
    <2>3. ASSUME NEW t \in Thread, Proceed(t) PROVE WatchedWhenActive'
      BY <2>3, MarkWatched, UpdateWatched, CreateWatched, AddWatched,
         ElsewhereWatched
      DEF Proceed, Write, Elsewhere
    <2>4. ASSUME NEW t \in Caller, Request(t) PROVE WatchedWhenActive'
      BY <2>4, ElsewhereWatched DEF Request, Elsewhere, Thread
    <2>5. CASE UNCHANGED vars
      BY <2>5
      DEF WatchedWhenActive, ActiveRows, vars, data, locals, counts
    <2>6. QED
      BY <2>1, <2>2, <2>3, <2>4, <2>5 DEF Next
  <1>3. QED
    BY <1>1, <1>2, TypeCorrect, PTL DEF Spec

-----------------------------------------------------------------------------
(***************************************************************************)
(* At most one accepted order per object.  AckedOncePerLoad is not         *)
(* inductive: a condition that can still fire must have an object to       *)
(* spare.  Firing spends it, and what was fired cannot fire again until    *)
(* removeFromMemory has run, after which only a new object can.            *)
(***************************************************************************)

\* The monitor has sent the order for c and has yet to drop c from the list.
Settling(c) ==
  pc[Monitor] = "mark" /\ st[Monitor] = "TRIGGERED" /\ Id(cur[Monitor]) = c
InTick(c)   == \E o \in todo : Id(o) = c
Fireable(c) == (mem[c] # 0 \/ InTick(c)) /\ ~Settling(c)

SpareInv ==
  /\ \A c \in Cond : acked[c] <= made[c]
  /\ \A c \in Cond : Fireable(c) => acked[c] < made[c]
  /\ \A c \in Cond : Settling(c) => ~InTick(c)
  /\ \A o1, o2 \in todo : Id(o1) = Id(o2) => o1 = o2

\* A step that fires nothing, makes nothing and does not end a settlement.
LEMMA SpareFrame ==
  ASSUME TypeOK, SpareInv, UNCHANGED <<made, acked>>,
         todo' \subseteq todo \/ \A o \in todo' : mem[Id(o)] # 0,
         \A o1, o2 \in todo' : Id(o1) = Id(o2) => o1 = o2,
         \A c \in Cond : mem'[c] # 0 => mem[c] # 0,
         \A c \in Cond : Settling(c)' => Settling(c),
         \A c \in Cond : Settling(c) /\ ~Settling(c)' =>
                          mem'[c] = 0 /\ todo' = todo,
         \A c \in Cond : Settling(c) /\ Settling(c)' => todo' = todo
  PROVE  SpareInv'
  <1>1. \A c \in Cond : InTick(c)' => InTick(c) \/ mem[c] # 0
    BY DEF InTick
  <1>2. ASSUME NEW c \in Cond, Fireable(c)' PROVE Fireable(c)
    <2>1. CASE Settling(c)
      BY <1>2, <2>1 DEF Fireable, SpareInv, InTick
    <2>2. CASE ~Settling(c)
      BY <1>1, <1>2, <2>2 DEF Fireable
    <2>3. QED
      BY <2>1, <2>2
  <1>3. ASSUME NEW c \in Cond, Settling(c)' PROVE ~InTick(c)'
    BY <1>3 DEF SpareInv, InTick
  <1>4. QED
    BY <1>2, <1>3 DEF SpareInv

\* A step that makes one more object of d and fires nothing.
LEMMA SpareAdd ==
  ASSUME TypeOK, SpareInv, NEW d \in Cond, AddToMemory(d),
         UNCHANGED <<acked, todo>>,
         \A c \in Cond : Settling(c)' <=> Settling(c)
  PROVE  SpareInv'
  <1>1. /\ made' = [made EXCEPT ![d] = made[d] + 1]
        /\ \A c \in Cond \ {d} : mem'[c] = mem[c]
    BY DEF AddToMemory, TypeOK, DataOK
  <1>2. ASSUME NEW c \in Cond
        PROVE  acked'[c] <= made'[c] /\ (Fireable(c)' => acked'[c] < made'[c])
    <2>1. CASE c = d
      BY <1>1, <2>1 DEF SpareInv, TypeOK, DataOK, CountOK
    <2>2. CASE c # d
      BY <1>1, <2>2 DEF SpareInv, Fireable, InTick, TypeOK, DataOK
    <2>3. QED
      BY <2>1, <2>2
  <1>3. QED
    BY <1>2 DEF SpareInv, InTick

\* The order for o is accepted.
LEMMA SpareFire ==
  ASSUME TypeOK, SpareInv, NEW o \in todo, Turn(o),
         UNCHANGED <<made, mem>>,
         acked' = [acked EXCEPT ![Id(o)] = @ + 1],
         pc'[Monitor] = "mark", st'[Monitor] = "TRIGGERED", cur'[Monitor] = o
  PROVE  SpareInv'
  <1>1. Id(o) \in Cond
    BY ObjFacts DEF TypeOK, ThreadOK
  <1>2. \A c \in Cond : ~Settling(c)
    BY DEF Turn, Settling
  <1>3. \A c \in Cond : Settling(c)' <=> c = Id(o)
    BY <1>1 DEF Settling
  <1>4. todo' = todo \ {o} /\ ~InTick(Id(o))'
    BY DEF Turn, InTick, SpareInv
  <1>5. ASSUME NEW c \in Cond
        PROVE  acked'[c] <= made'[c] /\ (Fireable(c)' => acked'[c] < made'[c])
    <2>1. CASE c = Id(o)
      <3>1. acked[c] < made[c] /\ acked[c] \in Nat /\ made[c] \in Nat
        BY <1>2, <2>1
        DEF SpareInv, Fireable, InTick, TypeOK, DataOK, CountOK
      <3>2. acked'[c] = acked[c] + 1
        BY <1>1, <2>1 DEF TypeOK, CountOK
      <3>3. QED
        BY <1>3, <2>1, <3>1, <3>2 DEF Fireable
    <2>2. CASE c # Id(o)
      <3>1. acked'[c] = acked[c]
        BY <1>1, <2>2 DEF TypeOK, CountOK
      <3>2. Fireable(c)' => Fireable(c)
        BY <1>2, <1>4 DEF Fireable, InTick
      <3>3. QED
        BY <3>1, <3>2 DEF SpareInv
    <2>3. QED
      BY <2>1, <2>2
  <1>6. QED
    BY <1>3, <1>4, <1>5 DEF SpareInv

LEMMA SpareTick == ASSUME TypeOK, SpareInv, Tick PROVE SpareInv'
  <1>0. Monitor \in Thread /\ pc \in [Thread -> Labels]
        /\ cur \in [Thread -> Obj \cup {NoObj}]
        /\ st \in [Thread -> Terminal \cup {"none"}]
    BY DEF Thread, TypeOK, ThreadOK
  <1>1. ASSUME NEW C \in SUBSET Cond, TickStart(C) PROVE SpareInv'
    <2>1. /\ UNCHANGED <<made, acked, mem>> /\ todo' = {<<c, mem[c]>> : c \in C}
          /\ \A c \in C : mem[c] # 0
          /\ pc[Monitor] = "idle" /\ pc'[Monitor] = "scan"
      BY <1>0, <1>1 DEF TickStart, Goto, data
    <2>2. \A o \in todo' : \E c \in C : o = <<c, mem[c]>> /\ Id(o) = c
      BY <2>1, ObjFacts, MadeObjects DEF Id
    <2>3. /\ \A o \in todo' : mem[Id(o)] # 0
          /\ \A o1, o2 \in todo' : Id(o1) = Id(o2) => o1 = o2
      BY <2>1, <2>2
    <2>4. \A c \in Cond : ~Settling(c) /\ ~Settling(c)'
      BY <2>1 DEF Settling
    <2>5. QED
      BY <2>1, <2>3, <2>4, SpareFrame
  <1>2. ASSUME NEW o \in todo,
               MoveExtremum(o) \/ Leave(o) \/ TriggerClosed(o)
        PROVE  SpareInv'
    <2>1. /\ UNCHANGED <<made, acked, mem>> /\ todo' \subseteq todo
          /\ pc[Monitor] \in {"scan", "fire"}
          /\ pc'[Monitor] # "mark" \/ st'[Monitor] = "CANCELLED"
      BY <1>0, <1>2
      DEF MoveExtremum, Leave, TriggerClosed, Turn, Settle, Goto, data
    <2>2. \A c \in Cond : ~Settling(c) /\ ~Settling(c)'
      BY <2>1 DEF Settling
    <2>3. \A o1, o2 \in todo' : Id(o1) = Id(o2) => o1 = o2
      BY <2>1 DEF SpareInv
    <2>4. QED
      BY <2>1, <2>2, <2>3, SpareFrame
  <1>3. ASSUME NEW o \in todo,
               TriggerFull(o) \/ \E p \in Pool : TriggerPartial(o, p)
        PROVE  SpareInv'
    <2>1. /\ Turn(o) /\ UNCHANGED <<made, mem>>
          /\ acked' = [acked EXCEPT ![Id(o)] = @ + 1]
          /\ pc'[Monitor] = "mark" /\ st'[Monitor] = "TRIGGERED"
          /\ cur'[Monitor] = o
      BY <1>0, <1>3 DEF TriggerFull, TriggerPartial, Settle, Goto, data
    <2>2. QED
      BY <2>1, SpareFire
  <1>4. CASE CollectLinked
    <2>1. /\ UNCHANGED <<made, acked, mem, todo>>
          /\ pc[Monitor] = "link" /\ pc'[Monitor] = "next"
      BY <1>0, <1>4 DEF CollectLinked, Goto, data
    <2>2. \A c \in Cond : ~Settling(c) /\ ~Settling(c)'
      BY <2>1 DEF Settling
    <2>3. QED
      BY <2>1, <2>2, SpareFrame DEF SpareInv
  <1>5. QED
    BY <1>1, <1>2, <1>3, <1>4 DEF Tick

LEMMA SpareProceed ==
  ASSUME TypeOK, SpareInv, NEW t \in Thread, Proceed(t) \/ Elsewhere(t)
  PROVE  SpareInv'
  <1>0. /\ pc \in [Thread -> Labels] /\ st \in [Thread -> Terminal \cup {"none"}]
        /\ cur \in [Thread -> Obj \cup {NoObj}] /\ Monitor \in Thread
    BY DEF TypeOK, ThreadOK, Thread
  <1>1. CASE MarkStatus(t)
    <2>1. /\ UNCHANGED <<made, acked, todo, st, cur>>
          /\ pc' = [pc EXCEPT ![t] = "db"] /\ pc[t] = "mark"
          /\ mem' = [mem EXCEPT ![Id(cur[t])] = 0]
      BY <1>1 DEF MarkStatus, Goto
    <2>2. \A c \in Cond : mem'[c] # 0 => mem[c] # 0
      BY <2>1 DEF TypeOK, DataOK
    <2>3. \A c \in Cond : Settling(c)' => Settling(c)
      BY <1>0, <2>1 DEF Settling
    <2>4. \A c \in Cond : Settling(c) /\ ~Settling(c)' => mem'[c] = 0
      <3>1. SUFFICES ASSUME NEW c \in Cond, Settling(c), ~Settling(c)'
                     PROVE  mem'[c] = 0
        OBVIOUS
      <3>2. t = Monitor
        BY <1>0, <2>1, <3>1 DEF Settling
      <3>3. QED
        BY <2>1, <3>1, <3>2 DEF Settling, TypeOK, DataOK
    <2>5. QED
      BY <2>1, <2>2, <2>3, <2>4, SpareFrame DEF SpareInv
  <1>2. ASSUME NEW d \in Cond, AddToMemory(d), pc[t] \in {"insert", "load"},
               pc' = [pc EXCEPT ![t] = "chk"], UNCHANGED <<acked, todo, st>>,
               cur' = [cur EXCEPT ![t] = <<d, made[d] + 1>>]
        PROVE  SpareInv'
    <2>1. \A c \in Cond : Settling(c)' <=> Settling(c)
      BY <1>0, <1>2 DEF Settling
    <2>2. QED
      BY <1>2, <2>1, SpareAdd
  <1>3. CASE InsertNew(t)
    <2>1. Id(cur[t]) \in Cond
      BY <1>3, ObjFacts DEF InsertNew, TypeOK, ThreadOK, AtHand
    <2>2. QED
      BY <1>2, <1>3, <2>1 DEF InsertNew, Goto
  <1>4. ASSUME NEW d \in Cond, LoadTarget(t, d) PROVE SpareInv'
    BY <1>2, <1>4 DEF LoadTarget, Goto
  <1>5. ASSUME UNCHANGED <<made, acked, mem, todo>>, pc[t] # "mark",
               pc'[t] # "mark" \/ st'[t] # "TRIGGERED",
               \A u \in Thread \ {t} :
                 pc'[u] = pc[u] /\ cur'[u] = cur[u] /\ st'[u] = st[u]
        PROVE  SpareInv'
    <2>1. \A c \in Cond : Settling(c)' <=> Settling(c)
      BY <1>0, <1>5 DEF Settling
    <2>2. QED
      BY <1>5, <2>1, SpareFrame DEF SpareInv
  <1>6. CASE UpdateRow(t) \/ \E c \in Cond : CreateRow(t, c)
    <2>1. UNCHANGED <<made, acked, mem, todo>> /\ pc[t] # "mark"
      BY <1>6 DEF UpdateRow, CreateRow
    <2>2. /\ pc'[t] # "mark"
          /\ \A u \in Thread \ {t} :
               pc'[u] = pc[u] /\ cur'[u] = cur[u] /\ st'[u] = st[u]
      BY <1>0, <1>6 DEF UpdateRow, CreateRow, Goto, Registered
    <2>3. QED
      BY <1>5, <2>1, <2>2
  <1>7. CASE Elsewhere(t)
    <2> USE <1>0 DEF Goto, data
    <2>1. CASE RemoveFromRedis(t) \/ CheckActive(t) \/ PutToRedis(t)
      <3>1. ret[t] # "mark"
        BY DEF TypeOK, ThreadOK
      <3>2. QED
        BY <1>5, <2>1, <3>1
        DEF RemoveFromRedis, CheckActive, PutToRedis, Return
    <2>2. CASE CancelDone(t) \/ \E o \in rest[t] : CancelNext(t, o)
      BY <1>5, <2>2 DEF CancelDone, CancelNext, Home
    <2>3. CASE LookInRedis(t) \/ LookInDB(t) \/ ReadRows(t)
      BY <1>5, <2>3 DEF LookInRedis, LookInDB, ReadRows
    <2>4. CASE \E c \in Cond : RefillRedis(t, c)
      BY <1>5, <2>4 DEF RefillRedis
    <2>5. CASE StartList(t) \/ \E B \in Batch : StartRegister(t, B)
      BY <1>5, <2>5 DEF StartList, StartRegister, Called
    <2>6. CASE \E C \in Targets : StartCancel(t, C)
      BY <1>5, <2>6 DEF StartCancel, Called
    <2>7. QED
      BY <1>7, <2>1, <2>2, <2>3, <2>4, <2>5, <2>6 DEF Elsewhere
  <1>8. QED
    BY <1>1, <1>3, <1>4, <1>6, <1>7 DEF Proceed, Write, Elsewhere

LEMMA SpareRestart == ASSUME TypeOK, SpareInv, Restart PROVE SpareInv'
  <1>1. ASSUME NEW S \in SUBSET Cond, Boot(S) PROVE SpareInv'
    <2>1. Monitor \in Thread
      BY DEF Thread
    <2>2. \A c \in Cond : ~Settling(c)' /\ ~InTick(c)'
      BY <1>1, <2>1 DEF Boot, Settling, InTick
    <2>3. ASSUME NEW c \in Cond
          PROVE  /\ acked'[c] <= made'[c]
                 /\ Fireable(c)' => acked'[c] < made'[c]
      <3>1. /\ acked'[c] = acked[c] /\ acked[c] <= made[c]
            /\ acked[c] \in Nat /\ made[c] \in Nat
        BY <1>1 DEF Boot, SpareInv, TypeOK, DataOK, CountOK
      <3>2. CASE c \in S
        BY <1>1, <3>1, <3>2 DEF Boot
      <3>3. CASE c \notin S
        BY <1>1, <2>2, <3>1, <3>3 DEF Boot, Fireable
      <3>4. QED
        BY <3>2, <3>3
    <2>4. QED
      BY <1>1, <2>2, <2>3 DEF SpareInv, Boot
  <1>2. redis \subseteq Cond /\ ActiveRows \subseteq Cond
    BY DEF TypeOK, DataOK, ActiveRows
  <1>3. QED
    BY <1>1, <1>2 DEF Restart, RestartFromRedis, RestartFromDB, RestartEmpty

\* Each condition's accepted orders never outnumber its objects: one process
\* executes a registered condition at most once, and a second execution takes
\* a restart or a cancellation that reloaded it.
THEOREM AtMostOneOrderPerObject == Spec => []AckedOncePerLoad
  <1>1. Init => SpareInv
    BY DEF Init, SpareInv, Fireable, Settling, InTick
  <1>2. TypeOK /\ SpareInv /\ [Next]_vars => SpareInv'
    <2> SUFFICES ASSUME TypeOK, SpareInv, [Next]_vars PROVE SpareInv'
      OBVIOUS
    <2>1. CASE Tick
      BY <2>1, SpareTick
    <2>2. CASE Restart
      BY <2>2, SpareRestart
    <2>3. ASSUME NEW t \in Thread, Proceed(t) PROVE SpareInv'
      BY <2>3, SpareProceed
    <2>4. ASSUME NEW t \in Caller, Request(t) PROVE SpareInv'
      BY <2>4, SpareProceed DEF Request, Elsewhere, Thread
    <2>5. CASE UNCHANGED vars
      BY <2>5
      DEF SpareInv, Fireable, Settling, InTick, vars, data, locals, counts
    <2>6. QED
      BY <2>1, <2>2, <2>3, <2>4, <2>5 DEF Next
  <1>3. SpareInv => AckedOncePerLoad
    BY DEF SpareInv, AckedOncePerLoad
  <1>4. QED
    BY <1>1, <1>2, <1>3, TypeCorrect, PTL DEF Spec

-----------------------------------------------------------------------------
(***************************************************************************)
(* WriteAhead.  A row, once created, stays; so it is enough that every     *)
(* hand-over of a condition is of one that is on record.  Two hand-overs   *)
(* are not in Pending: the object of a visit that returns to "fire" by way *)
(* of "hdel", and the targets that wait while one of them is upserted.     *)
(***************************************************************************)
OnRecord(c) == db[c] # "none"

ThreadRecorded(t) ==
  /\ pc[t] \in AtHand => OnRecord(Id(cur[t]))
  /\ \A o \in rest[t] : OnRecord(Id(o))
  /\ (pc[t] \in {"load", "refill"} \/ ret[t] = "load") => \A c \in work[t] : OnRecord(c)
  /\ ret[t] = "load" => pc[t] \in {"chk", "put", "hdel"}

StoresRecorded ==
  /\ \A c \in Cond : mem[c] # 0 => OnRecord(c)
  /\ \A c \in redis : OnRecord(c)
  /\ \A o \in todo : OnRecord(Id(o))

RecordInv == StoresRecorded /\ \A t \in Thread : ThreadRecorded(t)

\* The threads' own state, and what each other thread keeps of it.
LEMMA ThreadParts ==
  ASSUME TypeOK
  PROVE  /\ pc \in [Thread -> Labels]
         /\ cur \in [Thread -> Obj \cup {NoObj}]
         /\ ret \in [Thread -> {"idle", "fire", "create", "link", "next", "load"}]
         /\ rest \in [Thread -> SUBSET Obj]
         /\ work \in [Thread -> SUBSET Cond]
         /\ \A t \in Thread : pc[t] \in AtHand => cur[t] \in Obj /\ Id(cur[t]) \in Cond
         /\ db \in [Cond -> Status] /\ mem \in [Cond -> Nat]
         /\ redis \subseteq Cond /\ todo \subseteq Obj
  BY ObjFacts DEF TypeOK, DataOK, ThreadOK

Untouched(u) ==
  /\ pc'[u] = pc[u] /\ cur'[u] = cur[u] /\ ret'[u] = ret[u]
  /\ rest'[u] = rest[u] /\ work'[u] = work[u]

\* It is enough to look at the stores and at the thread that takes the step.
LEMMA RecordStep ==
  ASSUME TypeOK, RecordInv, NEW t \in Thread,
         \A u \in Thread \ {t} : Untouched(u),
         \A c \in Cond : OnRecord(c) => OnRecord(c)',
         StoresRecorded', ThreadRecorded(t)'
  PROVE  RecordInv'
  <1> SUFFICES ASSUME NEW u \in Thread \ {t} PROVE ThreadRecorded(u)'
    BY DEF RecordInv
  <1>1. ThreadRecorded(u) /\ Untouched(u)
    BY DEF RecordInv
  <1>2. /\ pc[u] \in AtHand => Id(cur[u]) \in Cond
        /\ rest[u] \subseteq Obj /\ work[u] \subseteq Cond
    BY ThreadParts
  <1>3. \A o \in rest[u] : Id(o) \in Cond
    BY <1>2, ObjFacts
  <1>4. QED
    BY <1>1, <1>2, <1>3 DEF ThreadRecorded, Untouched

\* Steps that change no row and put nothing new in a store.
LEMMA RecordQuiet ==
  ASSUME TypeOK, RecordInv, NEW t \in Thread,
         \A u \in Thread \ {t} : Untouched(u),
         db' = db, todo' \subseteq todo,
         \A c \in Cond : mem'[c] # 0 => mem[c] # 0,
         \A c \in redis' : c \in redis \/ OnRecord(c),
         ThreadRecorded(t)'
  PROVE  RecordInv'
  <1>1. \A c : OnRecord(c)' <=> OnRecord(c)
    BY DEF OnRecord
  <1>2. StoresRecorded'
    BY <1>1 DEF StoresRecorded, RecordInv
  <1>3. QED
    BY <1>1, <1>2, RecordStep

\* Creating a row or moving it to a terminal status keeps it on record.
LEMMA RecordRow ==
  ASSUME TypeOK, RecordInv, NEW t \in Thread,
         UpdateRow(t) \/ \E c \in Cond : CreateRow(t, c)
  PROVE  RecordInv'
  <1> USE ThreadParts DEF Goto
  <1>1. ThreadRecorded(t) /\ StoresRecorded
    BY DEF RecordInv
  <1>2. ASSUME NEW d \in Cond, NEW s \in Status \ {"none"},
               db' = db \/ db' = [db EXCEPT ![d] = s],
               UNCHANGED <<redis, mem, todo>>
        PROVE  /\ \A c \in Cond : OnRecord(c) => OnRecord(c)'
               /\ StoresRecorded'
    <2>1. \A c \in Cond : OnRecord(c) => OnRecord(c)'
      BY <1>2 DEF OnRecord
    <2>2. \A o \in todo : Id(o) \in Cond
      BY ObjFacts
    <2>3. QED
      BY <1>1, <1>2, <2>1, <2>2 DEF StoresRecorded
  <1>3. CASE UpdateRow(t)
    <2>1. Id(cur[t]) \in Cond /\ st[t] \in Status \ {"none"}
      BY <1>3 DEF UpdateRow, AtHand, TypeOK, ThreadOK, Terminal, Status
    <2>2. /\ \A c \in Cond : OnRecord(c) => OnRecord(c)'
          /\ StoresRecorded'
      BY <1>2, <1>3, <2>1 DEF UpdateRow
    <2>3. /\ \A u \in Thread \ {t} : Untouched(u)
          /\ pc[t] = "db" /\ pc'[t] = "hdel" /\ cur'[t] = cur[t]
          /\ rest' = rest /\ work' = work /\ ret' = ret
      BY <1>3 DEF UpdateRow, Untouched
    <2>4. \A o \in rest[t] : Id(o) \in Cond
      BY ObjFacts
    <2>5. ThreadRecorded(t)'
      BY <1>1, <2>1, <2>2, <2>3, <2>4 DEF ThreadRecorded, AtHand
    <2>6. QED
      BY <2>2, <2>3, <2>5, RecordStep
  <1>4. ASSUME NEW c \in Cond, CreateRow(t, c) PROVE RecordInv'
    <2>1. "ACTIVE" \in Status \ {"none"}
      BY DEF Status
    <2>2. /\ \A d \in Cond : OnRecord(d) => OnRecord(d)'
          /\ StoresRecorded'
      BY <1>2, <1>4, <2>1 DEF CreateRow
    <2>3. /\ \A u \in Thread \ {t} : Untouched(u)
          /\ pc[t] = "create" /\ rest' = rest /\ ret' = ret
          /\ \/ /\ pc'[t] = "insert" /\ cur'[t] = <<c, 0>>
                /\ db'[c] = "ACTIVE"
             \/ pc'[t] \in {"link", "idle"}
      BY <1>4 DEF CreateRow, Untouched, Registered
    <2>4. \A o \in rest[t] : Id(o) \in Cond
      BY ObjFacts
    <2>5. ret[t] # "load"
      BY <1>1, <2>3 DEF ThreadRecorded
    <2>6. ThreadRecorded(t)'
      BY <1>1, <2>2, <2>3, <2>4, <2>5, ObjFacts
      DEF ThreadRecorded, AtHand, OnRecord
    <2>7. QED
      BY <2>2, <2>3, <2>6, RecordStep
  <1>5. QED
    BY <1>3, <1>4

\* What is put into memory is on record: a row just created or a target that
\* was found in Redis or in the table.
LEMMA RecordAdd ==
  ASSUME TypeOK, RecordInv, NEW t \in Thread,
         InsertNew(t) \/ \E c \in Cond : LoadTarget(t, c)
  PROVE  RecordInv'
  <1> USE ThreadParts DEF Goto
  <1>1. ThreadRecorded(t) /\ StoresRecorded
    BY DEF RecordInv
  <1>2. PICK d \in Cond :
          /\ OnRecord(d) /\ AddToMemory(d)
          /\ cur'[t] = <<d, made[d] + 1>> /\ pc'[t] = "chk"
          /\ rest'[t] \subseteq rest[t] \cup {<<d, made[d] + 1>>}
          /\ work'[t] \subseteq work[t]
          /\ ret'[t] = "load" => pc[t] = "load"
          /\ \A u \in Thread \ {t} : Untouched(u)
    <2>1. CASE InsertNew(t)
      <3>1. Id(cur[t]) \in Cond /\ OnRecord(Id(cur[t]))
        BY <1>1, <2>1 DEF InsertNew, AtHand, ThreadRecorded
      <3>2. QED
        BY <2>1, <3>1 DEF InsertNew, Untouched, Registered
    <2>2. ASSUME NEW c \in Cond, LoadTarget(t, c)
          PROVE  /\ OnRecord(c) /\ AddToMemory(c)
                 /\ cur'[t] = <<c, made[c] + 1>> /\ pc'[t] = "chk"
                 /\ rest'[t] \subseteq rest[t] \cup {<<c, made[c] + 1>>}
                 /\ work'[t] \subseteq work[t]
                 /\ ret'[t] = "load" => pc[t] = "load"
                 /\ \A u \in Thread \ {t} : Untouched(u)
      BY <1>1, <2>2 DEF LoadTarget, ThreadRecorded, Untouched
    <2>3. QED
      BY <2>1, <2>2
  <1>3. UNCHANGED <<db, redis, todo>>
    BY DEF InsertNew, LoadTarget
  <1>4. \A c : OnRecord(c)' <=> OnRecord(c)
    BY <1>3 DEF OnRecord
  <1>5. Id(<<d, made[d] + 1>>) = d
    BY DEF Id
  <1>6. \A c \in Cond : mem'[c] # 0 => mem[c] # 0 \/ c = d
    BY <1>2 DEF AddToMemory
  <1>7. StoresRecorded'
    BY <1>1, <1>2, <1>3, <1>4, <1>6 DEF StoresRecorded
  <1>8. ThreadRecorded(t)'
    BY <1>1, <1>2, <1>4, <1>5 DEF ThreadRecorded
  <1>9. QED
    BY <1>2, <1>4, <1>7, <1>8, RecordStep

LEMMA ListedRecorded ==
  ASSUME StoresRecorded, NEW C \in SUBSET Cond
  PROVE  \A o \in Listed(C) : OnRecord(Id(o))
  BY DEF Listed, StoresRecorded, Id

LEMMA RecordElsewhere ==
  ASSUME TypeOK, RecordInv, NEW t \in Thread, MarkStatus(t) \/ Elsewhere(t)
  PROVE  RecordInv'
  <1> USE ThreadParts DEF Goto, data, counts
  <1>1. ThreadRecorded(t) /\ StoresRecorded
    BY DEF RecordInv
  <1>2. \A c \in ActiveRows : OnRecord(c)
    BY DEF ActiveRows, OnRecord
  <1>3. ASSUME UNCHANGED <<db, todo>>, \A u \in Thread \ {t} : Untouched(u),
               \A c \in Cond : mem'[c] # 0 => mem[c] # 0,
               \A c \in redis' : c \in redis \/ OnRecord(c),
               pc'[t] \in AtHand => OnRecord(Id(cur'[t])),
               \A o \in rest'[t] : OnRecord(Id(o)),
               pc'[t] \in {"load", "refill"} \/ ret'[t] = "load"
                 => \A c \in work'[t] : OnRecord(c),
               ret'[t] = "load" => pc'[t] \in {"chk", "put", "hdel"}
        PROVE  RecordInv'
    <2>1. \A c : OnRecord(c)' <=> OnRecord(c)
      BY <1>3 DEF OnRecord
    <2>2. ThreadRecorded(t)'
      BY <1>3, <2>1 DEF ThreadRecorded
    <2>3. QED
      BY <1>3, <2>2, RecordQuiet
  <1>4. CASE MarkStatus(t)
    <2>1. \A c \in Cond : mem'[c] # 0 => mem[c] # 0
      BY <1>4 DEF MarkStatus
    <2>2. QED
      BY <1>1, <1>3, <1>4, <2>1
      DEF MarkStatus, ThreadRecorded, Untouched, AtHand
  <1>5. CASE RemoveFromRedis(t) \/ PutToRedis(t)
    <2>1. OnRecord(Id(cur[t])) /\ pc[t] \in {"hdel", "put"} /\ Return(t)
      BY <1>1, <1>5 DEF RemoveFromRedis, PutToRedis, ThreadRecorded, AtHand
    <2>2. \A c \in redis' : c \in redis \/ OnRecord(c)
      BY <1>5, <2>1 DEF RemoveFromRedis, PutToRedis
    <2>3. /\ \A u \in Thread \ {t} : Untouched(u)
          /\ UNCHANGED <<db, mem, todo, rest, work>>
          /\ pc'[t] = ret[t] /\ ret'[t] = "idle"
          /\ cur'[t] = IF ret[t] = "fire" THEN cur[t] ELSE NoObj
      BY <1>5 DEF RemoveFromRedis, PutToRedis, Return, Untouched
    <2>4. pc'[t] \in AtHand => OnRecord(Id(cur'[t]))
      BY <2>1, <2>3 DEF AtHand
    <2>5. pc'[t] \in {"load", "refill"} => \A c \in work'[t] : OnRecord(c)
      BY <1>1, <2>3 DEF ThreadRecorded
    <2>6. QED
      BY <1>1, <1>3, <2>2, <2>3, <2>4, <2>5 DEF ThreadRecorded
  <1>6. CASE CheckActive(t)
    BY <1>1, <1>3, <1>6 DEF CheckActive, ThreadRecorded, Untouched, AtHand
  <1>7. CASE CancelDone(t)
    BY <1>1, <1>3, <1>7
    DEF CancelDone, Home, ThreadRecorded, Untouched, AtHand
  <1>8. ASSUME NEW o \in rest[t], CancelNext(t, o) PROVE RecordInv'
    BY <1>1, <1>3, <1>8 DEF CancelNext, ThreadRecorded, Untouched, AtHand
  <1>9. CASE LookInRedis(t)
    BY <1>1, <1>3, <1>9
    DEF LookInRedis, ThreadRecorded, StoresRecorded, Untouched, AtHand
  <1>10. CASE LookInDB(t) \/ ReadRows(t)
    BY <1>1, <1>2, <1>3, <1>10
    DEF LookInDB, ReadRows, ThreadRecorded, Untouched, AtHand
  <1>11. ASSUME NEW c \in Cond, RefillRedis(t, c) PROVE RecordInv'
    <2>1. OnRecord(c) /\ ret[t] # "load"
      BY <1>1, <1>11 DEF RefillRedis, ThreadRecorded
    <2>2. \A d \in redis' : d \in redis \/ OnRecord(d)
      BY <1>11, <2>1 DEF RefillRedis
    <2>3. QED
      BY <1>1, <1>3, <1>11, <2>1, <2>2
      DEF RefillRedis, ThreadRecorded, Untouched, AtHand
  <1>12. CASE StartList(t) \/ \E B \in Batch : StartRegister(t, B)
    BY <1>1, <1>3, <1>12
    DEF StartList, StartRegister, Called, ThreadRecorded, Untouched, AtHand
  <1>13. ASSUME NEW C \in Targets, StartCancel(t, C) PROVE RecordInv'
    <2>1. \A o \in Listed(C) : OnRecord(Id(o))
      BY <1>1, ListedRecorded DEF Targets, InGroup
    <2>2. QED
      BY <1>1, <1>3, <1>13, <2>1
      DEF StartCancel, Called, ThreadRecorded, Untouched, AtHand
  <1>14. QED
    BY <1>4, <1>5, <1>6, <1>7, <1>8, <1>9, <1>10, <1>11, <1>12, <1>13
    DEF Elsewhere

LEMMA RecordTick == ASSUME TypeOK, RecordInv, Tick PROVE RecordInv'
  <1> USE ThreadParts DEF Goto, data, counts
  <1>1. ThreadRecorded(Monitor) /\ StoresRecorded /\ Monitor \in Thread
    BY DEF RecordInv, Thread
  <1>2. ASSUME NEW C \in SUBSET Cond, TickStart(C) PROVE RecordInv'
    <2>1. \A c : OnRecord(c)' <=> OnRecord(c)
      BY <1>2 DEF TickStart, OnRecord
    <2>2. \A o \in todo' : OnRecord(Id(o))
      BY <1>1, <1>2 DEF TickStart, StoresRecorded, Id
    <2>3. StoresRecorded'
      BY <1>1, <1>2, <2>1, <2>2 DEF TickStart, StoresRecorded
    <2>4. ThreadRecorded(Monitor)'
      BY <1>1, <1>2, <2>1 DEF TickStart, ThreadRecorded, AtHand
    <2>5. \A u \in Thread \ {Monitor} : Untouched(u)
      BY <1>2 DEF TickStart, Untouched
    <2>6. QED
      BY <1>1, <2>1, <2>3, <2>4, <2>5, RecordStep
  <1>3. ASSUME NEW o \in todo,
               \/ MoveExtremum(o) \/ Leave(o) \/ TriggerFull(o)
               \/ TriggerClosed(o) \/ \E p \in Pool : TriggerPartial(o, p)
        PROVE  RecordInv'
    <2>1. /\ UNCHANGED <<db, redis, mem>> /\ todo' \subseteq todo
          /\ pc[Monitor] \in {"scan", "fire"} /\ rest' = rest
          /\ \A u \in Thread \ {Monitor} : Untouched(u)
      BY <1>1, <1>3
      DEF MoveExtremum, Leave, TriggerFull, TriggerClosed, TriggerPartial,
          Turn, Settle, Untouched
    <2>2. /\ pc'[Monitor] \in {"chk", "mark", "idle", "scan"}
          /\ pc'[Monitor] \in AtHand => cur'[Monitor] = o
          /\ ret'[Monitor] # "load"
      <3>1. ret[Monitor] # "load"
        BY <1>1, <2>1 DEF ThreadRecorded
      <3>2. QED
        BY <1>1, <1>3, <3>1
        DEF MoveExtremum, Leave, TriggerFull, TriggerClosed, TriggerPartial,
            Settle, AtHand
    <2>3. OnRecord(Id(o)) /\ \A c : OnRecord(c)' <=> OnRecord(c)
      BY <1>1, <2>1 DEF StoresRecorded, OnRecord
    <2>4. ThreadRecorded(Monitor)'
      BY <1>1, <2>1, <2>2, <2>3 DEF ThreadRecorded
    <2>5. QED
      BY <1>1, <2>1, <2>4, RecordQuiet
  <1>4. CASE CollectLinked
    <2>1. \A o \in Linked(hit[1], hit[2]) : OnRecord(Id(o))
      BY <1>1, ListedRecorded DEF Linked, InGroup
    <2>2. /\ UNCHANGED <<db, redis, mem, todo>>
          /\ pc[Monitor] = "link" /\ pc'[Monitor] = "next" /\ ret' = ret
          /\ rest'[Monitor] = Linked(hit[1], hit[2])
          /\ \A u \in Thread \ {Monitor} : Untouched(u)
      BY <1>1, <1>4 DEF CollectLinked, Untouched
    <2>3. \A c : OnRecord(c)' <=> OnRecord(c)
      BY <2>2 DEF OnRecord
    <2>4. ThreadRecorded(Monitor)'
      BY <1>1, <2>1, <2>2, <2>3 DEF ThreadRecorded, AtHand
    <2>5. QED
      BY <1>1, <2>2, <2>4, RecordQuiet
  <1>5. QED
    BY <1>2, <1>3, <1>4 DEF Tick

\* A restart watches what Redis or the table holds.
LEMMA RecordRestart == ASSUME TypeOK, RecordInv, Restart PROVE RecordInv'
  <1>1. \A c \in ActiveRows : OnRecord(c)
    BY DEF ActiveRows, OnRecord
  <1>2. ASSUME NEW S \in SUBSET Cond, Boot(S), \A c \in S : OnRecord(c),
               \A c \in redis' : OnRecord(c)
        PROVE  RecordInv'
    <2>1. \A c : OnRecord(c)' <=> OnRecord(c)
      BY <1>2 DEF Boot, OnRecord
    <2>2. StoresRecorded'
      BY <1>2, <2>1 DEF Boot, StoresRecorded
    <2>3. \A t \in Thread : ThreadRecorded(t)'
      BY <1>2 DEF Boot, ThreadRecorded, AtHand
    <2>4. QED
      BY <2>2, <2>3 DEF RecordInv
  <1>3. /\ redis \subseteq Cond /\ ActiveRows \subseteq Cond
        /\ \A c \in redis : OnRecord(c)
    BY DEF TypeOK, DataOK, ActiveRows, RecordInv, StoresRecorded
  <1>4. QED
    BY <1>1, <1>2, <1>3
    DEF Restart, RestartFromRedis, RestartFromDB, RestartEmpty

LEMMA RecordAlways == Spec => []RecordInv
  <1>1. Init => RecordInv
    BY DEF Init, RecordInv, StoresRecorded, ThreadRecorded, AtHand
  <1>2. TypeOK /\ RecordInv /\ [Next]_vars => RecordInv'
    <2> SUFFICES ASSUME TypeOK, RecordInv, [Next]_vars PROVE RecordInv'
      OBVIOUS
    <2>1. CASE Tick
      BY <2>1, RecordTick
    <2>2. CASE Restart
      BY <2>2, RecordRestart
    <2>3. ASSUME NEW t \in Thread, Proceed(t) PROVE RecordInv'
      BY <2>3, RecordRow, RecordAdd, RecordElsewhere
      DEF Proceed, Write, Elsewhere
    <2>4. ASSUME NEW t \in Caller, Request(t) PROVE RecordInv'
      BY <2>4, RecordElsewhere DEF Request, Elsewhere, Thread
    <2>5. CASE UNCHANGED vars
      BY <2>5
      DEF RecordInv, StoresRecorded, ThreadRecorded, OnRecord, vars, data,
          locals, counts
    <2>6. QED
      BY <2>1, <2>2, <2>3, <2>4, <2>5 DEF Next
  <1>3. QED
    BY <1>1, <1>2, TypeCorrect, PTL DEF Spec

\* Whatever may place an order, now or after a restart, has a row: nothing
\* reaches the monitor's list, the Redis hash, a tick's copy or a goroutine's
\* hands before its row exists.
THEOREM EverythingOnRecord == Spec => []WriteAhead
  <1>1. RecordInv => WriteAhead
    <2> SUFFICES ASSUME RecordInv, NEW t \in Thread, NEW c \in Pending(t)
                 PROVE  OnRecord(c)
      BY DEF RecordInv, StoresRecorded, WriteAhead, OnRecord
    <2>1. ThreadRecorded(t)
      BY DEF RecordInv
    <2>2. QED
      BY <2>1 DEF Pending, ThreadRecorded, AtHand
  <1>2. QED
    BY <1>1, RecordAlways, PTL

-----------------------------------------------------------------------------
(***************************************************************************)
(* NoTakeProfitAfterStopLoss.  First the registrations: rows still to be   *)
(* created are "none" and belong to one thread, and a take profit goes to  *)
(* the list only while the row of its stop loss is still to be created.    *)
(***************************************************************************)
StopOf(c, d) == Kind[c] = "SL" /\ Kind[d] = "TP" /\ Group[c] = Group[d]
StopsIn(d, W) == \A c \in Cond : StopOf(c, d) => c \in W

Registering(t) ==
  \/ pc[t] \in {"create", "insert"}
  \/ pc[t] \in {"mark", "db", "hdel", "chk", "put"} /\ ret[t] = "create"

\* A caller registers a batch, of which it has created a row by the time it
\* is elsewhere than at "create"; the monitor, a trailing stop.
OwnPart(t) ==
  IF t = Monitor THEN work[t] \subseteq Pool
  ELSE \E B \in Batch : /\ work[t] \subseteq B
                        /\ pc[t] # "create" => \E e \in B : db[e] # "none"

Course(t) ==
  /\ \A c \in work[t] : db[c] = "none" /\ StopsIn(c, work[t])
  /\ pc[t] = "insert" => StopsIn(Id(cur[t]), work[t])
  /\ OwnPart(t)

CourseInv ==
  /\ \A t \in Thread : Registering(t) => Course(t)
  /\ \A t, u \in Thread :
       t # u /\ Registering(t) /\ Registering(u) => work[t] \cap work[u] = {}

LEMMA BatchParts ==
  /\ Pool \subseteq Cond /\ \A B \in Batch : B \subseteq Cond
  /\ \A p \in Pool : \A W : StopsIn(p, W)
  BY CondAssumption, BatchAssumption, FreshAssumption DEF StopsIn, StopOf

\* Rows stay, and a new one comes from the registration of the thread at work.
LEMMA CourseStep ==
  ASSUME TypeOK, CourseInv, NEW t \in Thread,
         \A u \in Thread \ {t} : Untouched(u),
         \A c \in Cond : db[c] # "none" => db'[c] # "none",
         \A c \in Cond : db[c] = "none" /\ db'[c] # "none"
                          => Registering(t) /\ c \in work[t],
         Registering(t)' => Course(t)',
         Registering(t)' =>
           \/ Registering(t) /\ work'[t] \subseteq work[t]
           \/ \A u \in Thread \ {t} :
                Registering(u) => work'[t] \cap work[u] = {}
  PROVE  CourseInv'
  <1>1. ASSUME NEW u \in Thread \ {t}
        PROVE  (Registering(u)' <=> Registering(u)) /\ work'[u] = work[u]
    BY DEF Untouched, Registering
  <1>2. ASSUME NEW u \in Thread \ {t}, Registering(u)' PROVE Course(u)'
    <2>1. Untouched(u) /\ Registering(u) /\ Course(u)
      BY <1>1, <1>2 DEF CourseInv
    <2>2. work[u] \subseteq Cond
      BY ThreadParts
    <2>3. \A c \in work[u] : db'[c] = "none"
      BY <2>1, <2>2 DEF CourseInv, Course
    <2>4. OwnPart(u)'
      BY <2>1, BatchParts DEF Course, OwnPart, Untouched
    <2>5. QED
      BY <2>1, <2>3, <2>4 DEF Course, Untouched
  <1>3. ASSUME NEW u \in Thread \ {t}, Registering(u)', Registering(t)'
        PROVE  work'[u] \cap work'[t] = {}
    BY <1>1, <1>3 DEF CourseInv
  <1>4. ASSUME NEW u \in Thread \ {t}, NEW v \in Thread \ {t}, u # v,
               Registering(u)', Registering(v)'
        PROVE  work'[u] \cap work'[v] = {}
    BY <1>1, <1>4 DEF CourseInv
  <1>5. QED
    BY <1>2, <1>3, <1>4 DEF CourseInv

\* Steps that begin no registration and create no row.
LEMMA CourseQuiet ==
  ASSUME TypeOK, CourseInv, NEW t \in Thread,
         \A u \in Thread \ {t} : Untouched(u),
         \A c \in Cond : db[c] = "none" <=> db'[c] = "none",
         Registering(t)' => /\ Registering(t) /\ pc[t] # "create"
                            /\ pc'[t] # "insert" /\ work'[t] = work[t]
  PROVE  CourseInv'
  <1>1. ASSUME Registering(t)' PROVE Course(t)'
    <2>1. /\ Course(t) /\ pc[t] # "create" /\ pc'[t] # "insert"
          /\ work'[t] = work[t] /\ work[t] \subseteq Cond
      BY <1>1, ThreadParts DEF CourseInv
    <2>2. OwnPart(t)'
      BY <2>1, BatchParts DEF Course, OwnPart
    <2>3. QED
      BY <2>1, <2>2 DEF Course
  <1>2. QED
    BY <1>1, CourseStep

LEMMA CourseCreate ==
  ASSUME TypeOK, CourseInv, NEW t \in Thread, NEW c \in Cond, CreateRow(t, c)
  PROVE  CourseInv'
  <1> USE ThreadParts DEF Goto
  <1>1. /\ pc[t] = "create" /\ c \in work[t] /\ \A d \in work[t] : c <= d
        /\ \A u \in Thread \ {t} : Untouched(u)
    BY DEF CreateRow, Untouched
  <1>2. Registering(t) /\ Course(t)
    BY <1>1 DEF Registering, CourseInv
  <1>3. CASE /\ db' = [db EXCEPT ![c] = "ACTIVE"]
             /\ cur' = [cur EXCEPT ![t] = <<c, 0>>]
             /\ work' = [work EXCEPT ![t] = @ \ {c}]
             /\ pc' = [pc EXCEPT ![t] = "insert"]
    <2>1. /\ db'[c] = "ACTIVE" /\ \A d \in Cond \ {c} : db'[d] = db[d]
          /\ Id(cur'[t]) = c /\ work'[t] = work[t] \ {c} /\ pc'[t] = "insert"
      BY <1>3 DEF Id
    <2>2. \A d \in work[t], s \in Cond : StopOf(s, d) => s # c
      <3> SUFFICES ASSUME NEW d \in work[t], NEW s \in Cond, StopOf(s, d),
                          s = c
                   PROVE  FALSE
        OBVIOUS
      <3>1. t # Monitor
        BY <1>2, FreshAssumption DEF Course, OwnPart, StopOf
      <3>2. PICK B \in Batch : work[t] \subseteq B
        BY <1>2, <3>1 DEF Course, OwnPart
      <3>3. d < c
        BY <3>2, StopLastAssumption DEF StopOf
      <3>4. c <= d /\ c \in Nat /\ d \in Nat
        BY <1>1, CondAssumption
      <3>5. QED
        BY <3>3, <3>4
    <2>3. \A d \in work[t] : StopsIn(d, work'[t])
      BY <1>2, <2>1, <2>2 DEF Course, StopsIn
    <2>4. \A d \in work'[t] : db'[d] = "none"
      BY <1>2, <2>1 DEF Course
    <2>5. OwnPart(t)'
      <3>1. CASE t = Monitor
        BY <1>2, <2>1, <3>1 DEF Course, OwnPart
      <3>2. CASE t # Monitor
        BY <1>1, <1>2, <2>1, <3>2 DEF Course, OwnPart
      <3>3. QED
        BY <3>1, <3>2
    <2>6. Course(t)'
      BY <1>1, <2>1, <2>3, <2>4, <2>5 DEF Course, StopsIn
    <2>7. \A d \in Cond : db[d] = "none" /\ db'[d] # "none" => d \in work[t]
      BY <1>1, <2>1
    <2>8. \A d \in Cond : db[d] # "none" => db'[d] # "none"
      BY <2>1
    <2>9. QED
      BY <1>1, <1>2, <2>1, <2>6, <2>7, <2>8, CourseStep
  <1>4. CASE pc'[t] \in {"link", "idle"} /\ db' = db
    BY <1>1, <1>4, CourseQuiet DEF Registering
  <1>5. QED
    BY <1>3, <1>4 DEF CreateRow, Registered

LEMMA CourseStart ==
  ASSUME TypeOK, CourseInv, NEW t \in Thread, NEW B \in Batch,
         StartRegister(t, B)
  PROVE  CourseInv'
  <1> USE ThreadParts, BatchParts DEF Goto
  <1>1. /\ t # Monitor /\ pc'[t] = "create" /\ work'[t] = B /\ db' = db
        /\ \A c \in B : db[c] = "none"
        /\ \A u \in Thread : pc[u] = "create" => B \cap work[u] = {}
        /\ \A u \in Thread \ {t} : Untouched(u)
    BY ThreadAssumption DEF StartRegister, Called, Untouched, data
  <1>2. \A d \in B : StopsIn(d, B)
    BY StopLastAssumption DEF StopsIn, StopOf
  <1>3. Course(t)'
    BY <1>1, <1>2 DEF Course, OwnPart
  <1>4. ASSUME NEW u \in Thread \ {t}, Registering(u)
        PROVE  B \cap work[u] = {}
    <2>1. Course(u)
      BY <1>4 DEF CourseInv
    <2>2. CASE pc[u] = "create"
      BY <1>1, <2>2
    <2>3. CASE u = Monitor
      BY <2>1, <2>3, FreshAssumption DEF Course, OwnPart
    <2>4. CASE pc[u] # "create" /\ u # Monitor
      <3>1. PICK A \in Batch :
              work[u] \subseteq A /\ \E e \in A : db[e] # "none"
        BY <2>1, <2>4 DEF Course, OwnPart
      <3>2. A # B
        BY <1>1, <3>1
      <3>3. QED
        BY <3>1, <3>2, FreshAssumption
    <2>5. QED
      BY <2>2, <2>3, <2>4
  <1>5. QED
    BY <1>1, <1>3, <1>4, CourseStep

LEMMA CoursePartial ==
  ASSUME TypeOK, CourseInv, NEW o \in todo, NEW p \in Pool,
         TriggerPartial(o, p)
  PROVE  CourseInv'
  <1> USE ThreadParts, BatchParts DEF Goto
  <1>0. Monitor \in Thread
    BY DEF Thread
  <1>1. /\ db[p] = "none" /\ db' = db /\ work'[Monitor] = {p}
        /\ pc'[Monitor] = "mark"
        /\ \A u \in Thread \ {Monitor} : Untouched(u)
    BY <1>0 DEF TriggerPartial, Turn, Settle, data, Untouched
  <1>2. Course(Monitor)'
    BY <1>1 DEF Course, OwnPart
  <1>3. ASSUME NEW u \in Thread \ {Monitor}, Registering(u)
        PROVE  {p} \cap work[u] = {}
    BY <1>3, FreshAssumption DEF CourseInv, Course, OwnPart
  <1>4. QED
    BY <1>0, <1>1, <1>2, <1>3, CourseStep

LEMMA CourseProceed ==
  ASSUME TypeOK, RecordInv, CourseInv, NEW t \in Thread,
         Proceed(t) \/ (t \in Caller /\ Request(t))
  PROVE  CourseInv'
  <1> USE ThreadParts DEF Goto, data, counts, Registering, Untouched
  <1>1. CASE MarkStatus(t) \/ CheckActive(t)
    BY <1>1, CourseQuiet DEF MarkStatus, CheckActive
  <1>2. CASE UpdateRow(t)
    <2>1. db[Id(cur[t])] # "none" /\ st[t] # "none" /\ Id(cur[t]) \in Cond
      BY <1>2
      DEF UpdateRow, RecordInv, ThreadRecorded, OnRecord, AtHand, TypeOK,
          ThreadOK, Terminal
    <2>2. \A c \in Cond : db[c] = "none" <=> db'[c] = "none"
      BY <1>2, <2>1 DEF UpdateRow
    <2>3. QED
      BY <1>2, <2>2, CourseQuiet DEF UpdateRow
  <1>3. CASE RemoveFromRedis(t) \/ PutToRedis(t)
    <2>1. /\ db' = db /\ work' = work /\ pc'[t] = ret[t]
          /\ pc[t] \in {"hdel", "put"}
          /\ \A u \in Thread \ {t} : Untouched(u)
      BY <1>3 DEF RemoveFromRedis, PutToRedis, Return
    <2>2. QED
      BY <2>1, CourseQuiet
  <1>4. CASE InsertNew(t)
    BY <1>4, CourseQuiet DEF InsertNew, Registered
  <1>5. CASE CancelDone(t) \/ \E o \in rest[t] : CancelNext(t, o)
    BY <1>5, CourseQuiet DEF CancelDone, CancelNext, Home
  <1>6. CASE LookInRedis(t) \/ LookInDB(t) \/ ReadRows(t)
    BY <1>6, CourseQuiet DEF LookInRedis, LookInDB, ReadRows
  <1>7. CASE \E c \in Cond : LoadTarget(t, c) \/ RefillRedis(t, c)
    BY <1>7, CourseQuiet DEF LoadTarget, RefillRedis
  <1>8. CASE StartList(t) \/ \E C \in Targets : StartCancel(t, C)
    BY <1>8, CourseQuiet DEF StartList, StartCancel, Called
  <1>9. QED
    BY <1>1, <1>2, <1>3, <1>4, <1>5, <1>6, <1>7, <1>8, CourseCreate,
       CourseStart
    DEF Proceed, Write, Request

LEMMA CourseTick == ASSUME TypeOK, CourseInv, Tick PROVE CourseInv'
  <1> USE ThreadParts DEF Goto, data, counts, Registering, Untouched
  <1>0. Monitor \in Thread
    BY DEF Thread
  <1>1. CASE \E C \in SUBSET Cond : TickStart(C)
    BY <1>0, <1>1, CourseQuiet DEF TickStart
  <1>2. CASE \E o \in todo : MoveExtremum(o) \/ Leave(o)
    BY <1>0, <1>2, CourseQuiet DEF MoveExtremum, Leave, Turn
  <1>3. CASE \E o \in todo : TriggerFull(o) \/ TriggerClosed(o)
    BY <1>0, <1>3, CourseQuiet DEF TriggerFull, TriggerClosed, Turn, Settle
  <1>4. CASE CollectLinked
    BY <1>0, <1>4, CourseQuiet DEF CollectLinked
  <1>5. QED
    BY <1>1, <1>2, <1>3, <1>4, CoursePartial DEF Tick

LEMMA CourseRestart == ASSUME Restart PROVE CourseInv'
  <1>1. \A t \in Thread : pc'[t] = "idle"
    BY DEF Restart, RestartFromRedis, RestartFromDB, RestartEmpty, Boot
  <1>2. QED
    BY <1>1 DEF CourseInv, Registering

(***************************************************************************)
(* Then the linked cancellation.  What a thread has collected (rest) it    *)
(* keeps until it has marked it; so once a stop loss is on record as       *)
(* triggered, a take profit of its group that is still in the list is one  *)
(* the monitor is about to collect or some thread is about to cancel.      *)
(***************************************************************************)
ListLive == \A c \in Cond : mem[c] # 0 => <<c, mem[c]>> \in live

Held(t) ==
  rest[t] # {} =>
    \/ pc[t] \in {"next", "load"}
    \/ /\ pc[t] \in {"mark", "db", "hdel", "chk", "put"}
       /\ ret[t] \in {"next", "load"}

\* Only the monitor writes TRIGGERED, and goes on to "link" unless the
\* condition is a take profit that was half executed.
Fires(t) ==
  pc[t] \in {"mark", "db"} /\ st[t] = "TRIGGERED" =>
    /\ t = Monitor /\ hit[1] = Id(cur[t])
    /\ ret[t] = "link" \/ Kind[hit[1]] = "TP"

Doomed(t, d) ==
  \/ \E o \in rest[t] : Id(o) = d
  \/ pc[t] = "mark" /\ Id(cur[t]) = d
Safe(d) == mem[d] = 0 \/ \E t \in Thread : Doomed(t, d)

Linking(c) ==
  /\ hit[1] = c
  /\ pc[Monitor] = "link" \/ (pc[Monitor] = "hdel" /\ ret[Monitor] = "link")

StandDown ==
  restarts = 0 =>
    \A c, d \in Cond :
      StopOf(c, d) /\ db[c] = "TRIGGERED" => Linking(c) \/ Safe(d)

DownInv == ListLive /\ StandDown /\ \A t \in Thread : Held(t) /\ Fires(t)

LEMMA DownStep ==
  ASSUME TypeOK, DownInv, NEW t \in Thread,
         \A u \in Thread \ {t} : Untouched(u) /\ st'[u] = st[u],
         hit' = hit \/ t = Monitor,
         ListLive', Held(t)', Fires(t)', restarts' = restarts,
         \A c \in Cond : db'[c] = "TRIGGERED" =>
                          db[c] = "TRIGGERED" \/ Kind[c] # "SL" \/ Linking(c)',
         t = Monitor => \A c, d \in Cond :
           Linking(c) /\ StopOf(c, d) => Linking(c)' \/ Safe(d)',
         \A c, d \in Cond :
           StopOf(c, d) /\ db[c] = "TRIGGERED" /\ mem[d] = 0
             => mem'[d] = 0 \/ Doomed(t, d)',
         \A d \in Cond : Doomed(t, d) => Doomed(t, d)' \/ mem'[d] = 0
  PROVE  DownInv'
  <1>1. \A u \in Thread \ {t} : Held(u)' /\ Fires(u)'
    BY DEF DownInv, Held, Fires, Untouched
  <1>2. \A u \in Thread \ {t}, d \in Cond : Doomed(u, d) => Doomed(u, d)'
    BY DEF Doomed, Untouched
  <1>3. Monitor \in Thread /\ (t # Monitor => \A c : Linking(c) => Linking(c)')
    BY DEF Linking, Untouched, Thread
  <1>4. ASSUME restarts = 0, NEW c \in Cond, NEW d \in Cond, StopOf(c, d),
               db'[c] = "TRIGGERED"
        PROVE  Linking(c)' \/ Safe(d)'
    <2>1. CASE db[c] # "TRIGGERED"
      BY <1>4, <2>1 DEF StopOf
    <2>2. CASE Linking(c)
      BY <1>3, <1>4, <2>2
    <2>3. CASE db[c] = "TRIGGERED" /\ ~Linking(c)
      <3>1. Safe(d)
        BY <1>4, <2>3 DEF DownInv, StandDown
      <3>2. QED
        BY <1>2, <1>4, <2>3, <3>1 DEF Safe
    <2>4. QED
      BY <2>1, <2>2, <2>3
  <1>5. QED
    BY <1>1, <1>4 DEF DownInv, StandDown

\* What the steps below have in common: those that list nothing, write no
\* TRIGGERED and forget nothing of rest.
LEMMA DownQuiet ==
  ASSUME TypeOK, DownInv, NEW t \in Thread,
         \A u \in Thread \ {t} : Untouched(u) /\ st'[u] = st[u],
         hit' = hit \/ t = Monitor,
         UNCHANGED <<mem, live, restarts>>,
         Held(t)', Fires(t)',
         \A c \in Cond : db'[c] = "TRIGGERED" =>
                          db[c] = "TRIGGERED" \/ Kind[c] # "SL" \/ Linking(c)',
         t = Monitor => \A c \in Cond : Linking(c) => Linking(c)',
         rest[t] \subseteq rest'[t], pc[t] # "mark"
  PROVE  DownInv'
  <1>1. \A d \in Cond : Doomed(t, d) => Doomed(t, d)'
    BY DEF Doomed
  <1>2. ListLive'
    BY DEF DownInv, ListLive
  <1>3. QED
    BY <1>1, <1>2, DownStep

\* updateConditionStatus and the upsert.
LEMMA DownWrite ==
  ASSUME TypeOK, DownInv, NEW t \in Thread, Write(t) PROVE DownInv'
  <1> USE ThreadParts DEF Goto, data, counts
  <1>0. /\ Held(t) /\ Fires(t) /\ ListLive
        /\ st \in [Thread -> Terminal \cup {"none"}]
    BY DEF DownInv, TypeOK, ThreadOK
  <1>1. CASE MarkStatus(t)
    <2>1. /\ mem' = [mem EXCEPT ![Id(cur[t])] = 0] /\ live' = live \ {cur[t]}
          /\ pc[t] = "mark" /\ pc'[t] = "db" /\ restarts' = restarts
          /\ UNCHANGED <<db, hit, cur, st, ret, rest, work>>
          /\ \A u \in Thread \ {t} : Untouched(u) /\ st'[u] = st[u]
      BY <1>1 DEF MarkStatus, Untouched
    <2>2. /\ \A d \in Cond : d = Id(cur[t]) => mem'[d] = 0
          /\ \A d \in Cond : d # Id(cur[t]) => mem'[d] = mem[d]
      BY <2>1
    <2>3. ListLive'
      BY <1>0, <2>1, <2>2 DEF ListLive, Id
    <2>4. Held(t)' /\ Fires(t)'
      BY <1>0, <2>1 DEF Held, Fires
    <2>5. \A d \in Cond : Doomed(t, d) => Doomed(t, d)' \/ mem'[d] = 0
      BY <2>1, <2>2 DEF Doomed
    <2>6. t = Monitor => \A c \in Cond : ~Linking(c)
      BY <2>1 DEF Linking
    <2>7. QED
      BY <2>1, <2>2, <2>3, <2>4, <2>5, <2>6, DownStep
  <1>2. CASE UpdateRow(t)
    <2>1. /\ pc[t] = "db" /\ pc'[t] = "hdel" /\ restarts' = restarts
          /\ UNCHANGED <<mem, live, hit, cur, ret, rest, work>>
          /\ \A u \in Thread \ {t} : Untouched(u) /\ st'[u] = st[u]
      BY <1>2 DEF UpdateRow, Untouched
    <2>2. \A c \in Cond : db'[c] = "TRIGGERED" =>
            db[c] = "TRIGGERED" \/ (c = Id(cur[t]) /\ st[t] = "TRIGGERED")
      BY <1>2 DEF UpdateRow
    <2>3. \A c \in Cond : db'[c] = "TRIGGERED" =>
            db[c] = "TRIGGERED" \/ Kind[c] # "SL" \/ Linking(c)'
      BY <1>0, <2>1, <2>2 DEF Fires, Linking
    <2>4. Held(t)' /\ Fires(t)'
      BY <1>0, <2>1 DEF Held, Fires
    <2>5. t = Monitor => \A c \in Cond : ~Linking(c)
      BY <2>1 DEF Linking
    <2>6. QED
      BY <2>1, <2>3, <2>4, <2>5, DownQuiet
  <1>3. CASE RemoveFromRedis(t) \/ PutToRedis(t)
    <2>1. /\ pc[t] \in {"hdel", "put"} /\ pc'[t] = ret[t]
          /\ UNCHANGED <<db, mem, live, hit, st, rest, work, restarts>>
          /\ \A u \in Thread \ {t} : Untouched(u) /\ st'[u] = st[u]
      BY <1>3 DEF RemoveFromRedis, PutToRedis, Return, Untouched
    <2>2. Held(t)' /\ Fires(t)'
      BY <1>0, <2>1 DEF Held, Fires
    <2>3. t = Monitor => \A c \in Cond : Linking(c) => Linking(c)'
      BY <2>1 DEF Linking
    <2>4. QED
      BY <2>1, <2>2, <2>3, DownQuiet
  <1>4. CASE CheckActive(t)
    <2>1. /\ pc[t] = "chk" /\ pc'[t] \in {"put", "hdel"}
          /\ UNCHANGED <<db, mem, live, hit, cur, st, ret, rest, work, restarts>>
          /\ \A u \in Thread \ {t} : Untouched(u) /\ st'[u] = st[u]
      BY <1>4 DEF CheckActive, Untouched
    <2>2. Held(t)' /\ Fires(t)'
      BY <1>0, <2>1 DEF Held, Fires
    <2>3. t = Monitor => \A c \in Cond : ~Linking(c)
      BY <2>1 DEF Linking
    <2>4. QED
      BY <2>1, <2>2, <2>3, DownQuiet
  <1>5. QED
    BY <1>1, <1>2, <1>3, <1>4 DEF Write

LEMMA AddedIsLive ==
  ASSUME TypeOK, ListLive, NEW c \in Cond, AddToMemory(c)
  PROVE  ListLive' /\ \A d \in Cond \ {c} : mem'[d] = mem[d]
  BY DEF AddToMemory, ListLive, TypeOK, DataOK

\* A condition enters the list from a registration, which is not over when
\* its stop loss has fired, or as a target its reader goes on to cancel.
LEMMA DownAdd ==
  ASSUME TypeOK, CourseInv, DownInv, NEW t \in Thread,
         InsertNew(t) \/ \E c \in Cond : LoadTarget(t, c)
  PROVE  DownInv'
  <1> USE ThreadParts DEF Goto, data, counts
  <1>0. Held(t) /\ Fires(t) /\ ListLive
    BY DEF DownInv
  <1>1. CASE InsertNew(t)
    <2> DEFINE e == Id(cur[t])
    <2>1. /\ e \in Cond /\ AddToMemory(e) /\ pc[t] = "insert"
          /\ pc'[t] = "chk" /\ ret'[t] \in {"create", "link", "idle"}
          /\ UNCHANGED <<db, hit, st, rest, work, restarts>>
          /\ \A u \in Thread \ {t} : Untouched(u) /\ st'[u] = st[u]
      BY <1>1 DEF InsertNew, Untouched, AtHand, Registered
    <2>2. \A c \in Cond : StopOf(c, e) => db[c] = "none"
      BY <2>1 DEF CourseInv, Registering, Course, StopsIn
    <2>3. ListLive' /\ \A d \in Cond \ {e} : mem'[d] = mem[d]
      BY <1>0, <2>1, AddedIsLive
    <2>4. rest[t] = {}
      BY <1>0, <2>1 DEF Held
    <2>5. Held(t)' /\ Fires(t)'
      BY <2>1, <2>4 DEF Held, Fires
    <2>6. \A d \in Cond : ~Doomed(t, d)
      BY <2>1, <2>4 DEF Doomed
    <2>7. t = Monitor => \A c \in Cond : ~Linking(c)
      BY <2>1 DEF Linking
    <2> HIDE DEF e
    <2>8. QED
      BY <2>1, <2>2, <2>3, <2>5, <2>6, <2>7, DownStep
  <1>2. ASSUME NEW e \in Cond, LoadTarget(t, e) PROVE DownInv'
    <2>1. /\ AddToMemory(e) /\ pc[t] = "load" /\ pc'[t] = "chk"
          /\ ret'[t] \in {"next", "load"}
          /\ rest'[t] = rest[t] \cup {<<e, made[e] + 1>>}
          /\ UNCHANGED <<db, hit, st, restarts>>
          /\ \A u \in Thread \ {t} : Untouched(u) /\ st'[u] = st[u]
      BY <1>2 DEF LoadTarget, Untouched
    <2>2. ListLive' /\ \A d \in Cond \ {e} : mem'[d] = mem[d]
      BY <1>0, <2>1, AddedIsLive
    <2>3. Doomed(t, e)'
      <3>1. PICK o : o = <<e, made[e] + 1>>
        OBVIOUS
      <3>2. o \in rest'[t] /\ Id(o) = e
        BY <2>1, <3>1 DEF Id
      <3>3. QED
        BY <3>2 DEF Doomed
    <2>4. Held(t)' /\ Fires(t)'
      BY <2>1 DEF Held, Fires
    <2>5. \A d \in Cond : Doomed(t, d) => Doomed(t, d)'
      BY <2>1 DEF Doomed
    <2>6. t = Monitor => \A c \in Cond : ~Linking(c)
      BY <2>1 DEF Linking
    <2>7. QED
      BY <2>1, <2>2, <2>3, <2>4, <2>5, <2>6, DownStep
  <1>3. QED
    BY <1>1, <1>2

LEMMA DownProceed ==
  ASSUME TypeOK, CourseInv, DownInv, NEW t \in Thread,
         Proceed(t) \/ (t \in Caller /\ Request(t))
  PROVE  DownInv'
  <1> USE ThreadParts DEF Goto, data, counts
  <1>0. /\ Held(t) /\ Fires(t)
        /\ st \in [Thread -> Terminal \cup {"none"}]
    BY DEF DownInv, TypeOK, ThreadOK
  <1>1. CASE \E c \in Cond : CreateRow(t, c)
    <2>1. /\ pc[t] = "create" /\ pc'[t] \in {"insert", "link", "idle"}
          /\ UNCHANGED <<mem, live, hit, st, ret, rest, restarts>>
          /\ \A u \in Thread \ {t} : Untouched(u) /\ st'[u] = st[u]
      BY <1>1 DEF CreateRow, Untouched, Registered
    <2>2. \A c \in Cond : db'[c] = "TRIGGERED" => db[c] = "TRIGGERED"
      BY <1>1 DEF CreateRow
    <2>3. Held(t)' /\ Fires(t)'
      BY <1>0, <2>1 DEF Held, Fires
    <2>4. t = Monitor => \A c \in Cond : ~Linking(c)
      BY <2>1 DEF Linking
    <2>5. QED
      BY <2>1, <2>2, <2>3, <2>4, DownQuiet
  <1>2. ASSUME NEW o \in rest[t], CancelNext(t, o) PROVE DownInv'
    <2>1. /\ pc[t] = "next" /\ pc'[t] = "mark" /\ cur'[t] = o
          /\ st'[t] = "CANCELLED" /\ ret'[t] = "next"
          /\ rest'[t] = rest[t] \ {o}
          /\ UNCHANGED <<db, mem, live, hit, restarts>>
          /\ \A u \in Thread \ {t} : Untouched(u) /\ st'[u] = st[u]
      BY <1>0, <1>2 DEF CancelNext, Untouched
    <2>2. Held(t)' /\ Fires(t)'
      BY <2>1 DEF Held, Fires
    <2>3. \A d \in Cond : Doomed(t, d) => Doomed(t, d)'
      BY <2>1 DEF Doomed
    <2>4. ListLive'
      BY <2>1 DEF DownInv, ListLive
    <2>5. t = Monitor => \A c \in Cond : ~Linking(c)
      BY <2>1 DEF Linking
    <2>6. QED
      BY <2>1, <2>2, <2>3, <2>4, <2>5, DownStep
  <1>3. ASSUME /\ pc[t] \in {"next", "lookredis", "lookdb", "readdb",
                             "refill", "idle"}
               /\ pc'[t] \in {"scan", "idle", "load", "lookdb", "refill",
                              "create", "readdb", "next", "lookredis"}
               /\ UNCHANGED <<db, mem, live, hit, st, restarts>>
               /\ \A u \in Thread \ {t} : Untouched(u) /\ st'[u] = st[u],
               \/ rest[t] = {} /\ rest'[t] = {}
               \/ rest[t] = {} /\ pc'[t] = "next"
        PROVE  DownInv'
    <2>1. Held(t)' /\ Fires(t)'
      BY <1>3 DEF Held, Fires
    <2>2. t = Monitor => \A c \in Cond : ~Linking(c)
      BY <1>3 DEF Linking
    <2>3. QED
      BY <1>3, <2>1, <2>2, DownQuiet
  <1>4. pc[t] \notin {"next", "load", "mark", "db", "hdel", "chk", "put"}
          => rest[t] = {}
    BY <1>0 DEF Held
  <1>5. CASE CancelDone(t)
    BY <1>3, <1>5 DEF CancelDone, Home, Untouched
  <1>6. CASE LookInRedis(t) \/ LookInDB(t) \/ ReadRows(t)
    BY <1>3, <1>4, <1>6 DEF LookInRedis, LookInDB, ReadRows, Untouched
  <1>7. CASE \E c \in Cond : RefillRedis(t, c)
    BY <1>3, <1>4, <1>7 DEF RefillRedis, Untouched
  <1>8. CASE StartList(t) \/ \E B \in Batch : StartRegister(t, B)
    BY <1>3, <1>4, <1>8 DEF StartList, StartRegister, Called, Untouched
  <1>9. CASE \E C \in Targets : StartCancel(t, C)
    BY <1>3, <1>4, <1>9 DEF StartCancel, Called, Untouched
  <1>10. QED
    BY <1>1, <1>2, <1>5, <1>6, <1>7, <1>8, <1>9, DownWrite, DownAdd
    DEF Proceed, Request

LEMMA DownTick ==
  ASSUME TypeOK, DownInv, Tick PROVE DownInv'
  <1> USE ThreadParts DEF Goto, data, counts
  <1>0. /\ Monitor \in Thread /\ Held(Monitor) /\ Fires(Monitor) /\ ListLive
        /\ st \in [Thread -> Terminal \cup {"none"}]
    BY DEF DownInv, TypeOK, ThreadOK, Thread
  <1>1. ASSUME pc[Monitor] \in {"idle", "scan", "fire"}, rest' = rest,
               UNCHANGED <<db, mem, live, restarts>>,
               \A u \in Thread \ {Monitor} : Untouched(u) /\ st'[u] = st[u],
               Fires(Monitor)'
        PROVE  DownInv'
    <2>1. rest[Monitor] = {}
      BY <1>0, <1>1 DEF Held
    <2>2. Held(Monitor)' /\ \A c \in Cond : ~Linking(c)
      BY <1>1, <2>1 DEF Held, Linking
    <2>3. QED
      BY <1>0, <1>1, <2>2, DownQuiet
  <1>2. CASE \E C \in SUBSET Cond : TickStart(C)
    <2>1. Fires(Monitor)'
      BY <1>0, <1>2 DEF TickStart, Fires
    <2>2. QED
      BY <1>0, <1>1, <1>2, <2>1 DEF TickStart, Untouched
  <1>3. CASE \E o \in todo : MoveExtremum(o) \/ Leave(o)
    <2>1. Fires(Monitor)'
      BY <1>0, <1>3 DEF MoveExtremum, Leave, Turn, Fires
    <2>2. QED
      BY <1>0, <1>1, <1>3, <2>1 DEF MoveExtremum, Leave, Turn, Untouched
  <1>4. ASSUME NEW o \in todo,
               \/ TriggerFull(o) \/ TriggerClosed(o)
               \/ \E p \in Pool : TriggerPartial(o, p)
        PROVE  DownInv'
    <2>1. Fires(Monitor)'
      BY <1>0, <1>4
      DEF TriggerFull, TriggerClosed, TriggerPartial, Settle, Fires
    <2>2. QED
      BY <1>0, <1>1, <1>4, <2>1
      DEF TriggerFull, TriggerClosed, TriggerPartial, Turn, Settle, Untouched
  <1>5. CASE CollectLinked
    <2>1. /\ pc[Monitor] = "link" /\ pc'[Monitor] = "next"
          /\ rest'[Monitor] = Linked(hit[1], hit[2])
          /\ UNCHANGED <<db, mem, live, st, ret, restarts>>
          /\ \A u \in Thread \ {Monitor} : Untouched(u) /\ st'[u] = st[u]
      BY <1>0, <1>5 DEF CollectLinked, Untouched
    <2>2. rest[Monitor] = {} /\ \A d \in Cond : ~Doomed(Monitor, d)
      BY <1>0, <2>1 DEF Held, Doomed
    <2>3. Held(Monitor)' /\ Fires(Monitor)' /\ ListLive'
      BY <1>0, <2>1 DEF Held, Fires, ListLive
    <2>4. ASSUME NEW c \in Cond, NEW d \in Cond, Linking(c), StopOf(c, d)
          PROVE  Safe(d)'
      <3>1. CASE mem[d] = 0
        BY <2>1, <3>1 DEF Safe
      <3>2. CASE mem[d] # 0
        <4>1. PICK o : o = <<d, mem[d]>>
          OBVIOUS
        <4>2. d \in {e \in InGroup(c, Kinds) \ {c} :
                       TakesAlong(c, hit[2], e)}
          BY <2>4 DEF StopOf, InGroup, Kinds, TakesAlong
        <4>3. o \in Linked(c, hit[2]) /\ Id(o) = d
          BY <1>0, <3>2, <4>1, <4>2 DEF Linked, Listed, ListLive, Id
        <4>4. o \in rest'[Monitor]
          BY <2>1, <2>4, <4>3 DEF Linking
        <4>5. QED
          BY <1>0, <4>3, <4>4 DEF Safe, Doomed
      <3>3. QED
        BY <3>1, <3>2
    <2>5. QED
      BY <1>0, <2>1, <2>2, <2>3, <2>4, DownStep
  <1>6. QED
    BY <1>2, <1>3, <1>4, <1>5 DEF Tick

LEMMA DownRestart == ASSUME TypeOK, Restart PROVE DownInv'
  <1>1. PICK S : Boot(S)
    BY DEF Restart, RestartFromRedis, RestartFromDB, RestartEmpty
  <1>2. ListLive'
    BY <1>1 DEF Boot, ListLive
  <1>3. StandDown'
    BY <1>1 DEF Boot, StandDown, TypeOK, CountOK
  <1>4. \A t \in Thread : Held(t)' /\ Fires(t)'
    BY <1>1 DEF Boot, Held, Fires
  <1>5. QED
    BY <1>2, <1>3, <1>4 DEF DownInv

LEMMA DownAlways == Spec => [](CourseInv /\ DownInv)
  <1>1. Init => CourseInv /\ DownInv
    <2>1. Init => CourseInv
      BY DEF Init, CourseInv, Registering
    <2>2. Init => DownInv
      BY DEF Init, DownInv, ListLive, StandDown, Held, Fires
    <2>3. QED
      BY <2>1, <2>2
  <1>2. TypeOK /\ RecordInv /\ CourseInv /\ DownInv /\ [Next]_vars
          => (CourseInv /\ DownInv)'
    <2> SUFFICES ASSUME TypeOK, RecordInv, CourseInv, DownInv, [Next]_vars
                 PROVE  CourseInv' /\ DownInv'
      OBVIOUS
    <2>1. CASE Tick
      BY <2>1, CourseTick, DownTick
    <2>2. CASE Restart
      BY <2>2, CourseRestart, DownRestart
    <2>3. ASSUME NEW t \in Thread, Proceed(t) PROVE CourseInv' /\ DownInv'
      BY <2>3, CourseProceed, DownProceed
    <2>4. ASSUME NEW t \in Caller, Request(t) PROVE CourseInv' /\ DownInv'
      BY <2>4, CourseProceed, DownProceed DEF Thread
    <2>5. CASE UNCHANGED vars
      <3>1. CourseInv'
        BY <2>5
        DEF CourseInv, Registering, Course, OwnPart, StopsIn, vars, data,
            locals
      <3>2. DownInv'
        BY <2>5
        DEF DownInv, ListLive, StandDown, Held, Fires, Linking, Safe, Doomed,
            vars, data, locals, counts
      <3>3. QED
        BY <3>1, <3>2
    <2>6. QED
      BY <2>1, <2>2, <2>3, <2>4, <2>5 DEF Next
  <1>3. QED
    BY <1>1, <1>2, TypeCorrect, RecordAlways, PTL DEF Spec

\* Short of a restart or a failed statement, once a stop loss was executed,
\* its row says so and everything is at rest, no take profit of its group is
\* armed any more, in the list or in the table.
THEOREM StopLossStandsAlone == Spec => []NoTakeProfitAfterStopLoss
  <1>1. TypeOK /\ DownInv /\ WatchedWhenActive => NoTakeProfitAfterStopLoss
    <2> SUFFICES ASSUME TypeOK, DownInv, WatchedWhenActive, Quiescent,
                        restarts = 0, dbFaults = 0,
                        NEW c \in Cond, NEW d \in Cond, StopOf(c, d),
                        db[c] = "TRIGGERED"
                 PROVE  mem[d] = 0 /\ db[d] # "ACTIVE"
      BY DEF NoTakeProfitAfterStopLoss, StopOf
    <2>1. \A t \in Thread : pc[t] = "idle" /\ rest[t] = {}
      BY DEF Quiescent, DownInv, Held
    <2>2. Monitor \in Thread
      BY DEF Thread
    <2>3. mem[d] = 0
      BY <2>1, <2>2 DEF DownInv, StandDown, Safe, Doomed, Linking
    <2>4. QED
      BY <2>1, <2>3 DEF WatchedWhenActive, ActiveRows
  <1>2. QED
    BY <1>1, TypeCorrect, ActiveIsWatched, DownAlways, PTL

-----------------------------------------------------------------------------
(***************************************************************************)
(* Agreement.  First, an object in somebody's hands is one that was made,  *)
(* and nothing is made for a condition before its row exists.              *)
(***************************************************************************)
Carries == {"fire", "chk", "put", "mark", "db", "hdel"}
Real(o) == o[2] # 0 /\ o[2] <= made[Id(o)]

RealInv ==
  /\ \A o \in todo : Real(o)
  /\ \A t \in Thread : /\ pc[t] \in Carries => Real(cur[t])
                       /\ \A o \in rest[t] : Real(o)
  /\ \A c \in Cond : db[c] = "none" => made[c] = 0

\* It is enough to look at the thread that takes the step.
LEMMA RealStep ==
  ASSUME TypeOK, TypeOK', RealInv, NEW t \in Thread,
         \A u \in Thread \ {t} : Untouched(u),
         \A c \in Cond : made[c] <= made'[c],
         todo' \subseteq todo,
         pc'[t] \in Carries => Real(cur[t])',
         \A o \in rest'[t] : Real(o)',
         \A c \in Cond : db'[c] = "none" => made'[c] = 0
  PROVE  RealInv'
  <1>1. ASSUME NEW o \in Obj, Real(o) PROVE Real(o)'
    <2>1. Id(o) \in Cond /\ o[2] \in Nat
      BY DEF Id, Obj
    <2>2. made[Id(o)] \in Nat /\ made'[Id(o)] \in Nat /\ made[Id(o)] <= made'[Id(o)]
      BY <2>1 DEF TypeOK, DataOK
    <2>3. QED
      BY <1>1, <2>1, <2>2 DEF Real
  <1>2. \A o \in todo' : Real(o)'
    BY <1>1, ThreadParts DEF RealInv
  <1>3. ASSUME NEW u \in Thread \ {t}
        PROVE  /\ pc'[u] \in Carries => Real(cur[u])'
               /\ \A o \in rest'[u] : Real(o)'
    <2>1. pc[u] \in Carries => cur[u] \in Obj
      BY ThreadParts DEF Carries, AtHand
    <2>2. rest[u] \subseteq Obj
      BY ThreadParts
    <2>3. Untouched(u)
      OBVIOUS
    <2>4. pc'[u] \in Carries => Real(cur[u])'
      BY <1>1, <2>1, <2>3 DEF RealInv, Untouched
    <2>5. cur'[u] = cur[u] /\ rest'[u] = rest[u]
      BY <2>3 DEF Untouched
    <2>6. QED
      BY <1>1, <2>2, <2>4, <2>5 DEF RealInv, Real
  <1>4. QED
    BY <1>2, <1>3 DEF RealInv

\* Steps that make nothing.
LEMMA RealQuiet ==
  ASSUME TypeOK, TypeOK', RealInv, NEW t \in Thread,
         \A u \in Thread \ {t} : Untouched(u),
         made' = made,
         \A c \in Cond : db'[c] = "none" => db[c] = "none",
         todo' \subseteq todo,
         pc'[t] \in Carries => Real(cur'[t]),
         \A o \in rest'[t] : Real(o)
  PROVE  RealInv'
  <1>1. \A o : Real(o)' <=> Real(o)
    BY DEF Real
  <1>2. pc'[t] \in Carries => Real(cur[t])'
    BY DEF Real
  <1>3. \A c \in Cond : made[c] <= made'[c]
    BY DEF TypeOK, DataOK
  <1>4. \A c \in Cond : db'[c] = "none" => made'[c] = 0
    BY DEF RealInv
  <1>5. QED
    BY <1>1, <1>2, <1>3, <1>4, RealStep

LEMMA ListedReal ==
  ASSUME TypeOK, NEW C \in SUBSET Cond PROVE \A o \in Listed(C) : Real(o)
  BY DEF Listed, Real, Id, TypeOK, DataOK

LEMMA RealAdd ==
  ASSUME TypeOK, TypeOK', RecordInv, RealInv, NEW t \in Thread,
         InsertNew(t) \/ \E c \in Cond : LoadTarget(t, c)
  PROVE  RealInv'
  <1> USE ThreadParts DEF Goto
  <1>1. PICK d \in Cond :
          /\ OnRecord(d) /\ AddToMemory(d)
          /\ cur'[t] = <<d, made[d] + 1>>
          /\ rest'[t] \subseteq rest[t] \cup {<<d, made[d] + 1>>}
          /\ UNCHANGED <<db, todo>>
          /\ \A u \in Thread \ {t} : Untouched(u)
    <2>1. CASE InsertNew(t)
      <3>1. Id(cur[t]) \in Cond /\ OnRecord(Id(cur[t]))
        BY <2>1 DEF InsertNew, AtHand, ThreadRecorded, RecordInv
      <3>2. QED
        BY <2>1, <3>1 DEF InsertNew, Untouched
    <2>2. ASSUME NEW c \in Cond, LoadTarget(t, c)
          PROVE  /\ OnRecord(c) /\ AddToMemory(c)
                 /\ cur'[t] = <<c, made[c] + 1>>
                 /\ rest'[t] \subseteq rest[t] \cup {<<c, made[c] + 1>>}
                 /\ UNCHANGED <<db, todo>>
                 /\ \A u \in Thread \ {t} : Untouched(u)
      BY <2>2 DEF LoadTarget, ThreadRecorded, RecordInv, Untouched
    <2>3. QED
      BY <2>1, <2>2
  <1>2. made \in [Cond -> Nat] /\ made' = [made EXCEPT ![d] = made[d] + 1]
    BY <1>1 DEF AddToMemory, TypeOK, DataOK
  <1>3. \A c \in Cond : made[c] <= made'[c]
    BY <1>2
  <1>4. ASSUME NEW o, o = <<d, made[d] + 1>> PROVE Real(o)'
    BY <1>2, <1>4 DEF Real, Id
  <1>5. \A o \in rest[t] : Real(o)'
    <2> SUFFICES ASSUME NEW o \in rest[t] PROVE Real(o)'
      OBVIOUS
    <2>1. o \in Obj /\ Real(o)
      BY DEF RealInv
    <2>2. Id(o) \in Cond /\ o[2] \in Nat
      BY <2>1 DEF Id, Obj
    <2>3. made[Id(o)] \in Nat /\ made'[Id(o)] \in Nat /\ made[Id(o)] <= made'[Id(o)]
      BY <1>2, <1>3, <2>2
    <2>4. QED
      BY <2>1, <2>2, <2>3 DEF Real
  <1>6. \A o \in rest'[t] : Real(o)'
    BY <1>1, <1>4, <1>5
  <1>7. Real(cur[t])'
    <2>1. PICK o : o = <<d, made[d] + 1>>
      OBVIOUS
    <2>2. o[1] = d /\ o[2] = made[d] + 1 /\ cur'[t] = o
      BY <1>1, <2>1
    <2>3. QED
      BY <1>2, <2>2 DEF Real, Id
  <1>8. \A c \in Cond : db'[c] = "none" => made'[c] = 0
    BY <1>1, <1>2 DEF RealInv, OnRecord
  <1>9. QED
    BY <1>1, <1>3, <1>6, <1>7, <1>8, RealStep

LEMMA RealProceed ==
  ASSUME TypeOK, TypeOK', RecordInv, RealInv, NEW t \in Thread,
         Proceed(t) \/ (t \in Caller /\ Request(t))
  PROVE  RealInv'
  <1> USE ThreadParts DEF Goto, data, counts, Untouched
  <1>0. /\ pc[t] \in Carries => Real(cur[t])
        /\ \A o \in rest[t] : Real(o)
    BY DEF RealInv
  <1>1. CASE MarkStatus(t) \/ CheckActive(t)
    BY <1>0, <1>1, RealQuiet DEF MarkStatus, CheckActive, Carries
  <1>2. CASE UpdateRow(t)
    <2>1. st[t] # "none"
      BY <1>2 DEF UpdateRow, TypeOK, ThreadOK, Terminal
    <2>2. \A c \in Cond : db'[c] = "none" => db[c] = "none"
      BY <1>2, <2>1 DEF UpdateRow
    <2>3. QED
      BY <1>0, <1>2, <2>2, RealQuiet DEF UpdateRow, Carries
  <1>3. CASE RemoveFromRedis(t) \/ PutToRedis(t)
    <2>1. /\ UNCHANGED <<db, made, todo, rest>> /\ pc'[t] = ret[t]
          /\ pc[t] \in {"hdel", "put"}
          /\ cur'[t] = IF ret[t] = "fire" THEN cur[t] ELSE NoObj
          /\ \A u \in Thread \ {t} : Untouched(u)
      BY <1>3 DEF RemoveFromRedis, PutToRedis, Return
    <2>2. pc'[t] \in Carries => Real(cur'[t])
      BY <1>0, <2>1 DEF Carries
    <2>3. QED
      BY <1>0, <2>1, <2>2, RealQuiet
  <1>4. CASE InsertNew(t) \/ \E c \in Cond : LoadTarget(t, c)
    BY <1>4, RealAdd
  <1>5. ASSUME NEW c \in Cond, CreateRow(t, c) PROVE RealInv'
    <2>1. \A d \in Cond : db'[d] = "none" => db[d] = "none"
      BY <1>5 DEF CreateRow
    <2>2. pc'[t] \notin Carries
      BY <1>5 DEF CreateRow, Registered, Carries
    <2>3. QED
      BY <1>0, <1>5, <2>1, <2>2, RealQuiet DEF CreateRow
  <1>6. CASE CancelDone(t)
    BY <1>0, <1>6, RealQuiet DEF CancelDone, Home, Carries
  <1>7. ASSUME NEW o \in rest[t], CancelNext(t, o) PROVE RealInv'
    BY <1>0, <1>7, RealQuiet DEF CancelNext, Carries
  <1>8. CASE LookInRedis(t) \/ LookInDB(t) \/ ReadRows(t)
    BY <1>0, <1>8, RealQuiet DEF LookInRedis, LookInDB, ReadRows, Carries
  <1>9. CASE \E c \in Cond : RefillRedis(t, c)
    BY <1>0, <1>9, RealQuiet DEF RefillRedis, Carries
  <1>10. CASE StartList(t) \/ \E B \in Batch : StartRegister(t, B)
    BY <1>0, <1>10, RealQuiet DEF StartList, StartRegister, Called, Carries
  <1>11. ASSUME NEW C \in Targets, StartCancel(t, C) PROVE RealInv'
    <2>1. \A o \in Listed(C) : Real(o)
      BY ListedReal DEF Targets, InGroup
    <2>2. QED
      BY <1>0, <1>11, <2>1, RealQuiet DEF StartCancel, Called, Carries
  <1>12. QED
    BY <1>1, <1>2, <1>3, <1>4, <1>5, <1>6, <1>7, <1>8, <1>9, <1>10, <1>11
    DEF Proceed, Write, Request

LEMMA RealTick == ASSUME TypeOK, TypeOK', RealInv, Tick PROVE RealInv'
  <1> USE ThreadParts DEF Goto, data, counts, Untouched
  <1>0. /\ Monitor \in Thread /\ \A o \in todo : Real(o)
        /\ pc[Monitor] \in Carries => Real(cur[Monitor])
        /\ \A o \in rest[Monitor] : Real(o)
    BY DEF RealInv, Thread
  <1>1. ASSUME NEW C \in SUBSET Cond, TickStart(C) PROVE RealInv'
    <2>1. /\ UNCHANGED <<made, db, cur, rest>>
          /\ todo' = {<<c, mem[c]>> : c \in C}
          /\ \A c \in C : mem[c] # 0
          /\ pc' = [pc EXCEPT ![Monitor] = "scan"]
      BY <1>1 DEF TickStart
    <2>2. \A o \in todo' : Real(o)
      BY <2>1 DEF Real, Id, TypeOK, DataOK
    <2>3. \A o : Real(o)' <=> Real(o)
      BY <2>1 DEF Real
    <2>4. ASSUME NEW u \in Thread, pc'[u] \in Carries PROVE pc[u] \in Carries
      <3>1. pc' = [pc EXCEPT ![Monitor] = "scan"]
        BY <2>1
      <3>2. QED
        BY <1>0, <2>4, <3>1 DEF Carries
    <2>5. \A u \in Thread : pc'[u] \in Carries => Real(cur[u])'
      BY <2>1, <2>4 DEF RealInv, Real
    <2>6. QED
      BY <2>1, <2>2, <2>3, <2>5 DEF RealInv
  <1>2. ASSUME NEW o \in todo,
               \/ MoveExtremum(o) \/ Leave(o) \/ TriggerFull(o)
               \/ TriggerClosed(o) \/ \E p \in Pool : TriggerPartial(o, p)
        PROVE  RealInv'
    <2>1. /\ UNCHANGED <<db, made, rest>> /\ todo' \subseteq todo
          /\ \A u \in Thread \ {Monitor} : Untouched(u)
          /\ pc'[Monitor] \in Carries => cur'[Monitor] = o
      BY <1>0, <1>2
      DEF MoveExtremum, Leave, TriggerFull, TriggerClosed, TriggerPartial,
          Turn, Settle, Carries
    <2>2. QED
      BY <1>0, <2>1, RealQuiet
  <1>3. CASE CollectLinked
    <2>1. \A o \in Linked(hit[1], hit[2]) : Real(o)
      BY ListedReal DEF Linked, InGroup
    <2>2. QED
      BY <1>0, <1>3, <2>1, RealQuiet DEF CollectLinked, Carries
  <1>4. QED
    BY <1>1, <1>2, <1>3 DEF Tick

LEMMA RealRestart ==
  ASSUME TypeOK, TypeOK', RecordInv, RealInv, Restart PROVE RealInv'
  <1>1. PICK S \in SUBSET Cond : Boot(S) /\ \A c \in S : OnRecord(c)
    <2>1. /\ redis \subseteq Cond /\ ActiveRows \subseteq Cond
          /\ \A c \in redis \cup ActiveRows : OnRecord(c)
      BY DEF TypeOK, DataOK, ActiveRows, RecordInv, StoresRecorded, OnRecord
    <2>2. QED
      BY <2>1 DEF Restart, RestartFromRedis, RestartFromDB, RestartEmpty
  <1>2. /\ todo' = {} /\ \A t \in Thread : pc'[t] = "idle" /\ rest'[t] = {}
        /\ db' = db
    BY <1>1 DEF Boot
  <1>3. \A c \in Cond : db'[c] = "none" => made'[c] = 0
    BY <1>1, <1>2 DEF Boot, RealInv, OnRecord
  <1>4. QED
    BY <1>2, <1>3 DEF RealInv, Carries

LEMMA RealAlways == Spec => []RealInv
  <1>1. Init => RealInv
    BY DEF Init, RealInv, Carries
  <1>2. TypeOK /\ TypeOK' /\ RecordInv /\ RealInv /\ [Next]_vars => RealInv'
    <2> SUFFICES ASSUME TypeOK, TypeOK', RecordInv, RealInv, [Next]_vars
                 PROVE  RealInv'
      OBVIOUS
    <2>1. CASE Tick
      BY <2>1, RealTick
    <2>2. CASE Restart
      BY <2>2, RealRestart
    <2>3. ASSUME NEW t \in Thread, Proceed(t) PROVE RealInv'
      BY <2>3, RealProceed
    <2>4. ASSUME NEW t \in Caller, Request(t) PROVE RealInv'
      BY <2>4, RealProceed DEF Thread
    <2>5. CASE UNCHANGED vars
      BY <2>5 DEF RealInv, Real, vars, data, locals, counts
    <2>6. QED
      BY <2>1, <2>2, <2>3, <2>4, <2>5 DEF Next
  <1>3. QED
    BY <1>1, <1>2, TypeCorrect, RecordAlways, PTL DEF Spec

(***************************************************************************)
(* Then the two stores.  A made object is off the list's books (not live), *)
(* and a hash entry is removed, only for a row that somebody is about to   *)
(* settle or has settled; and an ACTIVE row is in the hash unless somebody *)
(* is on the way to put it there.                                          *)
(***************************************************************************)
Faultless == restarts = 0 /\ dbFaults = 0 /\ redisFaults = 0

Writing(c)   == \E t \in Thread : pc[t] = "db" /\ Id(cur[t]) = c
Upserting(c) ==
  \E t \in Thread : pc[t] \in {"insert", "chk", "put"} /\ Id(cur[t]) = c

Marked ==
  \A o \in Obj : Real(o) /\ o \notin live /\ db[Id(o)] = "ACTIVE"
                   => Writing(Id(o))
Removing(t) ==
  pc[t] = "hdel" /\ db[Id(cur[t])] = "ACTIVE" => Writing(Id(cur[t]))
Shelved ==
  \A c \in ActiveRows : c \in redis \/ Upserting(c) \/ Writing(c)

StoresInv ==
  Faultless => Marked /\ Shelved /\ \A t \in Thread : Removing(t)

LEMMA FaultlessBefore ==
  ASSUME TypeOK, [Next]_vars, Faultless'
  PROVE  Faultless /\ UNCHANGED <<restarts, dbFaults, redisFaults>>
  <1> USE DEF TypeOK, CountOK, Faultless, DBFails, RedisFails, counts, data,
              locals
  <1>1. CASE Tick
    BY <1>1
    DEF Tick, TickStart, MoveExtremum, Leave, TriggerFull, TriggerClosed,
        TriggerPartial, CollectLinked
  <1>2. CASE Restart
    BY <1>2
    DEF Restart, RestartFromRedis, RestartFromDB, RestartEmpty, Boot
  <1>3. ASSUME NEW t \in Thread, Write(t)
        PROVE  Faultless /\ UNCHANGED <<restarts, dbFaults, redisFaults>>
    BY <1>3
    DEF Write, MarkStatus, UpdateRow, RemoveFromRedis, CheckActive, PutToRedis
  <1>4. ASSUME NEW t \in Thread, Proceed(t), ~Write(t)
        PROVE  Faultless /\ UNCHANGED <<restarts, dbFaults, redisFaults>>
    BY <1>4
    DEF Proceed, InsertNew, CancelDone, LookInRedis, LookInDB, ReadRows,
        CreateRow, LoadTarget, RefillRedis, CancelNext
  <1>5. ASSUME NEW t \in Caller, Request(t)
        PROVE  Faultless /\ UNCHANGED <<restarts, dbFaults, redisFaults>>
    BY <1>5 DEF Request, StartRegister, StartCancel, StartList
  <1>6. CASE UNCHANGED vars
    BY <1>6 DEF vars
  <1>7. QED
    BY <1>1, <1>2, <1>3, <1>4, <1>5, <1>6 DEF Next

\* A step that creates no row.
LEMMA StoresStep ==
  ASSUME TypeOK, StoresInv, Faultless, NEW t \in Thread,
         \A u \in Thread \ {t} : Untouched(u),
         \A c \in Cond : db'[c] = "ACTIVE" => db[c] = "ACTIVE",
         \A c \in Cond : Writing(c) /\ db'[c] = "ACTIVE" => Writing(c)',
         \A o \in Obj : Real(o)' /\ o \notin live' /\ db'[Id(o)] = "ACTIVE"
                          => (Real(o) /\ o \notin live) \/ Writing(Id(o))',
         Removing(t)',
         \A c \in Cond :
           (c \in redis \/ Upserting(c)) /\ db'[c] = "ACTIVE"
             => c \in redis' \/ Upserting(c)' \/ Writing(c)'
  PROVE  StoresInv'
  <1>1. Marked /\ Shelved /\ \A u \in Thread : Removing(u)
    BY DEF StoresInv
  <1>2. Marked'
    <2> SUFFICES ASSUME NEW o \in Obj, Real(o)', o \notin live',
                        db'[Id(o)] = "ACTIVE"
                 PROVE  Writing(Id(o))'
      BY DEF Marked
    <2>1. Id(o) \in Cond
      BY ObjFacts
    <2>2. CASE Real(o) /\ o \notin live
      <3>1. Writing(Id(o))
        BY <1>1, <2>1, <2>2 DEF Marked
      <3>2. PICK c \in Cond : c = Id(o)
        BY <2>1
      <3>3. Writing(c)'
        BY <3>1, <3>2
      <3>4. QED
        BY <3>2, <3>3
    <2>3. QED
      BY <2>2
  <1>3. Shelved'
    <2> SUFFICES ASSUME NEW c \in Cond, db'[c] = "ACTIVE"
                 PROVE  c \in redis' \/ Upserting(c)' \/ Writing(c)'
      BY DEF Shelved, ActiveRows
    <2>1. c \in redis \/ Upserting(c) \/ Writing(c)
      BY <1>1 DEF Shelved, ActiveRows
    <2>2. QED
      BY <2>1
  <1>4. ASSUME NEW u \in Thread \ {t} PROVE Removing(u)'
    <2>1. Untouched(u) /\ Removing(u)
      BY <1>1
    <2>2. SUFFICES ASSUME pc'[u] = "hdel", db'[Id(cur'[u])] = "ACTIVE"
                   PROVE  Writing(Id(cur[u]))'
      BY DEF Removing
    <2>3. PICK c \in Cond : c = Id(cur[u])
      BY <2>1, <2>2, ThreadParts DEF Untouched, AtHand
    <2>4. c = Id(cur'[u])
      BY <2>1, <2>3 DEF Untouched
    <2>5. Writing(c)
      BY <2>1, <2>2, <2>3, <2>4 DEF Removing, Untouched
    <2>6. Writing(c)'
      BY <2>2, <2>4, <2>5
    <2>7. QED
      BY <2>4, <2>6 DEF Writing
  <1>5. QED
    BY <1>2, <1>3, <1>4 DEF StoresInv

\* Steps that leave the rows and the objects alone and take nothing out of
\* the hash, of a thread that is not on the way to it.
LEMMA StoresQuiet ==
  ASSUME TypeOK, StoresInv, Faultless, NEW t \in Thread,
         \A u \in Thread \ {t} : Untouched(u),
         UNCHANGED <<db, live, made>>, redis \subseteq redis',
         pc[t] \notin {"db", "insert", "chk", "put"}, pc'[t] # "hdel"
  PROVE  StoresInv'
  <1>1. ASSUME NEW c PROVE Writing(c) => Writing(c)'
    BY DEF Writing, Untouched
  <1>2. ASSUME NEW c PROVE Upserting(c) => Upserting(c)'
    BY DEF Upserting, Untouched
  <1>3. \A o : Real(o)' <=> Real(o)
    BY DEF Real
  <1>4. Removing(t)'
    BY DEF Removing
  <1>5. QED
    BY <1>1, <1>2, <1>3, <1>4, StoresStep

\* updateConditionStatus and the upsert.
LEMMA StoresWrite ==
  ASSUME TypeOK, RealInv, StoresInv, Faultless, Faultless',
         NEW t \in Thread, Write(t)
  PROVE  StoresInv'
  <1> USE ThreadParts DEF Goto, data, counts
  <1>0. Marked /\ Shelved /\ Removing(t)
    BY DEF StoresInv
  <1>1. CASE MarkStatus(t)
    <2>1. /\ pc[t] = "mark" /\ pc'[t] = "db" /\ cur' = cur
          /\ live' = live \ {cur[t]} /\ UNCHANGED <<db, redis, made>>
          /\ \A u \in Thread \ {t} : Untouched(u)
      BY <1>1 DEF MarkStatus, Untouched
    <2>2. ASSUME NEW c PROVE /\ Writing(c) => Writing(c)'
                             /\ Upserting(c) => Upserting(c)'
      BY <2>1 DEF Writing, Upserting, Untouched
    <2>3. ASSUME NEW o \in Obj, o = cur[t] PROVE Writing(Id(o))'
      BY <2>1, <2>3 DEF Writing
    <2>4. \A o : Real(o)' <=> Real(o)
      BY <2>1 DEF Real
    <2>5. Removing(t)'
      BY <2>1 DEF Removing
    <2>6. QED
      BY <2>1, <2>2, <2>3, <2>4, <2>5, StoresStep
  <1>2. CASE UpdateRow(t)
    <2>1. /\ pc[t] = "db" /\ pc'[t] = "hdel" /\ cur' = cur
          /\ db' = [db EXCEPT ![Id(cur[t])] = st[t]] /\ st[t] # "ACTIVE"
          /\ UNCHANGED <<live, redis, made>>
          /\ \A u \in Thread \ {t} : Untouched(u)
      BY <1>2
      DEF UpdateRow, Untouched, DBFails, Faultless, TypeOK, CountOK, ThreadOK,
          Terminal
    <2>2. PICK d \in Cond : d = Id(cur[t])
      BY <2>1 DEF AtHand
    <2>3. db'[d] # "ACTIVE" /\ \A c \in Cond \ {d} : db'[c] = db[c]
      BY <2>1, <2>2
    <2>4. ASSUME NEW c \in Cond \ {d} PROVE /\ Writing(c) => Writing(c)'
                                            /\ Upserting(c) => Upserting(c)'
      BY <2>1, <2>2 DEF Writing, Upserting, Untouched
    <2>5. \A o : Real(o)' <=> Real(o)
      BY <2>1 DEF Real
    <2>6. Removing(t)'
      BY <2>1, <2>2, <2>3 DEF Removing
    <2>7. QED
      BY <2>1, <2>3, <2>4, <2>5, <2>6, StoresStep
  <1>3. CASE RemoveFromRedis(t)
    <2>1. /\ pc[t] = "hdel" /\ pc'[t] = ret[t] /\ redis' = redis \ {Id(cur[t])}
          /\ UNCHANGED <<db, live, made>>
          /\ \A u \in Thread \ {t} : Untouched(u)
      BY <1>3
      DEF RemoveFromRedis, Return, Untouched, RedisFails, Faultless, TypeOK,
          CountOK
    <2>2. ASSUME NEW c PROVE /\ Writing(c) => Writing(c)'
                             /\ Upserting(c) => Upserting(c)'
      BY <2>1 DEF Writing, Upserting, Untouched
    <2>3. PICK d \in Cond : d = Id(cur[t])
      BY <2>1 DEF AtHand
    <2>4. db[d] = "ACTIVE" => Writing(d)
      BY <1>0, <2>1, <2>3 DEF Removing
    <2>5. \A o : Real(o)' <=> Real(o)
      BY <2>1 DEF Real
    <2>6. Removing(t)'
      BY <2>1 DEF Removing
    <2>7. QED
      BY <2>1, <2>2, <2>3, <2>4, <2>5, <2>6, StoresStep
  <1>4. CASE CheckActive(t)
    <2>1. /\ pc[t] = "chk" /\ UNCHANGED <<db, live, made, redis, cur>>
          /\ pc'[t] = IF cur[t] \in live THEN "put" ELSE "hdel"
          /\ \A u \in Thread \ {t} : Untouched(u)
      BY <1>4 DEF CheckActive, Untouched
    <2>2. PICK d \in Cond : d = Id(cur[t]) /\ cur[t] \in Obj /\ Real(cur[t])
      BY <2>1 DEF AtHand, RealInv, Carries
    <2>3. cur[t] \notin live /\ db[d] = "ACTIVE" => Writing(d)
      BY <1>0, <2>2 DEF Marked
    <2>4. ASSUME NEW c PROVE Writing(c) => Writing(c)'
      BY <2>1 DEF Writing, Untouched
    <2>5. ASSUME NEW c, c # d \/ cur[t] \in live
          PROVE  Upserting(c) => Upserting(c)'
      BY <2>1, <2>2, <2>5 DEF Upserting, Untouched
    <2>6. \A o : Real(o)' <=> Real(o)
      BY <2>1 DEF Real
    <2>7. Removing(t)'
      <3>1. SUFFICES ASSUME pc'[t] = "hdel", db'[Id(cur'[t])] = "ACTIVE"
                     PROVE  Writing(Id(cur[t]))'
        BY DEF Removing
      <3>2. Writing(d)
        BY <2>1, <2>2, <2>3, <3>1
      <3>3. Writing(d)'
        BY <2>4, <3>2
      <3>4. QED
        BY <2>1, <2>2, <3>3
    <2>8. QED
      BY <2>1, <2>2, <2>3, <2>4, <2>5, <2>6, <2>7, StoresStep
  <1>5. CASE PutToRedis(t)
    <2>1. /\ pc[t] = "put" /\ pc'[t] = ret[t]
          /\ redis' = redis \cup {Id(cur[t])}
          /\ UNCHANGED <<db, live, made>>
          /\ \A u \in Thread \ {t} : Untouched(u)
      BY <1>5
      DEF PutToRedis, Return, Untouched, RedisFails, Faultless, TypeOK,
          CountOK
    <2>2. ASSUME NEW c PROVE Writing(c) => Writing(c)'
      BY <2>1 DEF Writing, Untouched
    <2>3. ASSUME NEW c PROVE Upserting(c) => Upserting(c)' \/ c \in redis'
      BY <2>1 DEF Upserting, Untouched
    <2>4. \A o : Real(o)' <=> Real(o)
      BY <2>1 DEF Real
    <2>5. Removing(t)'
      BY <2>1 DEF Removing
    <2>6. QED
      BY <2>1, <2>2, <2>3, <2>4, <2>5, StoresStep
  <1>6. QED
    BY <1>1, <1>2, <1>3, <1>4, <1>5 DEF Write

\* A new object is live, and on the way to the hash.
LEMMA StoresAdd ==
  ASSUME TypeOK, StoresInv, Faultless, NEW t \in Thread,
         InsertNew(t) \/ \E c \in Cond : LoadTarget(t, c)
  PROVE  StoresInv'
  <1> USE ThreadParts DEF Goto
  <1>1. PICK d \in Cond :
          /\ AddToMemory(d) /\ pc'[t] = "chk"
          /\ cur'[t] = <<d, made[d] + 1>>
          /\ pc[t] = "load" \/ (pc[t] = "insert" /\ Id(cur[t]) = d)
          /\ UNCHANGED <<db, redis>>
          /\ \A u \in Thread \ {t} : Untouched(u)
    <2>1. CASE InsertNew(t)
      <3>1. Id(cur[t]) \in Cond
        BY <2>1 DEF InsertNew, AtHand
      <3>2. QED
        BY <2>1, <3>1 DEF InsertNew, Untouched
    <2>2. ASSUME NEW c \in Cond, LoadTarget(t, c)
          PROVE  /\ AddToMemory(c) /\ pc'[t] = "chk"
                 /\ cur'[t] = <<c, made[c] + 1>>
                 /\ pc[t] = "load" \/ (pc[t] = "insert" /\ Id(cur[t]) = c)
                 /\ UNCHANGED <<db, redis>>
                 /\ \A u \in Thread \ {t} : Untouched(u)
      BY <2>2 DEF LoadTarget, Untouched
    <2>3. QED
      BY <2>1, <2>2
  <1>2. /\ made \in [Cond -> Nat] /\ made' = [made EXCEPT ![d] = made[d] + 1]
        /\ live \subseteq live' /\ <<d, made[d] + 1>> \in live'
    BY <1>1 DEF AddToMemory, TypeOK, DataOK
  <1>3. Id(cur'[t]) = d
    BY <1>1 DEF Id
  <1>4. ASSUME NEW c PROVE /\ Writing(c) => Writing(c)'
                           /\ Upserting(c) => Upserting(c)'
    BY <1>1, <1>3 DEF Writing, Upserting, Untouched
  <1>5. ASSUME NEW o \in Obj, Real(o)', o \notin live'
        PROVE  Real(o) /\ o \notin live
    <2>1. PICK c \in Cond, n \in Nat : o = <<c, n>>
      BY DEF Obj
    <2>2. n # 0 /\ n <= made'[c]
      BY <1>5, <2>1 DEF Real, Id
    <2>3. c = d => n # made[d] + 1
      BY <1>2, <1>5, <2>1
    <2>4. n <= made[c]
      BY <1>2, <2>2, <2>3
    <2>5. QED
      BY <1>2, <1>5, <2>1, <2>2, <2>4 DEF Real, Id
  <1>6. Removing(t)'
    BY <1>1 DEF Removing
  <1>7. QED
    BY <1>1, <1>4, <1>5, <1>6, StoresStep

\* A row is created before anything is made for it, and by the thread that
\* goes on to insert it.
LEMMA StoresCreate ==
  ASSUME TypeOK, RealInv, CourseInv, StoresInv, Faultless, Faultless',
         NEW t \in Thread, NEW d \in Cond, CreateRow(t, d)
  PROVE  StoresInv'
  <1> USE ThreadParts DEF Goto
  <1>1. /\ pc[t] = "create" /\ d \in work[t] /\ pc'[t] = "insert"
        /\ cur'[t] = <<d, 0>> /\ db' = [db EXCEPT ![d] = "ACTIVE"]
        /\ UNCHANGED <<redis, live, made>>
        /\ \A u \in Thread \ {t} : Untouched(u)
    BY DEF CreateRow, DBFails, Faultless, TypeOK, CountOK, Untouched
  <1>2. db[d] = "none" /\ made[d] = 0
    BY <1>1 DEF CourseInv, Registering, Course, RealInv
  <1>3. Marked /\ Shelved /\ \A u \in Thread : Removing(u)
    BY DEF StoresInv
  <1>4. ASSUME NEW c PROVE /\ Writing(c) => Writing(c)'
                           /\ Upserting(c) => Upserting(c)'
    BY <1>1 DEF Writing, Upserting, Untouched
  <1>5. Upserting(d)'
    BY <1>1 DEF Upserting, Id
  <1>6. \A o \in Obj : Real(o) => Id(o) \in Cond /\ Id(o) # d
    <2> SUFFICES ASSUME NEW o \in Obj, Real(o), Id(o) = d PROVE FALSE
      BY ObjFacts
    <2>1. o[2] \in Nat /\ o[2] # 0 /\ o[2] <= made[d]
      BY DEF Real, Obj
    <2>2. QED
      BY <1>2, <2>1
  <1>7. \A c \in Cond \ {d} : db'[c] = db[c]
    BY <1>1
  <1>8. Marked'
    <2> SUFFICES ASSUME NEW o \in Obj, Real(o)', o \notin live',
                        db'[Id(o)] = "ACTIVE"
                 PROVE  Writing(Id(o))'
      BY DEF Marked
    <2>1. Real(o) /\ o \notin live
      BY <1>1 DEF Real
    <2>2. PICK c \in Cond \ {d} : c = Id(o)
      BY <1>6, <2>1
    <2>3. Writing(c)
      BY <1>3, <1>7, <2>1, <2>2 DEF Marked
    <2>4. QED
      BY <1>4, <2>2, <2>3
  <1>9. Shelved'
    <2> SUFFICES ASSUME NEW c \in Cond, db'[c] = "ACTIVE"
                 PROVE  c \in redis' \/ Upserting(c)' \/ Writing(c)'
      BY DEF Shelved, ActiveRows
    <2>1. CASE c = d
      BY <1>5, <2>1
    <2>2. CASE c # d
      <3>1. c \in redis \/ Upserting(c) \/ Writing(c)
        BY <1>3, <1>7, <2>2 DEF Shelved, ActiveRows
      <3>2. QED
        BY <1>1, <1>4, <3>1
    <2>3. QED
      BY <2>1, <2>2
  <1>10. ASSUME NEW u \in Thread PROVE Removing(u)'
    <2> SUFFICES ASSUME pc'[u] = "hdel", db'[Id(cur'[u])] = "ACTIVE"
                 PROVE  Writing(Id(cur[u]))'
      BY DEF Removing
    <2>1. u # t
      BY <1>1
    <2>2. /\ pc[u] = "hdel" /\ cur'[u] = cur[u] /\ cur[u] \in Obj
          /\ Real(cur[u])
      BY <1>1, <2>1 DEF Untouched, AtHand, RealInv, Carries
    <2>3. PICK c \in Cond \ {d} : c = Id(cur[u])
      BY <1>6, <2>2
    <2>4. Writing(c)
      BY <1>3, <1>7, <2>2, <2>3 DEF Removing
    <2>5. Writing(c)'
      BY <1>4, <2>4
    <2>6. QED
      BY <2>2, <2>3, <2>5
  <1>11. QED
    BY <1>8, <1>9, <1>10 DEF StoresInv

LEMMA StoresProceed ==
  ASSUME TypeOK, RealInv, CourseInv, StoresInv, Faultless, Faultless',
         NEW t \in Thread, Proceed(t) \/ (t \in Caller /\ Request(t))
  PROVE  StoresInv'
  <1> USE ThreadParts DEF Goto, data, counts, Untouched
  <1>1. CASE CancelDone(t) \/ \E o \in rest[t] : CancelNext(t, o)
    BY <1>1, StoresQuiet DEF CancelDone, CancelNext, Home
  <1>2. CASE LookInRedis(t) \/ LookInDB(t) \/ ReadRows(t)
    BY <1>2, StoresQuiet DEF LookInRedis, LookInDB, ReadRows
  <1>3. ASSUME NEW c \in Cond, RefillRedis(t, c) PROVE StoresInv'
    <2>1. redis \subseteq redis'
      BY <1>3 DEF RefillRedis
    <2>2. QED
      BY <1>3, <2>1, StoresQuiet DEF RefillRedis
  <1>4. CASE StartList(t) \/ \E B \in Batch : StartRegister(t, B)
    BY <1>4, StoresQuiet DEF StartList, StartRegister, Called
  <1>5. CASE \E C \in Targets : StartCancel(t, C)
    BY <1>5, StoresQuiet DEF StartCancel, Called
  <1>6. QED
    BY <1>1, <1>2, <1>3, <1>4, <1>5, StoresWrite, StoresAdd, StoresCreate
    DEF Proceed, Request

LEMMA StoresTick ==
  ASSUME TypeOK, StoresInv, Faultless, Tick PROVE StoresInv'
  <1> USE ThreadParts DEF Goto, data, counts, Untouched
  <1>0. Monitor \in Thread
    BY DEF Thread
  <1>1. CASE \E C \in SUBSET Cond : TickStart(C)
    BY <1>0, <1>1, StoresQuiet DEF TickStart
  <1>2. CASE \E o \in todo : MoveExtremum(o) \/ Leave(o)
    BY <1>0, <1>2, StoresQuiet DEF MoveExtremum, Leave, Turn
  <1>3. CASE \E o \in todo : TriggerFull(o) \/ TriggerClosed(o)
    BY <1>0, <1>3, StoresQuiet DEF TriggerFull, TriggerClosed, Turn, Settle
  <1>4. CASE \E o \in todo, p \in Pool : TriggerPartial(o, p)
    BY <1>0, <1>4, StoresQuiet DEF TriggerPartial, Turn, Settle
  <1>5. CASE CollectLinked
    BY <1>0, <1>5, StoresQuiet DEF CollectLinked
  <1>6. QED
    BY <1>1, <1>2, <1>3, <1>4, <1>5 DEF Tick

LEMMA StoresAlways == Spec => []StoresInv
  <1>1. Init => StoresInv
    <2> SUFFICES ASSUME Init PROVE Marked /\ Shelved /\ \A t \in Thread : Removing(t)
      BY DEF StoresInv
    <2>1. /\ db = [c \in Cond |-> "none"]
          /\ \A t \in Thread : pc[t] = "idle"
      BY DEF Init
    <2>2. QED
      BY <2>1, ObjFacts DEF Marked, Shelved, Removing, ActiveRows
  <1>2. TypeOK /\ RealInv /\ CourseInv /\ StoresInv /\ [Next]_vars => StoresInv'
    <2> SUFFICES ASSUME TypeOK, RealInv, CourseInv, StoresInv, [Next]_vars,
                        Faultless'
                 PROVE  StoresInv'
      BY DEF StoresInv
    <2>0. Faultless
      BY FaultlessBefore
    <2>1. CASE Tick
      BY <2>0, <2>1, StoresTick
    <2>2. CASE Restart
      BY <2>2
      DEF Restart, RestartFromRedis, RestartFromDB, RestartEmpty, Boot,
          Faultless, TypeOK, CountOK
    <2>3. ASSUME NEW t \in Thread, Proceed(t) PROVE StoresInv'
      BY <2>0, <2>3, StoresProceed
    <2>4. ASSUME NEW t \in Caller, Request(t) PROVE StoresInv'
      BY <2>0, <2>4, StoresProceed DEF Thread
    <2>5. CASE UNCHANGED vars
      BY <2>5
      DEF StoresInv, Faultless, Marked, Shelved, Removing, Writing, Upserting,
          ActiveRows, Real, vars, data, locals, counts
    <2>6. QED
      BY <2>1, <2>2, <2>3, <2>4, <2>5 DEF Next
  <1>3. QED
    BY <1>1, <1>2, TypeCorrect, RealAlways, DownAlways, PTL DEF Spec

\* Between calls, without a restart or a failed statement, every ACTIVE row is
\* in the monitor's list and in the Redis hash, whoever called what at the same
\* time: the half of Agreement that keeps orders from being lost.
ActiveEverywhere ==
  Quiescent /\ Faultless =>
    \A c \in ActiveRows : mem[c] # 0 /\ c \in redis

\* A condition that was acknowledged and not settled is neither lost by the
\* monitor nor by the hash from which the next start loads.
THEOREM NoneForgotten == Spec => []ActiveEverywhere
  <1>1. StoresInv /\ WatchedWhenActive => ActiveEverywhere
    BY DEF ActiveEverywhere, Quiescent, WatchedWhenActive, Faultless, StoresInv,
           Shelved, Upserting, Writing
  <1>2. QED
    BY <1>1, StoresAlways, ActiveIsWatched, PTL

(***************************************************************************)
(* The list against the table.  With one request at a time and no trailing *)
(* stop registered by the monitor, a condition is inserted before anybody  *)
(* can hold an object of it, and whoever settles its row has taken it off  *)
(* the list or is about to.                                                *)
(***************************************************************************)
OneAtATime == (\A t, u \in Caller : t = u) /\ Pool = {}

MonitorWatches ==
  /\ pc[Monitor] \notin {"create", "insert", "lookredis", "lookdb", "load"}
  /\ ret[Monitor] \notin {"create", "load"}

Inserts(t) ==
  pc[t] = "insert" => made[Id(cur[t])] = 0 /\ db[Id(cur[t])] = "ACTIVE"

Settles(t) == pc[t] = "db" => Safe(Id(cur[t]))

AloneInv ==
  /\ MonitorWatches /\ \A t \in Thread : Inserts(t)
  /\ restarts = 0 =>
       /\ \A c \in Cond : db[c] = "ACTIVE" \/ Safe(c)
       /\ \A t \in Thread : Settles(t)

\* It is enough to look at the thread that takes the step: while a caller
\* does, nobody else is inserting.
LEMMA AloneStep ==
  ASSUME OneAtATime, TypeOK, RealInv, AloneInv, NEW t \in Thread,
         \A u \in Thread \ {t} : Untouched(u),
         restarts' = restarts,
         t = Monitor => MonitorWatches',
         t = Monitor => \A c \in Cond : made[c] = 0 /\ db[c] = "ACTIVE"
                                  => made'[c] = 0 /\ db'[c] = "ACTIVE",
         Inserts(t)',
         \A c \in Cond : Safe(c) => Safe(c)' \/ (made[c] = 0 /\ db'[c] = "ACTIVE"),
         \A c \in Cond : db'[c] # "ACTIVE" => db[c] # "ACTIVE" \/ Safe(c),
         Settles(t)'
  PROVE  AloneInv'
  <1>0. Monitor \in Thread
    BY DEF Thread
  <1>1. MonitorWatches'
    BY <1>0 DEF AloneInv, MonitorWatches, Untouched
  <1>2. ASSUME NEW u \in Thread \ {t} PROVE Inserts(u)'
    <2> SUFFICES ASSUME pc'[u] = "insert"
                 PROVE  made'[Id(cur'[u])] = 0 /\ db'[Id(cur'[u])] = "ACTIVE"
      BY DEF Inserts
    <2>1. pc[u] = "insert" /\ cur'[u] = cur[u]
      BY DEF Untouched
    <2>2. u # Monitor
      BY <2>1 DEF AloneInv, MonitorWatches
    <2>3. t = Monitor
      BY <2>2 DEF OneAtATime, Thread
    <2>4. PICK c \in Cond : c = Id(cur[u])
      BY <2>1, ThreadParts DEF AtHand
    <2>5. made[c] = 0 /\ db[c] = "ACTIVE"
      BY <2>1, <2>4 DEF AloneInv, Inserts
    <2>6. QED
      BY <2>1, <2>3, <2>4, <2>5
  <1>3. ASSUME restarts' = 0, NEW c \in Cond PROVE db'[c] = "ACTIVE" \/ Safe(c)'
    BY <1>3 DEF AloneInv
  <1>4. ASSUME restarts' = 0, NEW u \in Thread \ {t} PROVE Settles(u)'
    <2> SUFFICES ASSUME pc'[u] = "db" PROVE Safe(Id(cur[u]))'
      BY DEF Settles
    <2>1. pc[u] = "db" /\ cur'[u] = cur[u]
      BY DEF Untouched
    <2>2. PICK c \in Cond : c = Id(cur[u])
      BY <2>1, ThreadParts DEF AtHand
    <2>3. Safe(c)
      BY <1>4, <2>1, <2>2 DEF AloneInv, Settles
    <2>4. made[c] # 0
      <3>1. Real(cur[u]) /\ cur[u] \in Obj
        BY <2>1, ThreadParts DEF RealInv, Carries, AtHand
      <3>2. cur[u][2] \in Nat /\ cur[u][2] # 0 /\ cur[u][2] <= made[c]
        BY <2>2, <3>1 DEF Real, Obj
      <3>3. QED
        BY <3>2
    <2>5. Safe(c)'
      BY <2>3, <2>4
    <2>6. QED
      BY <2>1, <2>2, <2>5
  <1>5. QED
    BY <1>1, <1>2, <1>3, <1>4 DEF AloneInv

\* Steps that settle no row and insert nothing.
LEMMA AloneQuiet ==
  ASSUME OneAtATime, TypeOK, RealInv, AloneInv, NEW t \in Thread,
         \A u \in Thread \ {t} : Untouched(u),
         UNCHANGED <<db, mem, made, restarts>>,
         t = Monitor => MonitorWatches',
         pc'[t] \notin {"insert", "db"},
         \A c \in Cond : Doomed(t, c) => Doomed(t, c)'
  PROVE  AloneInv'
  <1>1. Inserts(t)' /\ Settles(t)'
    BY DEF Inserts, Settles
  <1>2. ASSUME NEW c \in Cond, NEW u \in Thread, Doomed(u, c)
        PROVE  Doomed(u, c)'
    BY <1>2 DEF Doomed, Untouched
  <1>3. \A c \in Cond : Safe(c) => Safe(c)'
    BY <1>2 DEF Safe
  <1>4. QED
    BY <1>1, <1>3, AloneStep

LEMMA AloneWrite ==
  ASSUME OneAtATime, TypeOK, RealInv, AloneInv, NEW t \in Thread, Write(t)
  PROVE  AloneInv'
  <1> USE ThreadParts DEF Goto, data, counts
  <1>0. t = Monitor => MonitorWatches
    BY DEF AloneInv
  <1>1. CASE MarkStatus(t)
    <2>1. /\ pc[t] = "mark" /\ pc'[t] = "db" /\ cur' = cur
          /\ mem' = [mem EXCEPT ![Id(cur[t])] = 0]
          /\ UNCHANGED <<db, made, ret, rest, restarts>>
          /\ \A u \in Thread \ {t} : Untouched(u)
      BY <1>1 DEF MarkStatus, Untouched
    <2>2. PICK d \in Cond : d = Id(cur[t])
      BY <2>1 DEF AtHand
    <2>3. mem'[d] = 0 /\ \A c \in Cond \ {d} : mem'[c] = mem[c]
      BY <2>1, <2>2
    <2>4. ASSUME NEW c \in Cond \ {d}, NEW u \in Thread, Doomed(u, c)
          PROVE  Doomed(u, c)'
      BY <2>1, <2>2, <2>4 DEF Doomed, Untouched
    <2>5. \A c \in Cond : Safe(c) => Safe(c)'
      BY <2>3, <2>4 DEF Safe
    <2>6. Settles(t)' /\ Inserts(t)'
      BY <2>1, <2>2, <2>3 DEF Settles, Inserts, Safe
    <2>7. t = Monitor => MonitorWatches'
      BY <1>0, <2>1 DEF MonitorWatches
    <2>8. QED
      BY <2>1, <2>5, <2>6, <2>7, AloneStep
  <1>2. CASE UpdateRow(t)
    <2>1. /\ pc[t] = "db" /\ pc'[t] = "hdel" /\ cur' = cur
          /\ db' = db \/ db' = [db EXCEPT ![Id(cur[t])] = st[t]]
          /\ UNCHANGED <<mem, made, ret, rest, restarts>>
          /\ \A u \in Thread \ {t} : Untouched(u)
      BY <1>2 DEF UpdateRow, Untouched
    <2>2. PICK d \in Cond : d = Id(cur[t])
      BY <2>1 DEF AtHand
    <2>3. \A c \in Cond \ {d} : db'[c] = db[c]
      BY <2>1, <2>2
    <2>4. made[d] # 0
      <3>1. Real(cur[t]) /\ cur[t] \in Obj
        BY <2>1 DEF RealInv, Carries, AtHand
      <3>2. cur[t][2] \in Nat /\ cur[t][2] # 0 /\ cur[t][2] <= made[d]
        BY <2>2, <3>1 DEF Real, Obj
      <3>3. QED
        BY <3>2
    <2>5. ASSUME NEW c \in Cond, NEW u \in Thread, Doomed(u, c)
          PROVE  Doomed(u, c)'
      BY <2>1, <2>5 DEF Doomed, Untouched
    <2>6. \A c \in Cond : Safe(c) => Safe(c)'
      BY <2>1, <2>5 DEF Safe
    <2>7. CASE restarts = 0
      <3>1. Safe(d)
        BY <2>1, <2>2, <2>7 DEF AloneInv, Settles
      <3>2. Inserts(t)' /\ Settles(t)' /\ (t = Monitor => MonitorWatches')
        BY <1>0, <2>1 DEF Inserts, Settles, MonitorWatches
      <3>3. QED
        BY <2>1, <2>3, <2>4, <2>6, <3>1, <3>2, AloneStep
    <2>8. CASE restarts # 0
      <3>1. MonitorWatches'
        BY <2>1 DEF AloneInv, MonitorWatches, Untouched, Thread
      <3>2. ASSUME NEW u \in Thread PROVE Inserts(u)'
        <4> SUFFICES ASSUME pc'[u] = "insert"
                     PROVE  /\ made'[Id(cur'[u])] = 0
                            /\ db'[Id(cur'[u])] = "ACTIVE"
          BY DEF Inserts
        <4>1. pc[u] = "insert"
          BY <2>1 DEF Untouched
        <4>2. PICK c \in Cond : c = Id(cur[u])
          BY <4>1 DEF AtHand
        <4>3. made[c] = 0 /\ db[c] = "ACTIVE"
          BY <4>1, <4>2 DEF AloneInv, Inserts
        <4>4. QED
          BY <2>1, <2>3, <2>4, <4>2, <4>3
      <3>3. QED
        BY <2>1, <2>8, <3>1, <3>2 DEF AloneInv
    <2>9. QED
      BY <2>7, <2>8
  <1>3. CASE RemoveFromRedis(t) \/ PutToRedis(t)
    <2>1. /\ pc[t] \in {"hdel", "put"} /\ pc'[t] = ret[t] /\ ret'[t] = "idle"
          /\ UNCHANGED <<db, mem, made, rest, restarts>>
          /\ \A u \in Thread \ {t} : Untouched(u)
      BY <1>3 DEF RemoveFromRedis, PutToRedis, Return, Untouched
    <2>2. t = Monitor => MonitorWatches'
      BY <1>0, <2>1 DEF MonitorWatches
    <2>3. \A c \in Cond : Doomed(t, c) => Doomed(t, c)'
      BY <2>1 DEF Doomed
    <2>4. pc'[t] \notin {"insert", "db"}
      BY <2>1
    <2>5. QED
      BY <2>1, <2>2, <2>3, <2>4, AloneQuiet
  <1>4. CASE CheckActive(t)
    <2>1. /\ pc[t] = "chk" /\ pc'[t] \in {"put", "hdel"} /\ ret' = ret
          /\ UNCHANGED <<db, mem, made, rest, restarts>>
          /\ \A u \in Thread \ {t} : Untouched(u)
      BY <1>4 DEF CheckActive, Untouched
    <2>2. t = Monitor => MonitorWatches'
      BY <1>0, <2>1 DEF MonitorWatches
    <2>3. \A c \in Cond : Doomed(t, c) => Doomed(t, c)'
      BY <2>1 DEF Doomed
    <2>4. QED
      BY <2>1, <2>2, <2>3, AloneQuiet
  <1>5. QED
    BY <1>1, <1>2, <1>3, <1>4 DEF Write

\* What is inserted has an ACTIVE row; what is loaded is to be cancelled.
LEMMA AloneAdd ==
  ASSUME OneAtATime, TypeOK, RealInv, AloneInv, NEW t \in Thread,
         InsertNew(t) \/ \E c \in Cond : LoadTarget(t, c)
  PROVE  AloneInv'
  <1> USE ThreadParts DEF Goto, data, counts
  <1>0. t # Monitor
    BY DEF AloneInv, MonitorWatches, InsertNew, LoadTarget
  <1>1. CASE InsertNew(t)
    <2>1. PICK d \in Cond : d = Id(cur[t])
      BY <1>1 DEF InsertNew, AtHand
    <2>2. /\ AddToMemory(d) /\ pc[t] = "insert" /\ pc'[t] = "chk"
          /\ UNCHANGED <<db, rest, restarts>>
          /\ \A u \in Thread \ {t} : Untouched(u)
      BY <1>1, <2>1 DEF InsertNew, Untouched
    <2>3. made[d] = 0 /\ db[d] = "ACTIVE"
      BY <2>1, <2>2 DEF AloneInv, Inserts
    <2>4. \A c \in Cond \ {d} : mem'[c] = mem[c]
      BY <2>2 DEF AddToMemory
    <2>5. ASSUME NEW c \in Cond, NEW u \in Thread, Doomed(u, c)
          PROVE  Doomed(u, c)'
      BY <2>2, <2>5 DEF Doomed, Untouched
    <2>6. \A c \in Cond \ {d} : Safe(c) => Safe(c)'
      BY <2>4, <2>5 DEF Safe
    <2>7. Inserts(t)' /\ Settles(t)'
      BY <2>2 DEF Inserts, Settles
    <2>8. QED
      BY <1>0, <2>2, <2>3, <2>6, <2>7, AloneStep
  <1>2. ASSUME NEW d \in Cond, LoadTarget(t, d) PROVE AloneInv'
    <2>1. /\ AddToMemory(d) /\ pc[t] = "load" /\ pc'[t] = "chk"
          /\ rest'[t] = rest[t] \cup {<<d, made[d] + 1>>}
          /\ UNCHANGED <<db, restarts>>
          /\ \A u \in Thread \ {t} : Untouched(u)
      BY <1>2 DEF LoadTarget, Untouched
    <2>2. \A c \in Cond \ {d} : mem'[c] = mem[c]
      BY <2>1 DEF AddToMemory
    <2>3. Doomed(t, d)'
      <3>1. PICK o : o = <<d, made[d] + 1>>
        OBVIOUS
      <3>2. o \in rest'[t] /\ Id(o) = d
        BY <2>1, <3>1 DEF Id
      <3>3. QED
        BY <3>2 DEF Doomed
    <2>4. ASSUME NEW c \in Cond, NEW u \in Thread, Doomed(u, c)
          PROVE  Doomed(u, c)'
      BY <2>1, <2>4 DEF Doomed, Untouched
    <2>5. \A c \in Cond : Safe(c) => Safe(c)'
      BY <2>2, <2>3, <2>4 DEF Safe
    <2>6. Inserts(t)' /\ Settles(t)'
      BY <2>1 DEF Inserts, Settles
    <2>7. QED
      BY <1>0, <2>1, <2>5, <2>6, AloneStep
  <1>3. QED
    BY <1>1, <1>2

LEMMA AloneProceed ==
  ASSUME OneAtATime, TypeOK, RealInv, CourseInv, DownInv, AloneInv,
         NEW t \in Thread, Proceed(t) \/ (t \in Caller /\ Request(t))
  PROVE  AloneInv'
  <1> USE ThreadParts DEF Goto, data, counts, Untouched
  <1>0. (t = Monitor => MonitorWatches) /\ Held(t)
    BY DEF AloneInv, DownInv
  <1>1. ASSUME NEW d \in Cond, CreateRow(t, d) PROVE AloneInv'
    <2>1. pc[t] = "create" /\ d \in work[t] /\ t # Monitor
      BY <1>0, <1>1 DEF CreateRow, MonitorWatches
    <2>2. db[d] = "none" /\ made[d] = 0
      BY <2>1 DEF CourseInv, Registering, Course, RealInv
    <2>3. /\ \/ pc'[t] = "insert" /\ Id(cur'[t]) = d /\ db'[d] = "ACTIVE"
             \/ pc'[t] = "idle" /\ db' = db
          /\ \A c \in Cond \ {d} : db'[c] = db[c]
          /\ UNCHANGED <<mem, made, rest, restarts>>
          /\ \A u \in Thread \ {t} : Untouched(u)
      BY <1>1, <2>1 DEF CreateRow, Registered, Id
    <2>4. ASSUME NEW c \in Cond, NEW u \in Thread, Doomed(u, c)
          PROVE  Doomed(u, c)'
      BY <2>1, <2>3, <2>4 DEF Doomed
    <2>5. \A c \in Cond : Safe(c) => Safe(c)'
      BY <2>3, <2>4 DEF Safe
    <2>6. Inserts(t)' /\ Settles(t)'
      BY <2>2, <2>3 DEF Inserts, Settles
    <2>7. QED
      BY <2>1, <2>2, <2>3, <2>5, <2>6, AloneStep
  <1>2. CASE CancelDone(t)
    <2>1. t = Monitor => MonitorWatches'
      BY <1>0, <1>2 DEF CancelDone, Home, MonitorWatches
    <2>2. \A c \in Cond : Doomed(t, c) => Doomed(t, c)'
      BY <1>2 DEF CancelDone, Doomed
    <2>3. QED
      BY <1>2, <2>1, <2>2, AloneQuiet DEF CancelDone, Home
  <1>3. ASSUME NEW o \in rest[t], CancelNext(t, o) PROVE AloneInv'
    <2>1. t = Monitor => MonitorWatches'
      BY <1>0, <1>3 DEF CancelNext, MonitorWatches
    <2>2. \A c \in Cond : Doomed(t, c) => Doomed(t, c)'
      BY <1>3 DEF CancelNext, Doomed
    <2>3. QED
      BY <1>3, <2>1, <2>2, AloneQuiet DEF CancelNext
  <1>4. CASE LookInRedis(t) \/ LookInDB(t) \/ ReadRows(t)
    <2>1. t = Monitor => MonitorWatches'
      BY <1>0, <1>4 DEF LookInRedis, LookInDB, ReadRows, MonitorWatches
    <2>2. \A c \in Cond : Doomed(t, c) => Doomed(t, c)'
      BY <1>4 DEF LookInRedis, LookInDB, ReadRows, Doomed
    <2>3. QED
      BY <1>4, <2>1, <2>2, AloneQuiet DEF LookInRedis, LookInDB, ReadRows
  <1>5. ASSUME NEW c \in Cond, RefillRedis(t, c) PROVE AloneInv'
    <2>1. t = Monitor => MonitorWatches'
      BY <1>0, <1>5 DEF RefillRedis, MonitorWatches
    <2>2. \A d \in Cond : Doomed(t, d) => Doomed(t, d)'
      BY <1>5 DEF RefillRedis, Doomed
    <2>3. QED
      BY <1>5, <2>1, <2>2, AloneQuiet DEF RefillRedis
  <1>6. CASE /\ t \in Caller
             /\ \/ StartList(t) \/ \E B \in Batch : StartRegister(t, B)
                \/ \E C \in Targets : StartCancel(t, C)
    <2>1. /\ t # Monitor /\ pc[t] = "idle" /\ rest[t] = {}
          /\ pc'[t] \in {"readdb", "create", "next", "lookredis"}
          /\ UNCHANGED <<db, mem, made, restarts>>
          /\ \A u \in Thread \ {t} : Untouched(u)
      BY <1>0, <1>6, ThreadAssumption
      DEF StartList, StartRegister, StartCancel, Called, Held
    <2>2. \A c \in Cond : ~Doomed(t, c)
      BY <2>1 DEF Doomed
    <2>3. QED
      BY <2>1, <2>2, AloneQuiet
  <1>7. QED
    BY <1>1, <1>2, <1>3, <1>4, <1>5, <1>6, AloneWrite, AloneAdd
    DEF Proceed, Request

LEMMA AloneTick ==
  ASSUME OneAtATime, TypeOK, RealInv, DownInv, AloneInv, Tick PROVE AloneInv'
  <1> USE ThreadParts DEF Goto, data, counts, Untouched
  <1>0. Monitor \in Thread /\ MonitorWatches /\ Held(Monitor)
    BY DEF Thread, AloneInv, DownInv
  <1>1. CASE \E C \in SUBSET Cond : TickStart(C)
    <2>1. MonitorWatches' /\ \A c \in Cond : Doomed(Monitor, c) => Doomed(Monitor, c)'
      BY <1>0, <1>1 DEF TickStart, MonitorWatches, Doomed
    <2>2. QED
      BY <1>0, <1>1, <2>1, AloneQuiet DEF TickStart
  <1>2. ASSUME NEW o \in todo, MoveExtremum(o) \/ Leave(o) PROVE AloneInv'
    <2>1. MonitorWatches' /\ \A c \in Cond : Doomed(Monitor, c) => Doomed(Monitor, c)'
      BY <1>0, <1>2 DEF MoveExtremum, Leave, Turn, MonitorWatches, Doomed
    <2>2. QED
      BY <1>0, <1>2, <2>1, AloneQuiet DEF MoveExtremum, Leave, Turn
  <1>3. ASSUME NEW o \in todo, TriggerFull(o) \/ TriggerClosed(o) PROVE AloneInv'
    <2>1. MonitorWatches' /\ \A c \in Cond : Doomed(Monitor, c) => Doomed(Monitor, c)'
      BY <1>0, <1>3
      DEF TriggerFull, TriggerClosed, Turn, Settle, MonitorWatches, Doomed
    <2>2. QED
      BY <1>0, <1>3, <2>1, AloneQuiet DEF TriggerFull, TriggerClosed, Turn, Settle
  <1>4. CASE CollectLinked
    <2>1. rest[Monitor] = {} /\ pc[Monitor] = "link"
      BY <1>0, <1>4 DEF CollectLinked, Held
    <2>2. MonitorWatches' /\ \A c \in Cond : ~Doomed(Monitor, c)
      BY <1>0, <1>4, <2>1 DEF CollectLinked, MonitorWatches, Doomed
    <2>3. QED
      BY <1>0, <1>4, <2>2, AloneQuiet DEF CollectLinked
  <1>5. \A o \in todo, p \in Pool : ~TriggerPartial(o, p)
    BY DEF OneAtATime
  <1>6. QED
    BY <1>1, <1>2, <1>3, <1>4, <1>5 DEF Tick

LEMMA AloneRestart == ASSUME TypeOK, Restart PROVE AloneInv'
  <1>1. PICK S : Boot(S)
    BY DEF Restart, RestartFromRedis, RestartFromDB, RestartEmpty
  <1>2. restarts' # 0
    BY <1>1 DEF Boot, TypeOK, CountOK
  <1>3. \A t \in Thread : pc'[t] = "idle" /\ ret'[t] = "idle"
    BY <1>1 DEF Boot
  <1>4. QED
    BY <1>2, <1>3 DEF AloneInv, MonitorWatches, Inserts, Thread

\* With one request at a time and no trailing stop for the monitor to register,
\* the list is, between calls, exactly the set of ACTIVE rows.  With two
\* handlers, or with the trailing stop of a partial take profit, it is not: a
\* cancellation that finds the new row in the table before addToMemory has run
\* leaves the cancelled condition in the list.
THEOREM StoresAgree == ASSUME OneAtATime PROVE Spec => []Agreement
  <1>1. Init => AloneInv
    BY DEF Init, AloneInv, MonitorWatches, Inserts, Settles, Safe, Thread
  <1>2. TypeOK /\ RealInv /\ CourseInv /\ DownInv /\ AloneInv /\ [Next]_vars
          => AloneInv'
    <2> SUFFICES ASSUME TypeOK, RealInv, CourseInv, DownInv, AloneInv,
                        [Next]_vars
                 PROVE  AloneInv'
      OBVIOUS
    <2>1. CASE Tick
      BY <2>1, AloneTick
    <2>2. CASE Restart
      BY <2>2, AloneRestart
    <2>3. ASSUME NEW t \in Thread, Proceed(t) PROVE AloneInv'
      BY <2>3, AloneProceed
    <2>4. ASSUME NEW t \in Caller, Request(t) PROVE AloneInv'
      BY <2>4, AloneProceed DEF Thread
    <2>5. CASE UNCHANGED vars
      BY <2>5
      DEF AloneInv, MonitorWatches, Inserts, Settles, Safe, Doomed, vars, data,
          locals, counts
    <2>6. QED
      BY <2>1, <2>2, <2>3, <2>4, <2>5 DEF Next
  <1>3. TypeOK /\ DownInv /\ AloneInv /\ ActiveEverywhere => Agreement
    <2> SUFFICES ASSUME TypeOK, DownInv, AloneInv, ActiveEverywhere,
                        Quiescent, Faultless
                 PROVE  /\ \A c \in Cond : (mem[c] # 0) <=> (c \in ActiveRows)
                        /\ ActiveRows \subseteq redis
      BY DEF Agreement, Faultless
    <2>1. \A t \in Thread : pc[t] = "idle" /\ rest[t] = {}
      BY DEF Quiescent, DownInv, Held
    <2>2. ASSUME NEW c \in Cond, mem[c] # 0 PROVE c \in ActiveRows
      BY <2>1, <2>2 DEF AloneInv, Faultless, Safe, Doomed, ActiveRows
    <2>3. QED
      BY <2>2 DEF ActiveEverywhere
  <1>4. QED
    BY <1>1, <1>2, <1>3, TypeCorrect, RealAlways, DownAlways, NoneForgotten, PTL
    DEF Spec

=============================================================================
