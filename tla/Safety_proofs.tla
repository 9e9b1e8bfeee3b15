----------------------------- MODULE Safety_proofs -----------------------------
(***************************************************************************)
(* The strategies that decide by themselves and what the server keeps for  *)
(* its browsers, for every value of their constants.  The components of    *)
(* MCSafety share no state, so each has an invariant of its own, shown to  *)
(* hold at its Init and to be kept by its own steps; the last part puts    *)
(* them together.                                                          *)
(*                                                                         *)
(* Rooms: a room in the table has not been closed, because the one timer   *)
(* that closes it takes it out first, and rooms are numbered as they are   *)
(* made.  Triggers: the time noted of an item is not older than the last   *)
(* trigger on it, and a loop about to act has seen the cool-down pass.     *)
(* Monitors: under one Start, the memory of a key is as young as the last  *)
(* alert sent under it.  Scalper: while nothing has failed there is one    *)
(* task, and what is held is what it believes.  Candle strategies: each    *)
(* side held was counted by the one start there was; the market upside     *)
(* down turns rises into falls, hence the RSI r into 100 - r, and each     *)
(* pattern into its opposite.  Liquidations: channels are used in the      *)
(* order they are made and all but the hub's are closed; an hour and its   *)
(* day are added to together, and the days are cut at the day of the       *)
(* hours' cut-off, so that no hour outlives its day.  News: cutting a list *)
(* before it is merged gives what the whole list would.                    *)
(***************************************************************************)
EXTENDS MCSafety, SumFacts

-----------------------------------------------------------------------------
(***************************************************************************)
(* The rooms of the price proxy.                                           *)
(***************************************************************************)
\* Rooms are numbered as they are made; the table holds a room under its own
\* symbol only.
RoomsNumbered ==
  /\ \E k \in Nat : Rooms!Created = 1 .. k
  /\ room_topic \in [Rooms!Created -> Pair]
  /\ \A s \in Pair : room_table[s] # Rooms!None => room_topic[room_table[s]] = s

\* A room a timer is about to close is out of the table and still open, and no
\* other timer closes it; a room whose channel is closed is out of the table.
ClosedOnce ==
  /\ \A t \in Rooms!Timer : room_timer[t].step # "none" => room_timer[t].room \in Rooms!Created
  /\ \A t \in Rooms!Timer : room_timer[t].step = "close" =>
       /\ room_closes[room_timer[t].room] = 0
       /\ \A s \in Pair : room_table[s] # room_timer[t].room
       /\ \A u \in Rooms!Timer :
            room_timer[u].step = "close" /\ room_timer[u].room = room_timer[t].room => u = t
  /\ \A r \in Rooms!Room : room_closes[r] > 0 =>
       r \in Rooms!Created /\ \A s \in Pair : room_table[s] # r

\* A room with clients runs, a room that runs has a stream, and only a closed
\* channel ends it.
StreamsRun ==
  /\ \A r \in Rooms!Room : /\ room_clients[r] # {} => room_running[r]
                           /\ room_running[r] => room_stream[r] # "none"
                           /\ room_stream[r] = "gone" => room_closes[r] > 0
  /\ \A c \in Tab : /\ room_pc[c] = "lookup" => room_cur[c] \in Pair
                    /\ room_pc[c] = "join" => room_held[c] \in Rooms!Created

RoomInv == Rooms!TypeOK /\ RoomsNumbered /\ ClosedOnce /\ StreamsRun

LEMMA RoomStart == Rooms!Init => RoomInv
  <1> SUFFICES ASSUME Rooms!Init PROVE RoomInv
    OBVIOUS
  <1> DEFINE e == <<>>
  <1>1. DOMAIN e = {} /\ e \in [{} -> Pair]
    OBVIOUS
  <1>2. room_topic = e /\ Rooms!Created = {}
    BY <1>1 DEF Rooms!Init, Rooms!Created
  <1> HIDE DEF e
  <1>3. Rooms!TypeOK
    BY <1>2 DEF Rooms!Init, Rooms!TypeOK, Rooms!NoTimer
  <1>4. RoomsNumbered
    <2>1. 0 \in Nat /\ 1 .. 0 = {}
      OBVIOUS
    <2>2. QED
      BY <1>1, <1>2, <2>1 DEF RoomsNumbered, Rooms!Init
  <1>5. ClosedOnce /\ StreamsRun
    BY DEF Rooms!Init, ClosedOnce, StreamsRun, Rooms!NoTimer
  <1>6. QED
    BY <1>3, <1>4, <1>5 DEF RoomInv

LEMMA RoomsCardinality == \A S : Rooms!Cardinality(S) = Cardinality(S)
  BY DEF Rooms!Cardinality, Cardinality

\* The number of the next room is no room's yet.
LEMMA NextRoom ==
  ASSUME RoomsNumbered
  PROVE  LET n == Rooms!Cardinality(Rooms!Created) + 1
         IN  /\ n \notin Rooms!Created /\ n # Rooms!None
             /\ \E k \in Nat : Rooms!Created \cup {n} = 1 .. k
  <1>1. PICK k \in Nat : Rooms!Created = 1 .. k
    BY DEF RoomsNumbered
  <1>2. Rooms!Cardinality(Rooms!Created) = k
    BY <1>1, RoomsCardinality, FS_Interval
  <1>3. k + 1 \notin 1 .. k /\ k + 1 # 0 /\ (1 .. k) \cup {k + 1} = 1 .. (k + 1)
    OBVIOUS
  <1>4. QED
    BY <1>1, <1>2, <1>3 DEF Rooms!None

\* What a client that leaves its symbol does: at most a timer is started.
LEMMA RoomLeft ==
  ASSUME RoomInv, NEW c \in Tab, NEW s \in Pair, Rooms!Unsubscribe(c, s)
  PROVE  /\ room_clients' \in [Rooms!Room -> SUBSET Tab]
         /\ \A r \in Rooms!Room : room_clients'[r] \subseteq room_clients[r]
         /\ room_timer' \in [Rooms!Timer -> [room: Rooms!Created \cup {Rooms!None},
                                             step: {"none", "sleep", "stop", "close"}]]
         /\ \A t \in Rooms!Timer :
              \/ room_timer'[t] = room_timer[t]
              \/ room_timer'[t].step = "sleep" /\ room_timer'[t].room \in Rooms!Created
  <1> USE DEF RoomInv
  <1>1. CASE room_table[s] = Rooms!None
    BY <1>1 DEF Rooms!Unsubscribe, Rooms!TypeOK
  <1>2. CASE room_table[s] # Rooms!None
    <2> DEFINE r == room_table[s]
    <2>1. r \in Rooms!Created /\ r \in Rooms!Room
      BY <1>2 DEF Rooms!TypeOK
    <2>2. room_clients' = [room_clients EXCEPT ![r] = @ \ {c}]
      BY <1>2 DEF Rooms!Unsubscribe
    <2>3. \/ UNCHANGED room_timer
          \/ \E t \in Rooms!Timer :
               room_timer' = [room_timer EXCEPT ![t] = [room |-> r, step |-> "sleep"]]
      BY <1>2 DEF Rooms!Unsubscribe
    <2>4. /\ room_clients' \in [Rooms!Room -> SUBSET Tab]
          /\ \A q \in Rooms!Room : room_clients'[q] \subseteq room_clients[q]
      BY <2>1, <2>2 DEF Rooms!TypeOK
    <2> HIDE DEF r
    <2>5. CASE UNCHANGED room_timer
      BY <2>4, <2>5 DEF Rooms!TypeOK
    <2>6. ASSUME NEW t \in Rooms!Timer,
                 room_timer' = [room_timer EXCEPT ![t] = [room |-> r, step |-> "sleep"]]
          PROVE  /\ room_timer' \in [Rooms!Timer -> [room: Rooms!Created \cup {Rooms!None},
                                             step: {"none", "sleep", "stop", "close"}]]
                 /\ \A u \in Rooms!Timer :
                      \/ room_timer'[u] = room_timer[u]
                      \/ room_timer'[u].step = "sleep" /\ room_timer'[u].room \in Rooms!Created
      BY <2>1, <2>6 DEF Rooms!TypeOK
    <2>7. QED
      BY <2>3, <2>4, <2>5, <2>6
  <1>3. QED
    BY <1>1, <1>2

\* A client asks or leaves: timers sleep, rooms lose a client at most.
LEMMA RoomClientMoves ==
  ASSUME RoomInv,
         UNCHANGED <<room_table, room_topic, room_running, room_closes, room_stream, room_held>>,
         room_clients' \in [Rooms!Room -> SUBSET Tab],
         \A r \in Rooms!Room : room_clients'[r] \subseteq room_clients[r],
         room_timer' \in [Rooms!Timer -> [room: Rooms!Created \cup {Rooms!None},
                                          step: {"none", "sleep", "stop", "close"}]],
         \A t \in Rooms!Timer :
           \/ room_timer'[t] = room_timer[t]
           \/ room_timer'[t].step = "sleep" /\ room_timer'[t].room \in Rooms!Created,
         room_pc' \in [Tab -> {"out", "idle", "lookup", "join"}],
         room_cur' \in [Tab -> Pair \cup {Rooms!None}],
         \A c \in Tab : /\ room_pc'[c] = "lookup" => room_cur'[c] \in Pair
                        /\ room_pc'[c] = "join" => room_pc[c] = "join"
  PROVE  RoomInv'
  <1> USE DEF RoomInv
  <1>1. Rooms!Created' = Rooms!Created
    BY DEF Rooms!Created
  <1>2. Rooms!TypeOK'
    BY <1>1 DEF Rooms!TypeOK
  <1>3. RoomsNumbered'
    BY <1>1 DEF RoomsNumbered
  <1>4. ClosedOnce'
    BY <1>1 DEF ClosedOnce
  <1>5. StreamsRun'
    BY <1>1 DEF StreamsRun
  <1>6. QED
    BY <1>2, <1>3, <1>4, <1>5

LEMMA RoomAskKeeps ==
  ASSUME RoomInv, NEW c \in Tab, NEW s \in Pair, Rooms!AskFor(c, s) PROVE RoomInv'
  <1> USE DEF RoomInv
  <1>1. /\ room_pc' = [room_pc EXCEPT ![c] = "lookup"]
        /\ room_cur' = [room_cur EXCEPT ![c] = s]
        /\ UNCHANGED <<room_table, room_topic, room_running, room_closes, room_stream,
                       room_held>>
    BY DEF Rooms!AskFor
  <1>2. /\ room_pc' \in [Tab -> {"out", "idle", "lookup", "join"}]
        /\ room_cur' \in [Tab -> Pair \cup {Rooms!None}]
    BY <1>1 DEF Rooms!TypeOK
  <1>3. \A k \in Tab : /\ room_pc'[k] = "lookup" => room_cur'[k] \in Pair
                       /\ room_pc'[k] = "join" => room_pc[k] = "join"
    BY <1>1 DEF Rooms!TypeOK, StreamsRun
  <1>4. CASE room_cur[c] = Rooms!None
    <2>1. UNCHANGED <<room_clients, room_timer>>
      BY <1>4 DEF Rooms!AskFor
    <2>2. QED
      BY <1>1, <1>2, <1>3, <2>1, RoomClientMoves DEF Rooms!TypeOK
  <1>5. CASE room_cur[c] # Rooms!None
    <2>1. room_cur[c] \in Pair /\ Rooms!Unsubscribe(c, room_cur[c])
      BY <1>5 DEF Rooms!AskFor, Rooms!TypeOK
    <2>2. QED
      BY <1>1, <1>2, <1>3, <2>1, RoomLeft, RoomClientMoves
  <1>6. QED
    BY <1>4, <1>5

LEMMA RoomLeaveKeeps ==
  ASSUME RoomInv, NEW c \in Tab, Rooms!Leave(c) PROVE RoomInv'
  <1> USE DEF RoomInv
  <1>1. /\ room_pc[c] = "idle"
        /\ room_pc' = room_pc \/ room_pc' = [room_pc EXCEPT ![c] = "out"]
        /\ room_cur' = [room_cur EXCEPT ![c] = Rooms!None]
        /\ UNCHANGED <<room_table, room_topic, room_running, room_closes, room_stream,
                       room_held>>
    BY DEF Rooms!Leave
  <1>2. /\ room_pc' \in [Tab -> {"out", "idle", "lookup", "join"}]
        /\ room_cur' \in [Tab -> Pair \cup {Rooms!None}]
    BY <1>1 DEF Rooms!TypeOK
  <1>3. \A k \in Tab : /\ room_pc'[k] = "lookup" => room_cur'[k] \in Pair
                       /\ room_pc'[k] = "join" => room_pc[k] = "join"
    BY <1>1 DEF Rooms!TypeOK, StreamsRun
  <1>4. CASE room_cur[c] = Rooms!None
    <2>1. UNCHANGED <<room_clients, room_timer>>
      BY <1>4 DEF Rooms!Leave
    <2>2. QED
      BY <1>1, <1>2, <1>3, <2>1, RoomClientMoves DEF Rooms!TypeOK
  <1>5. CASE room_cur[c] # Rooms!None
    <2>1. room_cur[c] \in Pair /\ Rooms!Unsubscribe(c, room_cur[c])
      BY <1>5 DEF Rooms!Leave, Rooms!TypeOK
    <2>2. QED
      BY <1>1, <1>2, <1>3, <2>1, RoomLeft, RoomClientMoves
  <1>6. QED
    BY <1>4, <1>5

LEMMA RoomLookupKeeps ==
  ASSUME RoomInv, NEW c \in Tab, Rooms!Lookup(c) PROVE RoomInv'
  <1> USE DEF RoomInv
  <1> DEFINE s == room_cur[c]
  <1>1. /\ s \in Pair /\ Rooms!GetOrCreateRoom(c, s)
        /\ room_pc' = [room_pc EXCEPT ![c] = "join"]
        /\ UNCHANGED <<room_clients, room_running, room_closes, room_stream, room_cur,
                       room_timer>>
    BY DEF Rooms!Lookup, StreamsRun
  <1>2. room_pc' \in [Tab -> {"out", "idle", "lookup", "join"}]
    BY <1>1 DEF Rooms!TypeOK
  <1> HIDE DEF s
  <1>3. CASE room_table[s] # Rooms!None
    <2>1. room_held' = [room_held EXCEPT ![c] = room_table[s]] /\ UNCHANGED <<room_table, room_topic>>
      BY <1>1, <1>3 DEF Rooms!GetOrCreateRoom
    <2>2. Rooms!Created' = Rooms!Created /\ room_table[s] \in Rooms!Created
      BY <1>1, <1>3, <2>1 DEF Rooms!Created, Rooms!TypeOK
    <2>3. Rooms!TypeOK'
      BY <1>1, <1>2, <2>1, <2>2 DEF Rooms!TypeOK
    <2>4. RoomsNumbered' /\ ClosedOnce'
      BY <1>1, <2>1, <2>2 DEF RoomsNumbered, ClosedOnce
    <2>5. StreamsRun'
      BY <1>1, <2>1, <2>2 DEF StreamsRun, Rooms!TypeOK
    <2>6. QED
      BY <2>3, <2>4, <2>5
  <1>4. CASE room_table[s] = Rooms!None
    <2> DEFINE n == Rooms!Cardinality(Rooms!Created) + 1
    <2>1. /\ n \in Rooms!Room
          /\ room_table' = [room_table EXCEPT ![s] = n]
          /\ room_topic' = [x \in Rooms!Created \cup {n} |-> IF x = n THEN s ELSE room_topic[x]]
          /\ room_held' = [room_held EXCEPT ![c] = n]
      BY <1>1, <1>4 DEF Rooms!GetOrCreateRoom
    <2>2. n \notin Rooms!Created /\ n # Rooms!None /\ \E k \in Nat : Rooms!Created \cup {n} = 1 .. k
      BY NextRoom
    <2> HIDE DEF n
    <2>3. Rooms!Created' = Rooms!Created \cup {n}
      BY <2>1 DEF Rooms!Created
    <2>4. Rooms!TypeOK'
      <3>1. /\ room_table' \in [Pair -> Rooms!Created' \cup {Rooms!None}]
            /\ room_held' \in [Tab -> Rooms!Created' \cup {Rooms!None}]
            /\ Rooms!Created' \subseteq Rooms!Room
        BY <1>1, <2>1, <2>3 DEF Rooms!TypeOK
      <3>2. room_timer' \in [Rooms!Timer -> [room: Rooms!Created' \cup {Rooms!None},
                                             step: {"none", "sleep", "stop", "close"}]]
        BY <1>1, <2>3 DEF Rooms!TypeOK
      <3>3. QED
        BY <1>1, <1>2, <3>1, <3>2 DEF Rooms!TypeOK
    <2>5. RoomsNumbered'
      <3>1. room_topic' \in [Rooms!Created' -> Pair]
        BY <1>1, <2>1, <2>3 DEF RoomsNumbered
      <3>2. ASSUME NEW q \in Pair, room_table'[q] # Rooms!None
            PROVE  room_topic'[room_table'[q]] = q
        <4>1. CASE q = s
          BY <2>1, <4>1 DEF Rooms!TypeOK
        <4>2. CASE q # s
          <5>1. room_table'[q] = room_table[q] /\ room_table[q] \in Rooms!Created
            BY <2>1, <3>2, <4>2 DEF Rooms!TypeOK
          <5>2. QED
            BY <2>1, <2>2, <3>2, <5>1 DEF RoomsNumbered
        <4>3. QED
          BY <4>1, <4>2
      <3>3. QED
        BY <2>2, <2>3, <3>1, <3>2 DEF RoomsNumbered
    <2>6. \A q \in Pair : room_table'[q] = room_table[q] \/ room_table'[q] = n
      BY <2>1 DEF Rooms!TypeOK
    <2>7. ClosedOnce'
      BY <1>1, <2>2, <2>3, <2>6 DEF ClosedOnce
    <2>8. StreamsRun'
      BY <1>1, <2>1, <2>3 DEF StreamsRun, Rooms!TypeOK
    <2>9. QED
      BY <2>4, <2>5, <2>7, <2>8
  <1>5. QED
    BY <1>3, <1>4

LEMMA RoomJoinKeeps ==
  ASSUME RoomInv, NEW c \in Tab, Rooms!Join(c) PROVE RoomInv'
  <1> USE DEF RoomInv
  <1> DEFINE r == room_held[c]
  <1>1. /\ r \in Rooms!Created /\ r \in Rooms!Room
        /\ room_clients' = [room_clients EXCEPT ![r] = @ \cup {c}]
        /\ room_running' = [room_running EXCEPT ![r] = TRUE]
        /\ room_stream' = IF room_running[r] THEN room_stream
                          ELSE [room_stream EXCEPT ![r] = "head"]
        /\ room_pc' = [room_pc EXCEPT ![c] = "idle"]
        /\ room_held' = [room_held EXCEPT ![c] = Rooms!None]
        /\ UNCHANGED <<room_table, room_topic, room_closes, room_cur, room_timer>>
    BY DEF Rooms!Join, StreamsRun, Rooms!TypeOK
  <1>2. Rooms!Created' = Rooms!Created
    BY <1>1 DEF Rooms!Created
  <1> HIDE DEF r
  <1>3. Rooms!TypeOK'
    BY <1>1, <1>2 DEF Rooms!TypeOK
  <1>4. RoomsNumbered' /\ ClosedOnce'
    BY <1>1, <1>2 DEF RoomsNumbered, ClosedOnce
  <1>5. StreamsRun'
    <2>1. ASSUME NEW q \in Rooms!Room
          PROVE  /\ room_clients'[q] # {} => room_running'[q]
                 /\ room_running'[q] => room_stream'[q] # "none"
                 /\ room_stream'[q] = "gone" => room_closes'[q] > 0
      BY <1>1 DEF StreamsRun, Rooms!TypeOK
    <2>2. \A k \in Tab : /\ room_pc'[k] = "lookup" => room_cur'[k] \in Pair
                         /\ room_pc'[k] = "join" => room_held'[k] \in Rooms!Created'
      BY <1>1, <1>2 DEF StreamsRun, Rooms!TypeOK
    <2>3. QED
      BY <2>1, <2>2 DEF StreamsRun
  <1>6. QED
    BY <1>3, <1>4, <1>5

\* A timer wakes: it looks at its room, and goes on or ends.
LEMMA RoomWakeKeeps ==
  ASSUME RoomInv, NEW t \in Rooms!Timer, Rooms!TimerWakes(t) PROVE RoomInv'
  <1> USE DEF RoomInv
  <1> DEFINE old == room_timer[t]
             new == IF room_clients[old.room] = {} THEN [old EXCEPT !.step = "stop"]
                    ELSE Rooms!NoTimer
  <1>1. /\ old.step = "sleep" /\ room_timer' = [room_timer EXCEPT ![t] = new]
        /\ UNCHANGED <<room_table, room_topic, room_clients, room_running, room_closes,
                       room_stream, room_pc, room_cur, room_held>>
    BY DEF Rooms!TimerWakes, Rooms!roomVars, Rooms!clientVars
  <1>2. old \in [room: Rooms!Created \cup {Rooms!None}, step: {"none", "sleep", "stop", "close"}]
    BY DEF Rooms!TypeOK
  <1>3. /\ new \in [room: Rooms!Created \cup {Rooms!None}, step: {"none", "sleep", "stop", "close"}]
        /\ new.step # "close" /\ (new.step # "none" => new.room = old.room)
    BY <1>2 DEF Rooms!NoTimer
  <1> HIDE DEF new
  <1>4. Rooms!Created' = Rooms!Created
    BY <1>1 DEF Rooms!Created
  <1>5. Rooms!TypeOK'
    BY <1>1, <1>3, <1>4 DEF Rooms!TypeOK
  <1>6. RoomsNumbered' /\ StreamsRun'
    BY <1>1, <1>4 DEF RoomsNumbered, StreamsRun
  <1>7. ClosedOnce'
    <2>1. \A u \in Rooms!Timer : u # t => room_timer'[u] = room_timer[u]
      BY <1>1 DEF Rooms!TypeOK
    <2>2. room_timer'[t] = new /\ old.room \in Rooms!Created
      BY <1>1 DEF Rooms!TypeOK, ClosedOnce
    <2>3. QED
      BY <1>1, <1>3, <1>4, <2>1, <2>2 DEF ClosedOnce
  <1>8. QED
    BY <1>5, <1>6, <1>7

\* stopRoom takes whatever room the symbol has now: no other timer can have
\* taken that one.
LEMMA RoomRemoveKeeps ==
  ASSUME RoomInv, NEW t \in Rooms!Timer, Rooms!Remove(t) PROVE RoomInv'
  <1> USE DEF RoomInv
  <1> DEFINE s == room_topic[room_timer[t].room]
             r == room_table[s]
             new == IF r = Rooms!None THEN Rooms!NoTimer ELSE [room |-> r, step |-> "close"]
  <1>1. /\ room_timer[t].step = "stop"
        /\ room_table' = [room_table EXCEPT ![s] = Rooms!None]
        /\ room_timer' = [room_timer EXCEPT ![t] = new]
        /\ UNCHANGED <<room_topic, room_clients, room_running, room_closes, room_stream,
                       room_pc, room_cur, room_held>>
    BY DEF Rooms!Remove, Rooms!clientVars
  <1>2. s \in Pair /\ r \in Rooms!Created \cup {Rooms!None}
    BY <1>1 DEF ClosedOnce, RoomsNumbered, Rooms!TypeOK
  <1>3. /\ new \in [room: Rooms!Created \cup {Rooms!None}, step: {"none", "sleep", "stop", "close"}]
        /\ new.step # "none" => new.step = "close" /\ new.room = r /\ r # Rooms!None
        /\ new.step = "close" => new.step # "none"
    BY <1>2 DEF Rooms!NoTimer
  <1>4. r # Rooms!None => r \in Rooms!Created /\ r \in Rooms!Room /\ room_closes[r] = 0
    <2>1. r # Rooms!None => room_closes[r] \in 0 .. 1 /\ ~(room_closes[r] > 0)
      BY <1>2 DEF ClosedOnce, Rooms!TypeOK
    <2>2. QED
      BY <1>2, <2>1 DEF Rooms!TypeOK
  <1>5. r # Rooms!None => \A q \in Pair : room_table[q] = r => q = s
    BY <1>2 DEF RoomsNumbered
  <1> HIDE DEF new
  <1>6. Rooms!Created' = Rooms!Created
    BY <1>1 DEF Rooms!Created
  <1>7. /\ \A u \in Rooms!Timer : u # t => room_timer'[u] = room_timer[u]
        /\ room_timer'[t] = new
        /\ \A q \in Pair : q # s => room_table'[q] = room_table[q]
        /\ room_table'[s] = Rooms!None
    BY <1>1, <1>2 DEF Rooms!TypeOK
  <1>8. Rooms!TypeOK'
    BY <1>1, <1>3, <1>6 DEF Rooms!TypeOK
  <1>9. RoomsNumbered'
    BY <1>1, <1>6, <1>7 DEF RoomsNumbered
  <1>10. StreamsRun'
    BY <1>1, <1>6 DEF StreamsRun
  <1>11. Rooms!None \notin Rooms!Created
    BY DEF Rooms!TypeOK, Rooms!Room, Rooms!None
  <1>12. ClosedOnce'
    <2>1. \A u \in Rooms!Timer : room_timer'[u].step # "none" => room_timer'[u].room \in Rooms!Created
      BY <1>3, <1>4, <1>7 DEF ClosedOnce
    <2>2. ASSUME NEW u \in Rooms!Timer, room_timer'[u].step = "close"
          PROVE  /\ room_closes[room_timer'[u].room] = 0
                 /\ \A q \in Pair : room_table'[q] # room_timer'[u].room
                 /\ \A w \in Rooms!Timer : room_timer'[w].step = "close"
                      /\ room_timer'[w].room = room_timer'[u].room => w = u
      <3>1. CASE u = t
        <4>1. room_timer'[u].room = r /\ r # Rooms!None
          BY <1>3, <1>7, <2>2, <3>1
        <4>2. \A q \in Pair : room_table'[q] # r
          BY <1>5, <1>7, <4>1
        <4>3. \A w \in Rooms!Timer : w # t /\ room_timer[w].step = "close"
                => room_timer[w].room # r
          BY <1>2 DEF ClosedOnce
        <4>4. QED
          BY <1>4, <1>7, <3>1, <4>1, <4>2, <4>3
      <3>2. CASE u # t
        <4>1. room_timer'[u] = room_timer[u] /\ room_timer[u].step = "close"
              /\ room_timer[u].room \in Rooms!Created
          BY <1>7, <2>2, <3>2 DEF ClosedOnce
        <4>2. \A q \in Pair : room_table'[q] # room_timer[u].room
          BY <1>7, <1>11, <4>1 DEF ClosedOnce
        <4>3. room_timer[u].room # r
          BY <1>2, <4>1 DEF ClosedOnce
        <4>4. QED
          BY <1>3, <1>7, <4>1, <4>2, <4>3 DEF ClosedOnce
      <3>3. QED
        BY <3>1, <3>2
    <2>3. \A q \in Rooms!Room : room_closes[q] > 0 =>
            q \in Rooms!Created /\ \A p \in Pair : room_table'[p] # q
      BY <1>7, <1>11 DEF ClosedOnce
    <2>4. QED
      BY <1>1, <1>6, <2>1, <2>2, <2>3 DEF ClosedOnce
  <1>13. QED
    BY <1>8, <1>9, <1>10, <1>12

LEMMA RoomCloseKeeps ==
  ASSUME RoomInv, NEW t \in Rooms!Timer, Rooms!CloseRoom(t) PROVE RoomInv'
  <1> USE DEF RoomInv
  <1> DEFINE r == room_timer[t].room
             n == IF room_running[r] THEN room_closes[r] + 1 ELSE room_closes[r]
  <1>1. /\ room_timer[t].step = "close"
        /\ room_closes' = [room_closes EXCEPT ![r] = n]
        /\ room_timer' = [room_timer EXCEPT ![t] = Rooms!NoTimer]
        /\ UNCHANGED <<room_table, room_topic, room_clients, room_running, room_stream,
                       room_pc, room_cur, room_held>>
    BY DEF Rooms!CloseRoom, Rooms!clientVars
  <1>2. /\ r \in Rooms!Created /\ r \in Rooms!Room /\ room_closes[r] = 0
        /\ \A s \in Pair : room_table[s] # r
        /\ \A u \in Rooms!Timer : u # t /\ room_timer[u].step = "close" => room_timer[u].room # r
    BY <1>1 DEF ClosedOnce, Rooms!TypeOK
  <1>3. n \in 0 .. 1
    BY <1>2
  <1> HIDE DEF n
  <1>4. Rooms!Created' = Rooms!Created
    BY <1>1 DEF Rooms!Created
  <1>5. /\ \A u \in Rooms!Timer : u # t => room_timer'[u] = room_timer[u]
        /\ room_timer'[t] = Rooms!NoTimer
        /\ \A q \in Rooms!Room : q # r => room_closes'[q] = room_closes[q]
    BY <1>1 DEF Rooms!TypeOK
  <1>6. Rooms!TypeOK'
    BY <1>1, <1>3, <1>4 DEF Rooms!TypeOK, Rooms!NoTimer
  <1>7. RoomsNumbered'
    BY <1>1, <1>4 DEF RoomsNumbered
  <1>8. ClosedOnce'
    <2>1. Rooms!NoTimer.step = "none"
      BY DEF Rooms!NoTimer
    <2>2. \A u \in Rooms!Timer : room_timer'[u].step # "none" => room_timer'[u].room \in Rooms!Created
      BY <1>5, <2>1 DEF ClosedOnce
    <2>3. \A u \in Rooms!Timer : room_timer'[u].step = "close" =>
            u # t /\ room_timer[u].step = "close" /\ room_timer'[u] = room_timer[u]
            /\ room_timer[u].room \in Rooms!Room /\ room_timer[u].room # r
      BY <1>2, <1>5, <2>1 DEF ClosedOnce, Rooms!TypeOK
    <2>4. \A q \in Rooms!Room : room_closes'[q] > 0 =>
            q \in Rooms!Created /\ \A p \in Pair : room_table[p] # q
      BY <1>2, <1>5 DEF ClosedOnce
    <2>5. QED
      BY <1>1, <1>4, <1>5, <2>2, <2>3, <2>4 DEF ClosedOnce
  <1>9. StreamsRun'
    <2>1. \A q \in Rooms!Room : room_closes[q] > 0 => room_closes'[q] > 0
      BY <1>2, <1>5
    <2>2. QED
      BY <1>1, <1>4, <2>1 DEF StreamsRun
  <1>10. QED
    BY <1>6, <1>7, <1>8, <1>9

LEMMA RoomStreamKeeps ==
  ASSUME RoomInv, NEW r \in Rooms!Created, Rooms!Stream(r) PROVE RoomInv'
  <1> USE DEF RoomInv
  <1>1. PICK to \in {"head", "open", "wait", "gone"} :
          /\ room_stream' = [room_stream EXCEPT ![r] = to]
          /\ to = "gone" => room_closes[r] > 0
    BY DEF Rooms!Stream, Rooms!StreamEnds, Rooms!StreamConnects, Rooms!StreamBreaks,
      Rooms!StreamRetries, Rooms!Streams
  <1>2. UNCHANGED <<room_table, room_topic, room_clients, room_running, room_closes,
                    room_pc, room_cur, room_held, room_timer>>
    BY DEF Rooms!Stream, Rooms!StreamEnds, Rooms!StreamConnects, Rooms!StreamBreaks,
      Rooms!StreamRetries, Rooms!clientVars
  <1>3. Rooms!Created' = Rooms!Created
    BY <1>2 DEF Rooms!Created
  <1>4. Rooms!TypeOK'
    BY <1>1, <1>2, <1>3 DEF Rooms!TypeOK
  <1>5. RoomsNumbered' /\ ClosedOnce'
    BY <1>2, <1>3 DEF RoomsNumbered, ClosedOnce
  <1>6. StreamsRun'
    BY <1>1, <1>2, <1>3 DEF StreamsRun, Rooms!TypeOK
  <1>7. QED
    BY <1>4, <1>5, <1>6

\* Every step keeps the invariant of the rooms.
LEMMA RoomKeeps == RoomInv /\ [Rooms!Next]_roomVars => RoomInv'
  <1> SUFFICES ASSUME RoomInv, [Rooms!Next]_roomVars PROVE RoomInv'
    OBVIOUS
  <1>1. ASSUME UNCHANGED roomVars PROVE RoomInv'
    BY <1>1 DEF roomVars, RoomInv, Rooms!TypeOK, RoomsNumbered, ClosedOnce, StreamsRun,
      Rooms!Created
  <1>2. QED
    BY <1>1, RoomAskKeeps, RoomLookupKeeps, RoomJoinKeeps, RoomLeaveKeeps, RoomWakeKeeps,
      RoomRemoveKeeps, RoomCloseKeeps, RoomStreamKeeps
    DEF Rooms!Next

LEMMA RoomShows == RoomInv => Rooms!TableServes
  <1> SUFFICES ASSUME RoomInv PROVE Rooms!TableServes
    OBVIOUS
  <1>1. ASSUME NEW s \in Pair, room_table[s] # Rooms!None
        PROVE  /\ room_closes[room_table[s]] = 0 /\ room_stream[room_table[s]] # "gone"
               /\ room_clients[room_table[s]] # {} =>
                    room_running[room_table[s]] /\ room_stream[room_table[s]] # "none"
    <2>1. room_table[s] \in Rooms!Room /\ room_closes[room_table[s]] \in 0 .. 1
      BY <1>1 DEF RoomInv, Rooms!TypeOK
    <2>2. ~(room_closes[room_table[s]] > 0)
      BY <2>1 DEF RoomInv, ClosedOnce
    <2>3. QED
      BY <2>1, <2>2 DEF RoomInv, StreamsRun
  <1>2. \A r \in Rooms!Room : room_closes[r] <= 1
    BY DEF RoomInv, Rooms!TypeOK
  <1>3. QED
    BY <1>1, <1>2 DEF Rooms!TableServes

-----------------------------------------------------------------------------
(***************************************************************************)
(* The strategies that wait for an event.                                  *)
(***************************************************************************)
TrigTimes == {Trig!Never} \cup 0 .. trig_now

TriggerRecord == [by: Trig!Start, item: Cause, at: Nat]

TrigShape ==
  /\ trig_strat \in {"news", "liq", "funding", "link"} /\ trig_given \subseteq Cause
  /\ trig_cur \in 0 .. MaxStart /\ trig_now \in 0 .. MaxTime
  /\ trig_loop \in [Trig!Start -> {"none", "wait", "act", "fire", "ended"}]
  /\ trig_last \in TrigTimes /\ trig_map \in [Cause -> TrigTimes]
  /\ trig_todo \in [Trig!Start -> SUBSET Cause]
  /\ trig_view \in [Trig!Start -> [Cause -> Int]]
  /\ trig_hand \in [Trig!Start -> SUBSET Cause]
  /\ trig_there \subseteq Cause /\ trig_bursts \subseteq 0 .. trig_now
  /\ trig_trig \in Seq(TriggerRecord)
  /\ \A i \in Trig!Start : trig_loop[i] # "none" => i <= trig_cur

\* What was triggered is not younger than the time that was noted of it: the
\* one time of news and cascades, the rule's of the links, and for funding the
\* symbol's, unless it has been dropped as too old to matter.
TimesNoted ==
  \A a \in DOMAIN trig_trig :
    LET t == trig_trig[a]
    IN  /\ t.by <= trig_cur /\ t.at <= trig_now
        /\ Trig!OneForAll => t.at <= trig_last
        /\ trig_strat = "link" => t.at <= trig_map[t.item]
        /\ trig_strat = "funding" /\ t.by = trig_cur =>
             t.at <= trig_map[t.item] \/ Trig!Cold(t.at)

\* A loop about to trigger has its own last trigger a cool-down behind it; the
\* newest funding loop, or the copy it reads shows the trigger.
ChecksCold ==
  \A a \in DOMAIN trig_trig :
    LET t == trig_trig[a]
        i == t.by
    IN  /\ Trig!OneForAll /\ trig_loop[i] = "act" => Trig!Cold(t.at)
        /\ /\ trig_strat = "link" /\ trig_loop[i] = "fire"
           /\ t.item \in trig_hand[i] /\ trig_view[i][t.item] = Cool
           => Trig!Cold(t.at)
        /\ /\ trig_strat = "funding" /\ i = trig_cur /\ trig_loop[i] = "act"
           /\ t.item \in trig_todo[i]
           => t.at <= trig_view[i][t.item] \/ Trig!Cold(t.at)

TrigInv == TrigShape /\ TimesNoted /\ ChecksCold /\ Trig!SpacedTriggers

LEMMA TrigConstants ==
  /\ Cool \in Nat /\ Cool > 0 /\ MaxTime \in Nat /\ MaxStart \in Nat /\ MaxTrig \in Nat
  /\ Trig!Never \in Int /\ Trig!Never < 0 /\ \A g \in Given : g \subseteq Cause
  BY SafetyAssumption DEF Trig!CoolAssumption, Trig!BoundAssumption, Trig!ItemAssumption,
    Trig!Never

LEMMA TrigStart == AllInit => TrigInv
  <1> SUFFICES ASSUME AllInit PROVE TrigInv
    OBVIOUS
  <1> USE TrigConstants
  <1>1. TrigShape
    BY DEF AllInit, Trig!Init, TrigShape, TrigTimes, Trig!Empty, Trig!Start
  <1>2. trig_trig = <<>>
    BY DEF AllInit, Trig!Init
  <1>3. DOMAIN trig_trig = {}
    BY <1>2
  <1>4. QED
    BY <1>1, <1>3 DEF TrigInv, TimesNoted, ChecksCold, Trig!SpacedTriggers

LEMMA TrigRow ==
  ASSUME TrigShape, NEW a \in DOMAIN trig_trig
  PROVE  /\ trig_trig[a] \in TriggerRecord /\ trig_trig[a].by \in Trig!Start
         /\ trig_trig[a].item \in Cause /\ trig_trig[a].at \in Nat
  <1>1. trig_trig[a] \in TriggerRecord
    BY DEF TrigShape
  <1>2. QED
    BY <1>1 DEF TriggerRecord

\* A step that triggers nothing leaves the triggers spaced.
LEMMA TrigOld ==
  ASSUME TrigInv, UNCHANGED <<trig_trig, trig_strat>>, trig_cur' \in {trig_cur, trig_cur + 1}
  PROVE  Trig!SpacedTriggers'
  <1>1. \A a \in DOMAIN trig_trig : trig_trig[a].by \in Trig!Start /\ trig_trig[a].by <= trig_cur
    BY TrigRow DEF TrigInv, TimesNoted
  <1>2. trig_cur \in Int
    BY DEF TrigInv, TrigShape
  <1>3. \A a \in DOMAIN trig_trig : trig_trig[a].by = trig_cur' => trig_cur' = trig_cur
    BY <1>1, <1>2 DEF Trig!Start
  <1>4. QED
    BY <1>3 DEF TrigInv, Trig!SpacedTriggers, Trig!OneForAll

\* A step that triggers once, after all of the same loop and thing has cooled.
LEMMA TrigNew ==
  ASSUME TrigInv, NEW i \in Trig!Start, NEW x \in Cause, i <= trig_cur,
         UNCHANGED <<trig_strat, trig_cur>>, Trig!Log(i, x),
         \A a \in DOMAIN trig_trig :
            /\ trig_trig[a].by = i
            /\ Trig!OneForAll \/ trig_trig[a].item = x
            /\ trig_strat = "funding" => i = trig_cur
            => Trig!Cold(trig_trig[a].at)
  PROVE  /\ trig_trig' \in Seq(TriggerRecord)
         /\ \A a \in DOMAIN trig_trig' :
              \/ a \in DOMAIN trig_trig /\ trig_trig'[a] = trig_trig[a]
              \/ trig_trig'[a] = [by |-> i, item |-> x, at |-> trig_now]
         /\ Trig!SpacedTriggers'
  <1> DEFINE r == [by |-> i, item |-> x, at |-> trig_now]
  <1>1. trig_trig' = Append(trig_trig, r) /\ trig_trig \in Seq(TriggerRecord) /\ r \in TriggerRecord
    BY TrigConstants DEF Trig!Log, TrigInv, TrigShape, TriggerRecord
  <1>2. r.by = i /\ r.item = x /\ r.at = trig_now /\ trig_now \in Int
    BY DEF TrigInv, TrigShape
  <1> HIDE DEF r
  <1>3. trig_trig' \in Seq(TriggerRecord)
    BY <1>1
  <1>4. /\ DOMAIN trig_trig' = 1 .. Len(trig_trig) + 1 /\ DOMAIN trig_trig = 1 .. Len(trig_trig)
        /\ Len(trig_trig) \in Nat
        /\ \A a \in 1 .. Len(trig_trig) : trig_trig'[a] = trig_trig[a]
        /\ trig_trig'[Len(trig_trig) + 1] = r
    BY <1>1
  <1>5. ASSUME NEW a \in DOMAIN trig_trig', NEW b \in DOMAIN trig_trig', a < b,
               trig_trig'[a].by = trig_trig'[b].by,
               Trig!OneForAll' \/ trig_trig'[a].item = trig_trig'[b].item,
               trig_strat' = "funding" => trig_trig'[a].by = trig_cur'
        PROVE  trig_trig'[b].at - trig_trig'[a].at >= Cool
    <2>1. a \in DOMAIN trig_trig /\ trig_trig'[a] = trig_trig[a]
      BY <1>4, <1>5
    <2>2. CASE b \in DOMAIN trig_trig
      BY <1>4, <1>5, <2>1, <2>2 DEF TrigInv, Trig!SpacedTriggers, Trig!OneForAll
    <2>3. CASE b = Len(trig_trig) + 1
      BY <1>2, <1>4, <1>5, <2>1, <2>3 DEF Trig!OneForAll, Trig!Cold
    <2>4. QED
      BY <1>4, <2>2, <2>3
  <1>6. Trig!SpacedTriggers'
    BY <1>5 DEF Trig!SpacedTriggers
  <1>7. QED
    BY <1>3, <1>4, <1>6 DEF r

LEMMA TrigAdvanceKeeps == ASSUME TrigInv, Trig!Advance PROVE TrigInv'
  <1> USE TrigConstants
  <1>1. trig_now \in Nat /\ trig_now' = trig_now + 1 /\ trig_now' \in 0 .. MaxTime
    BY DEF Trig!Advance, TrigInv, TrigShape
  <1>2. UNCHANGED <<trig_strat, trig_given, trig_cur, trig_loop, trig_last, trig_map,
                    trig_todo, trig_view, trig_hand, trig_there, trig_bursts, trig_trig>>
    BY DEF Trig!Advance
  <1>3. TrigTimes \subseteq TrigTimes'
    BY <1>1 DEF TrigTimes
  <1>4. TrigShape'
    BY <1>1, <1>2, <1>3 DEF TrigInv, TrigShape
  <1>5. \A t \in Nat : Trig!Cold(t) => Trig!Cold(t)'
    BY <1>1 DEF Trig!Cold
  <1>6. TimesNoted'
    BY <1>1, <1>2, <1>5, TrigRow DEF TrigInv, TimesNoted, Trig!OneForAll
  <1>7. ChecksCold'
    BY <1>1, <1>2, <1>5, TrigRow DEF TrigInv, ChecksCold, Trig!OneForAll
  <1>8. Trig!SpacedTriggers'
    BY <1>2, TrigOld
  <1>9. QED
    BY <1>4, <1>6, <1>7, <1>8 DEF TrigInv

\* What is outside comes and goes, and a strategy is told to stop or given
\* new rules.
LEMMA TrigOutsideKeeps ==
  ASSUME TrigInv,
         \/ Trig!Liquidations \/ Trig!StopStrategy \/ Trig!UpdateStrategyLinkRules
         \/ \E x \in Cause : Trig!Appears(x) \/ Trig!Vanishes(x)
  PROVE  TrigInv'
  <1> USE TrigConstants
  <1>1. UNCHANGED <<trig_strat, trig_given, trig_cur, trig_now, trig_loop, trig_last, trig_map,
                    trig_todo, trig_view, trig_hand, trig_trig>>
    BY DEF Trig!Liquidations, Trig!StopStrategy, Trig!UpdateStrategyLinkRules, Trig!Appears,
      Trig!Vanishes
  <1>2. trig_there' \subseteq Cause /\ trig_bursts' \subseteq 0 .. trig_now
    <2>1. CASE UNCHANGED <<trig_there, trig_bursts>>
      BY <2>1 DEF TrigInv, TrigShape
    <2>2. CASE trig_bursts' = trig_bursts \cup {trig_now} /\ UNCHANGED trig_there
      BY <2>2 DEF TrigInv, TrigShape
    <2>3. CASE UNCHANGED trig_bursts /\ \E x \in Cause : trig_there' \subseteq trig_there \cup {x}
      BY <2>3 DEF TrigInv, TrigShape
    <2>4. QED
      BY <2>1, <2>2, <2>3 DEF Trig!Liquidations, Trig!StopStrategy,
        Trig!UpdateStrategyLinkRules, Trig!Appears, Trig!Vanishes
  <1>3. TrigShape'
    BY <1>1, <1>2 DEF TrigInv, TrigShape, TrigTimes
  <1>4. TimesNoted' /\ ChecksCold'
    BY <1>1 DEF TrigInv, TimesNoted, ChecksCold, Trig!OneForAll, Trig!Cold
  <1>5. Trig!SpacedTriggers'
    BY <1>1, TrigOld
  <1>6. QED
    BY <1>3, <1>4, <1>5 DEF TrigInv

\* A start has triggered nothing yet.
LEMMA TrigStartKeeps == ASSUME TrigInv, Trig!StartStrategy PROVE TrigInv'
  <1> USE TrigConstants
  <1>1. /\ trig_cur' = trig_cur + 1 /\ trig_cur' \in Trig!Start /\ trig_cur \in Nat
        /\ trig_cur' \in 0 .. MaxStart
    BY DEF Trig!StartStrategy, TrigInv, TrigShape, Trig!Start
  <1>2. /\ UNCHANGED <<trig_strat, trig_given, trig_now, trig_last, trig_todo, trig_view,
                       trig_hand, trig_there, trig_bursts, trig_trig>>
        /\ trig_loop' = [trig_loop EXCEPT ![trig_cur + 1] = "wait"]
        /\ trig_map' = IF trig_strat = "link" THEN trig_map ELSE Trig!Empty
    BY DEF Trig!StartStrategy
  <1>3. Trig!Empty \in [Cause -> TrigTimes]
    BY DEF Trig!Empty, TrigTimes
  <1>4. TrigShape'
    <2>1. trig_map' \in [Cause -> TrigTimes']
      BY <1>2, <1>3 DEF TrigInv, TrigShape, TrigTimes
    <2>2. trig_loop' \in [Trig!Start -> {"none", "wait", "act", "fire", "ended"}]
      BY <1>1, <1>2 DEF TrigInv, TrigShape
    <2>3. \A i \in Trig!Start : trig_loop'[i] # "none" => i <= trig_cur'
      BY <1>1, <1>2 DEF TrigInv, TrigShape, Trig!Start
    <2>4. QED
      BY <1>1, <1>2, <2>1, <2>2, <2>3 DEF TrigInv, TrigShape, TrigTimes
  <1>5. \A a \in DOMAIN trig_trig : /\ trig_trig[a].by \in Trig!Start
                                    /\ trig_trig[a].by <= trig_cur
                                    /\ trig_trig[a].by # trig_cur + 1
                                    /\ trig_loop'[trig_trig[a].by] = trig_loop[trig_trig[a].by]
    <2>1. \A a \in DOMAIN trig_trig : trig_trig[a].by \in Trig!Start
      BY TrigRow DEF TrigInv
    <2>2. \A a \in DOMAIN trig_trig : trig_trig[a].by <= trig_cur
      BY DEF TrigInv, TimesNoted
    <2>3. \A j \in Trig!Start : j <= trig_cur => j # trig_cur + 1
      BY <1>1 DEF Trig!Start
    <2>4. \A j \in Trig!Start : j # trig_cur + 1 => trig_loop'[j] = trig_loop[j]
      BY <1>1, <1>2 DEF TrigInv, TrigShape
    <2>5. QED
      BY <2>1, <2>2, <2>3, <2>4
  <1>6. TimesNoted'
    <2>1. \A j \in Trig!Start : j <= trig_cur => j <= trig_cur'
      BY <1>1 DEF Trig!Start
    <2>2. QED
      BY <1>1, <1>2, <1>5, <2>1 DEF TrigInv, TimesNoted, Trig!OneForAll, Trig!Cold
  <1>7. ChecksCold'
    BY <1>1, <1>2, <1>5 DEF TrigInv, ChecksCold, Trig!OneForAll, Trig!Cold
  <1>8. Trig!SpacedTriggers'
    BY <1>1, <1>2, TrigOld
  <1>9. QED
    BY <1>4, <1>6, <1>7, <1>8 DEF TrigInv

LEMMA TrigEndKeeps == ASSUME TrigInv, NEW i \in Trig!Start, Trig!LoopEnds(i) PROVE TrigInv'
  <1>1. UNCHANGED <<trig_strat, trig_given, trig_cur, trig_now, trig_last, trig_map,
                    trig_todo, trig_view, trig_hand, trig_there, trig_bursts, trig_trig>>
    BY DEF Trig!LoopEnds
  <1>2. /\ trig_loop[i] = "wait" /\ trig_loop' = [trig_loop EXCEPT ![i] = "ended"]
        /\ trig_loop \in [Trig!Start -> {"none", "wait", "act", "fire", "ended"}]
    BY DEF Trig!LoopEnds, TrigInv, TrigShape
  <1>3. /\ trig_loop' \in [Trig!Start -> {"none", "wait", "act", "fire", "ended"}]
        /\ \A j \in Trig!Start : /\ trig_loop'[j] # "none" => trig_loop[j] # "none"
                                 /\ trig_loop'[j] = "act" => trig_loop[j] = "act"
                                 /\ trig_loop'[j] = "fire" => trig_loop[j] = "fire"
    BY <1>2
  <1>4. TrigShape'
    BY <1>1, <1>3 DEF TrigInv, TrigShape, TrigTimes
  <1>5. \A a \in DOMAIN trig_trig : trig_trig[a].by \in Trig!Start
    BY TrigRow DEF TrigInv
  <1>6. TimesNoted' /\ ChecksCold'
    BY <1>1, <1>3, <1>5 DEF TrigInv, TimesNoted, ChecksCold, Trig!OneForAll, Trig!Cold
  <1>7. Trig!SpacedTriggers'
    BY <1>1, TrigOld
  <1>8. QED
    BY <1>4, <1>6, <1>7 DEF TrigInv

\* Dropping an old time leaves the others.
LEMMA TrigPruned ==
  ASSUME TrigShape
  PROVE  /\ Trig!Pruned(trig_map) \in [Cause -> TrigTimes]
         /\ \A x \in Cause : \/ Trig!Pruned(trig_map)[x] = trig_map[x]
                            \/ trig_now - trig_map[x] > 2 * Cool
  BY TrigConstants DEF Trig!Pruned, TrigShape, TrigTimes

\* A check of the news or of the liquidations begins.
LEMMA TrigOneReadKeeps ==
  ASSUME TrigInv, NEW i \in Trig!Start, Trig!NewsRead(i) \/ Trig!LiqRead(i) PROVE TrigInv'
  <1> USE TrigConstants
  <1>1. PICK to \in {"wait", "act"} :
          /\ trig_loop[i] = "wait" /\ trig_loop' = [trig_loop EXCEPT ![i] = to]
          /\ to = "act" => Trig!Cold(trig_last)
    BY DEF Trig!NewsRead, Trig!LiqRead, Trig!Takes
  <1>2. trig_strat \in {"news", "liq"} /\ Trig!OneForAll
    BY DEF Trig!NewsRead, Trig!LiqRead, Trig!OneForAll
  <1>3. UNCHANGED <<trig_strat, trig_given, trig_cur, trig_now, trig_last,
                    trig_hand, trig_there, trig_bursts, trig_trig>>
    BY DEF Trig!NewsRead, Trig!LiqRead
  <1>4. /\ trig_map' \in [Cause -> TrigTimes]
        /\ trig_todo' \in [Trig!Start -> SUBSET Cause]
        /\ trig_view' \in [Trig!Start -> [Cause -> Int]]
    <2>1. CASE Trig!NewsRead(i)
      <3>1. trig_map' \in [Cause -> TrigTimes]
        BY <2>1, TrigPruned DEF Trig!NewsRead, TrigInv, TrigShape
      <3>2. /\ trig_map' \in [Cause -> Int] /\ Trig!Empty \in [Cause -> Int]
            /\ trig_there \in SUBSET Cause
        BY <3>1 DEF TrigTimes, TrigInv, TrigShape, Trig!Empty
      <3>3. PICK v \in [Cause -> Int], d \in SUBSET Cause :
              trig_view' = [trig_view EXCEPT ![i] = v] /\ trig_todo' = [trig_todo EXCEPT ![i] = d]
        BY <2>1, <3>2 DEF Trig!NewsRead
      <3>4. QED
        BY <3>1, <3>3 DEF TrigInv, TrigShape
    <2>2. CASE Trig!LiqRead(i)
      BY <2>2 DEF Trig!LiqRead, TrigInv, TrigShape
    <2>3. QED
      BY <2>1, <2>2
  <1>5. TrigShape'
    <2>1. trig_loop' \in [Trig!Start -> {"none", "wait", "act", "fire", "ended"}]
      BY <1>1 DEF TrigInv, TrigShape
    <2>2. \A j \in Trig!Start : trig_loop'[j] # "none" => j <= trig_cur
      BY <1>1 DEF TrigInv, TrigShape
    <2>3. QED
      BY <1>3, <1>4, <2>1, <2>2 DEF TrigInv, TrigShape, TrigTimes
  <1>6. TimesNoted'
    BY <1>2, <1>3 DEF TrigInv, TimesNoted, Trig!OneForAll
  <1>7. ChecksCold'
    <2>1. \A t \in Nat : t <= trig_last /\ Trig!Cold(trig_last) => Trig!Cold(t)
      BY DEF Trig!Cold, TrigInv, TrigShape, TrigTimes
    <2>2. ASSUME NEW a \in DOMAIN trig_trig, trig_loop'[trig_trig[a].by] = "act"
          PROVE  Trig!Cold(trig_trig[a].at)
      <3>1. trig_trig[a].by \in Trig!Start /\ trig_trig[a].at \in Nat
        BY TrigRow DEF TrigInv
      <3>2. CASE trig_trig[a].by = i
        BY <1>1, <1>2, <2>1, <2>2, <3>1, <3>2 DEF TrigInv, TrigShape, TimesNoted
      <3>3. CASE trig_trig[a].by # i
        BY <1>1, <1>2, <2>2, <3>1, <3>3 DEF TrigInv, TrigShape, ChecksCold
      <3>4. QED
        BY <3>2, <3>3
    <2>3. trig_strat' # "link" /\ trig_strat' # "funding" /\ UNCHANGED <<trig_trig, trig_now>>
      BY <1>2, <1>3
    <2>4. QED
      BY <2>2, <2>3 DEF ChecksCold, Trig!Cold
  <1>8. Trig!SpacedTriggers'
    BY <1>3, TrigOld
  <1>9. QED
    BY <1>5, <1>6, <1>7, <1>8 DEF TrigInv

\* The orders of the news or of the liquidations go out, and the time with
\* them, or the time alone.
LEMMA TrigOneActsKeeps ==
  ASSUME TrigInv, NEW i \in Trig!Start,
         Trig!LiqTrigger(i) \/ \E x \in Cause : Trig!NewsTrigger(i, x)
  PROVE  TrigInv'
  <1> USE TrigConstants
  <1>1. /\ trig_strat \in {"news", "liq"} /\ Trig!OneForAll
        /\ trig_loop[i] = "act" /\ trig_loop' = [trig_loop EXCEPT ![i] = "wait"]
        /\ trig_last' = trig_now
    BY DEF Trig!NewsTrigger, Trig!LiqTrigger, Trig!OneForAll, Trig!Done
  <1>2. UNCHANGED <<trig_strat, trig_given, trig_cur, trig_now,
                    trig_hand, trig_there, trig_bursts>>
    BY DEF Trig!NewsTrigger, Trig!LiqTrigger
  <1>3. \E y \in Cause : UNCHANGED trig_trig \/ Trig!Log(i, y)
    <2>1. Trig!Cascade \in Cause
      BY SafetyAssumption DEF Trig!Cascade, Trig!ItemAssumption
    <2>2. QED
      BY <2>1 DEF Trig!NewsTrigger, Trig!LiqTrigger
  <1>4. i <= trig_cur
    BY <1>1 DEF TrigInv, TrigShape
  <1>5. /\ trig_map' \in [Cause -> TrigTimes]
        /\ trig_todo' \in [Trig!Start -> SUBSET Cause]
        /\ trig_view' \in [Trig!Start -> [Cause -> Int]]
    <2>1. CASE Trig!LiqTrigger(i)
      BY <2>1 DEF Trig!LiqTrigger, TrigInv, TrigShape
    <2>2. ASSUME NEW x \in Cause, Trig!NewsTrigger(i, x)
          PROVE  /\ trig_map' \in [Cause -> TrigTimes]
                 /\ trig_todo' \in [Trig!Start -> SUBSET Cause]
                 /\ trig_view' \in [Trig!Start -> [Cause -> Int]]
      <3>1. Trig!Empty \in [Cause -> Int] /\ trig_now \in TrigTimes
        BY DEF Trig!Empty, TrigTimes, TrigInv, TrigShape
      <3>2. QED
        BY <2>2, <3>1 DEF Trig!NewsTrigger, Trig!Done, TrigInv, TrigShape
    <2>3. QED
      BY <2>1, <2>2
  <1>6. /\ trig_trig' \in Seq(TriggerRecord)
        /\ \A a \in DOMAIN trig_trig' :
              \/ a \in DOMAIN trig_trig /\ trig_trig'[a] = trig_trig[a]
              \/ trig_trig'[a].by = i /\ trig_trig'[a].at = trig_now
        /\ Trig!SpacedTriggers'
    <2>1. CASE UNCHANGED trig_trig
      BY <1>2, <2>1, TrigOld DEF TrigInv, TrigShape
    <2>2. ASSUME NEW y \in Cause, Trig!Log(i, y)
          PROVE  /\ trig_trig' \in Seq(TriggerRecord)
                 /\ \A a \in DOMAIN trig_trig' :
                      \/ a \in DOMAIN trig_trig /\ trig_trig'[a] = trig_trig[a]
                      \/ trig_trig'[a].by = i /\ trig_trig'[a].at = trig_now
                 /\ Trig!SpacedTriggers'
      <3>1. \A a \in DOMAIN trig_trig : trig_trig[a].by = i => Trig!Cold(trig_trig[a].at)
        BY <1>1 DEF TrigInv, ChecksCold
      <3>2. /\ trig_trig' \in Seq(TriggerRecord)
            /\ \A a \in DOMAIN trig_trig' :
                 \/ a \in DOMAIN trig_trig /\ trig_trig'[a] = trig_trig[a]
                 \/ trig_trig'[a] = [by |-> i, item |-> y, at |-> trig_now]
            /\ Trig!SpacedTriggers'
        BY <1>2, <1>4, <2>2, <3>1, TrigNew
      <3>3. QED
        BY <3>2
    <2>3. QED
      BY <1>3, <2>1, <2>2
  <1>7. TrigShape'
    <2>1. /\ trig_loop' \in [Trig!Start -> {"none", "wait", "act", "fire", "ended"}]
          /\ \A j \in Trig!Start : trig_loop'[j] # "none" => j <= trig_cur
      BY <1>1 DEF TrigInv, TrigShape
    <2>2. trig_last' \in TrigTimes
      BY <1>1 DEF TrigInv, TrigShape, TrigTimes
    <2>3. TrigTimes' = TrigTimes
      BY <1>2 DEF TrigTimes
    <2>4. QED
      BY <1>2, <1>5, <1>6, <2>1, <2>2, <2>3 DEF TrigInv, TrigShape
  <1>8. TimesNoted'
    <2>1. \A a \in DOMAIN trig_trig : trig_trig[a].by <= trig_cur /\ trig_trig[a].at <= trig_now
      BY DEF TrigInv, TimesNoted
    <2>2. trig_now <= trig_now
      BY DEF TrigInv, TrigShape
    <2>3. \A a \in DOMAIN trig_trig' : trig_trig'[a].by <= trig_cur /\ trig_trig'[a].at <= trig_now
      BY <1>4, <1>6, <2>1, <2>2
    <2>4. QED
      BY <1>1, <1>2, <2>3 DEF TimesNoted
  <1>9. ChecksCold'
    <2>1. trig_loop'[i] = "wait" /\ \A j \in Trig!Start : j # i => trig_loop'[j] = trig_loop[j]
      BY <1>1 DEF TrigInv, TrigShape
    <2>2. \A a \in DOMAIN trig_trig : trig_trig[a].by \in Trig!Start
      BY TrigRow DEF TrigInv
    <2>3. \A a \in DOMAIN trig_trig' : trig_loop'[trig_trig'[a].by] = "act" =>
            Trig!Cold(trig_trig'[a].at)
      BY <1>1, <1>6, <2>1, <2>2 DEF TrigInv, ChecksCold
    <2>4. QED
      BY <1>1, <1>2, <2>3 DEF ChecksCold, Trig!Cold
  <1>10. QED
    BY <1>6, <1>7, <1>8, <1>9 DEF TrigInv

\* A check of the funding rates begins: the copy is what was noted so far.
LEMMA TrigFundingReadKeeps ==
  ASSUME TrigInv, NEW i \in Trig!Start, Trig!FundingRead(i) PROVE TrigInv'
  <1> USE TrigConstants
  <1>1. /\ trig_strat = "funding" /\ ~Trig!OneForAll
        /\ trig_loop[i] = "wait" /\ trig_loop' = [trig_loop EXCEPT ![i] = "act"]
        /\ trig_todo' = [trig_todo EXCEPT ![i] = trig_there]
        /\ trig_view' = [trig_view EXCEPT ![i] = trig_map]
    BY DEF Trig!FundingRead, Trig!Takes, Trig!OneForAll
  <1>2. UNCHANGED <<trig_strat, trig_given, trig_cur, trig_now, trig_last, trig_map,
                    trig_hand, trig_there, trig_bursts, trig_trig>>
    BY DEF Trig!FundingRead
  <1>3. trig_map \in [Cause -> Int] /\ trig_there \in SUBSET Cause
    BY DEF TrigInv, TrigShape, TrigTimes
  <1>4. TrigShape'
    <2>1. /\ trig_loop' \in [Trig!Start -> {"none", "wait", "act", "fire", "ended"}]
          /\ \A j \in Trig!Start : trig_loop'[j] # "none" => j <= trig_cur
      BY <1>1 DEF TrigInv, TrigShape
    <2>2. /\ trig_todo' \in [Trig!Start -> SUBSET Cause]
          /\ trig_view' \in [Trig!Start -> [Cause -> Int]]
      BY <1>1, <1>3 DEF TrigInv, TrigShape
    <2>3. QED
      BY <1>2, <2>1, <2>2 DEF TrigInv, TrigShape, TrigTimes
  <1>5. TimesNoted'
    BY <1>2 DEF TrigInv, TimesNoted, Trig!OneForAll, Trig!Cold
  <1>6. ChecksCold'
    <2>1. ASSUME NEW a \in DOMAIN trig_trig, trig_trig[a].by = trig_cur,
                 trig_loop'[trig_cur] = "act", trig_trig[a].item \in trig_todo'[trig_cur]
          PROVE  \/ trig_trig[a].at <= trig_view'[trig_cur][trig_trig[a].item]
                 \/ Trig!Cold(trig_trig[a].at)
      <3>1. trig_cur \in Trig!Start
        BY <2>1, TrigRow DEF TrigInv
      <3>2. CASE trig_cur = i
        <4>1. trig_view'[trig_cur] = trig_map
          BY <1>1, <3>1, <3>2 DEF TrigInv, TrigShape
        <4>2. QED
          BY <1>1, <2>1, <4>1 DEF TrigInv, TimesNoted
      <3>3. CASE trig_cur # i
        <4>1. /\ trig_view'[trig_cur] = trig_view[trig_cur] /\ trig_loop[trig_cur] = "act"
              /\ trig_todo'[trig_cur] = trig_todo[trig_cur]
          BY <1>1, <2>1, <3>1, <3>3 DEF TrigInv, TrigShape
        <4>2. QED
          BY <1>1, <2>1, <4>1 DEF TrigInv, ChecksCold
      <3>4. QED
        BY <3>2, <3>3
    <2>2. QED
      BY <1>1, <1>2, <2>1 DEF ChecksCold, Trig!Cold, Trig!OneForAll
  <1>7. Trig!SpacedTriggers'
    BY <1>2, TrigOld
  <1>8. QED
    BY <1>4, <1>5, <1>6, <1>7 DEF TrigInv

\* A symbol is ordered when the copy says it has cooled, or passed over.
LEMMA TrigFundingItemKeeps ==
  ASSUME TrigInv, NEW i \in Trig!Start, NEW x \in Cause, Trig!FundingItem(i, x) PROVE TrigInv'
  <1> USE TrigConstants
  <1>1. /\ trig_strat = "funding" /\ ~Trig!OneForAll
        /\ trig_loop[i] = "act" /\ x \in trig_todo[i]
        /\ trig_todo' = [trig_todo EXCEPT ![i] = @ \ {x}]
    BY DEF Trig!FundingItem, Trig!OneForAll
  <1>2. UNCHANGED <<trig_strat, trig_given, trig_cur, trig_now, trig_last, trig_loop,
                    trig_view, trig_hand, trig_there, trig_bursts>>
    BY DEF Trig!FundingItem
  <1>3. /\ i <= trig_cur /\ trig_cur \in Int /\ trig_now \in Nat /\ trig_now \in TrigTimes
        /\ trig_map \in [Cause -> TrigTimes]
    BY <1>1 DEF TrigInv, TrigShape, TrigTimes
  <1>4. /\ trig_todo' \in [Trig!Start -> SUBSET Cause]
        /\ \A j \in Trig!Start : trig_todo'[j] \subseteq trig_todo[j]
        /\ x \notin trig_todo'[i]
    BY <1>1 DEF TrigInv, TrigShape
  <1>5. \A a \in DOMAIN trig_trig : /\ trig_trig[a].by \in Trig!Start /\ trig_trig[a].item \in Cause
                                    /\ trig_trig[a].at \in Nat
    BY TrigRow DEF TrigInv
  <1>6. ASSUME UNCHANGED <<trig_map, trig_trig>> PROVE TrigInv'
    <2>1. TrigShape'
      BY <1>2, <1>4, <1>6 DEF TrigInv, TrigShape, TrigTimes
    <2>2. TimesNoted'
      BY <1>2, <1>6 DEF TrigInv, TimesNoted, Trig!OneForAll, Trig!Cold
    <2>3. ChecksCold'
      BY <1>2, <1>4, <1>5, <1>6 DEF TrigInv, ChecksCold, Trig!OneForAll, Trig!Cold
    <2>4. Trig!SpacedTriggers'
      BY <1>2, <1>6, TrigOld
    <2>5. QED
      BY <2>1, <2>2, <2>3, <2>4 DEF TrigInv
  <1>7. ASSUME Trig!Cold(trig_view[i][x]), trig_map' = [trig_map EXCEPT ![x] = trig_now],
               Trig!Log(i, x)
        PROVE  TrigInv'
    <2>1. trig_view[i][x] \in Int
      BY DEF TrigInv, TrigShape
    <2>2. ASSUME NEW a \in DOMAIN trig_trig, trig_trig[a].by = i, trig_trig[a].item = x,
                 i = trig_cur
          PROVE  Trig!Cold(trig_trig[a].at)
      <3>1. trig_trig[a].at <= trig_view[i][x] \/ Trig!Cold(trig_trig[a].at)
        BY <1>1, <2>2 DEF TrigInv, ChecksCold
      <3>2. QED
        BY <1>3, <1>5, <1>7, <2>1, <3>1 DEF Trig!Cold
    <2>3. /\ trig_trig' \in Seq(TriggerRecord)
          /\ \A a \in DOMAIN trig_trig' :
               \/ a \in DOMAIN trig_trig /\ trig_trig'[a] = trig_trig[a]
               \/ trig_trig'[a] = [by |-> i, item |-> x, at |-> trig_now]
          /\ Trig!SpacedTriggers'
      BY <1>1, <1>2, <1>3, <1>7, <2>2, TrigNew
    <2>4. \A a \in DOMAIN trig_trig' :
               \/ a \in DOMAIN trig_trig /\ trig_trig'[a] = trig_trig[a]
               \/ trig_trig'[a].by = i /\ trig_trig'[a].item = x /\ trig_trig'[a].at = trig_now
      BY <2>3
    <2>5. TrigShape'
      <3>1. trig_map' \in [Cause -> TrigTimes]
        BY <1>3, <1>7
      <3>2. QED
        BY <1>2, <1>4, <2>3, <3>1 DEF TrigInv, TrigShape, TrigTimes
    <2>6. /\ trig_map'[x] = trig_now /\ trig_now <= trig_now
          /\ \A y \in Cause : y # x => trig_map'[y] = trig_map[y]
      BY <1>3, <1>7
    <2>7. TimesNoted'
      <3>1. ASSUME NEW a \in DOMAIN trig_trig'
            PROVE  /\ trig_trig'[a].by <= trig_cur /\ trig_trig'[a].at <= trig_now
                   /\ trig_trig'[a].by = trig_cur =>
                        \/ trig_trig'[a].at <= trig_map'[trig_trig'[a].item]
                        \/ Trig!Cold(trig_trig'[a].at)
        <4>1. CASE trig_trig'[a].by = i /\ trig_trig'[a].item = x /\ trig_trig'[a].at = trig_now
          BY <1>3, <2>6, <4>1
        <4>2. CASE a \in DOMAIN trig_trig /\ trig_trig'[a] = trig_trig[a]
          BY <1>1, <1>5, <2>6, <4>2 DEF TrigInv, TimesNoted
        <4>3. QED
          BY <2>4, <4>1, <4>2
      <3>2. QED
        BY <1>1, <1>2, <3>1 DEF TimesNoted, Trig!OneForAll, Trig!Cold
    <2>8. ChecksCold'
      <3>1. ASSUME NEW a \in DOMAIN trig_trig', trig_trig'[a].by = trig_cur,
                   trig_loop[trig_cur] = "act", trig_trig'[a].item \in trig_todo'[trig_cur]
            PROVE  \/ trig_trig'[a].at <= trig_view[trig_cur][trig_trig'[a].item]
                   \/ Trig!Cold(trig_trig'[a].at)
        <4>1. ~(trig_trig'[a].by = i /\ trig_trig'[a].item = x)
          BY <1>4, <3>1
        <4>2. a \in DOMAIN trig_trig /\ trig_trig'[a] = trig_trig[a]
          BY <2>4, <4>1
        <4>3. trig_trig[a].item \in trig_todo[trig_cur]
          BY <1>4, <1>5, <3>1, <4>2
        <4>4. QED
          BY <1>1, <3>1, <4>2, <4>3 DEF TrigInv, ChecksCold
      <3>2. QED
        BY <1>1, <1>2, <3>1 DEF ChecksCold, Trig!OneForAll, Trig!Cold
    <2>9. QED
      BY <2>3, <2>5, <2>7, <2>8 DEF TrigInv
  <1>8. QED
    BY <1>6, <1>7 DEF Trig!FundingItem

\* A check ends; what funding drops of its times is older than a cool-down.
LEMMA TrigDoneKeeps ==
  ASSUME TrigInv, NEW i \in Trig!Start, Trig!CheckDone(i) PROVE TrigInv'
  <1> USE TrigConstants
  <1>1. /\ trig_loop[i] = "act" /\ trig_loop' = [trig_loop EXCEPT ![i] = "wait"]
        /\ trig_todo' = [trig_todo EXCEPT ![i] = {}]
        /\ trig_view' = [trig_view EXCEPT ![i] = Trig!Empty]
        /\ \/ trig_map' = trig_map
           \/ trig_strat = "funding" /\ trig_map' = Trig!Pruned(trig_map)
    BY DEF Trig!CheckDone, Trig!Done
  <1>2. UNCHANGED <<trig_strat, trig_given, trig_cur, trig_now, trig_last,
                    trig_hand, trig_there, trig_bursts, trig_trig>>
    BY DEF Trig!CheckDone
  <1>3. /\ Trig!Empty \in [Cause -> Int] /\ trig_now \in Nat
        /\ \A y \in Cause : trig_map[y] \in Int
    BY DEF Trig!Empty, TrigInv, TrigShape, TrigTimes
  <1>4. /\ trig_map' \in [Cause -> TrigTimes]
        /\ \A y \in Cause : trig_map'[y] = trig_map[y] \/ trig_now - trig_map[y] > 2 * Cool
        /\ trig_strat # "funding" => trig_map' = trig_map
    BY <1>1, TrigPruned DEF TrigInv, TrigShape
  <1>5. TrigShape'
    <2>1. /\ trig_loop' \in [Trig!Start -> {"none", "wait", "act", "fire", "ended"}]
          /\ \A j \in Trig!Start : trig_loop'[j] # "none" => j <= trig_cur
      BY <1>1 DEF TrigInv, TrigShape
    <2>2. /\ trig_todo' \in [Trig!Start -> SUBSET Cause]
          /\ trig_view' \in [Trig!Start -> [Cause -> Int]]
      BY <1>1, <1>3 DEF TrigInv, TrigShape
    <2>3. QED
      BY <1>2, <1>4, <2>1, <2>2 DEF TrigInv, TrigShape, TrigTimes
  <1>6. \A a \in DOMAIN trig_trig : /\ trig_trig[a].by \in Trig!Start /\ trig_trig[a].item \in Cause
                                    /\ trig_trig[a].at \in Nat
    BY TrigRow DEF TrigInv
  <1>7. TimesNoted'
    <2>1. ASSUME NEW a \in DOMAIN trig_trig, trig_strat = "funding", trig_trig[a].by = trig_cur
          PROVE  \/ trig_trig[a].at <= trig_map'[trig_trig[a].item] \/ Trig!Cold(trig_trig[a].at)
      <3>1. CASE trig_map'[trig_trig[a].item] = trig_map[trig_trig[a].item]
        BY <2>1, <3>1 DEF TrigInv, TimesNoted
      <3>2. CASE trig_now - trig_map[trig_trig[a].item] > 2 * Cool
        <4>1. trig_trig[a].at <= trig_map[trig_trig[a].item] \/ Trig!Cold(trig_trig[a].at)
          BY <2>1 DEF TrigInv, TimesNoted
        <4>2. QED
          BY <1>3, <1>6, <3>2, <4>1 DEF Trig!Cold
      <3>3. QED
        BY <1>4, <1>6, <3>1, <3>2
    <2>2. QED
      BY <1>2, <1>4, <2>1 DEF TrigInv, TimesNoted, Trig!OneForAll, Trig!Cold
  <1>8. ChecksCold'
    <2>1. \A j \in Trig!Start : /\ trig_loop'[j] = "act" => j # i /\ trig_loop[j] = "act"
                                /\ trig_loop'[j] = "fire" => j # i /\ trig_loop[j] = "fire"
      BY <1>1 DEF TrigInv, TrigShape
    <2>2. \A j \in Trig!Start : j # i => trig_todo'[j] = trig_todo[j] /\ trig_view'[j] = trig_view[j]
      BY <1>1 DEF TrigInv, TrigShape
    <2>3. QED
      BY <1>2, <1>6, <2>1, <2>2 DEF TrigInv, ChecksCold, Trig!OneForAll, Trig!Cold
  <1>9. Trig!SpacedTriggers'
    BY <1>2, TrigOld
  <1>10. QED
    BY <1>5, <1>7, <1>8, <1>9 DEF TrigInv

\* A check of the linked strategies begins.
LEMMA TrigLinkReadKeeps ==
  ASSUME TrigInv, NEW i \in Trig!Start, Trig!LinkRead(i) PROVE TrigInv'
  <1> USE TrigConstants
  <1> DEFINE v == [x \in Cause |-> IF trig_bare THEN 0 ELSE Cool]
  <1>1. /\ trig_strat = "link" /\ trig_loop[i] = "wait"
        /\ trig_loop' = [trig_loop EXCEPT ![i] = "act"]
        /\ trig_todo' = [trig_todo EXCEPT ![i] = trig_given]
        /\ trig_view' = [trig_view EXCEPT ![i] = v]
    BY DEF Trig!LinkRead, Trig!Takes
  <1>2. UNCHANGED <<trig_strat, trig_given, trig_cur, trig_now, trig_last, trig_map,
                    trig_hand, trig_there, trig_bursts, trig_trig>>
    BY DEF Trig!LinkRead
  <1>3. v \in [Cause -> Int] /\ trig_given \in SUBSET Cause
    BY DEF TrigInv, TrigShape
  <1> HIDE DEF v
  <1>4. TrigShape'
    <2>1. /\ trig_loop' \in [Trig!Start -> {"none", "wait", "act", "fire", "ended"}]
          /\ \A j \in Trig!Start : trig_loop'[j] # "none" => j <= trig_cur
      BY <1>1 DEF TrigInv, TrigShape
    <2>2. /\ trig_todo' \in [Trig!Start -> SUBSET Cause]
          /\ trig_view' \in [Trig!Start -> [Cause -> Int]]
      BY <1>1, <1>3 DEF TrigInv, TrigShape
    <2>3. QED
      BY <1>2, <2>1, <2>2 DEF TrigInv, TrigShape, TrigTimes
  <1>5. TimesNoted'
    BY <1>2 DEF TrigInv, TimesNoted, Trig!OneForAll, Trig!Cold
  <1>6. ChecksCold'
    <2>1. \A a \in DOMAIN trig_trig : trig_trig[a].by \in Trig!Start
      BY TrigRow DEF TrigInv
    <2>2. /\ \A j \in Trig!Start : trig_loop'[j] = "fire" => j # i /\ trig_loop[j] = "fire"
          /\ \A j \in Trig!Start : j # i => trig_view'[j] = trig_view[j]
      BY <1>1 DEF TrigInv, TrigShape
    <2>3. QED
      BY <1>1, <1>2, <2>1, <2>2 DEF TrigInv, ChecksCold, Trig!OneForAll, Trig!Cold
  <1>7. Trig!SpacedTriggers'
    BY <1>2, TrigOld
  <1>8. QED
    BY <1>4, <1>5, <1>6, <1>7 DEF TrigInv

\* A rule goes on to its action when the time noted of it has cooled.
LEMMA TrigLinkRuleKeeps ==
  ASSUME TrigInv, NEW i \in Trig!Start, NEW x \in Cause, Trig!LinkRule(i, x) PROVE TrigInv'
  <1> USE TrigConstants
  <1>1. /\ trig_strat = "link" /\ trig_loop[i] = "act"
        /\ trig_todo' = [trig_todo EXCEPT ![i] = @ \ {x}]
        /\ \/ UNCHANGED <<trig_loop, trig_hand>>
           \/ /\ trig_now - trig_map[x] >= trig_view[i][x]
              /\ trig_loop' = [trig_loop EXCEPT ![i] = "fire"]
              /\ trig_hand' = [trig_hand EXCEPT ![i] = {x}]
    BY DEF Trig!LinkRule
  <1>2. UNCHANGED <<trig_strat, trig_given, trig_cur, trig_now, trig_last, trig_map, trig_view,
                    trig_there, trig_bursts, trig_trig>>
    BY DEF Trig!LinkRule
  <1>3. TrigShape'
    <2>1. /\ trig_loop' \in [Trig!Start -> {"none", "wait", "act", "fire", "ended"}]
          /\ \A j \in Trig!Start : trig_loop'[j] # "none" => j <= trig_cur
      BY <1>1 DEF TrigInv, TrigShape
    <2>2. /\ trig_todo' \in [Trig!Start -> SUBSET Cause]
          /\ trig_hand' \in [Trig!Start -> SUBSET Cause]
      BY <1>1 DEF TrigInv, TrigShape
    <2>3. QED
      BY <1>2, <2>1, <2>2 DEF TrigInv, TrigShape, TrigTimes
  <1>4. TimesNoted'
    BY <1>2 DEF TrigInv, TimesNoted, Trig!OneForAll, Trig!Cold
  <1>5. ChecksCold'
    <2>1. ASSUME NEW a \in DOMAIN trig_trig, trig_loop'[trig_trig[a].by] = "fire",
                 trig_trig[a].item \in trig_hand'[trig_trig[a].by],
                 trig_view[trig_trig[a].by][trig_trig[a].item] = Cool
          PROVE  Trig!Cold(trig_trig[a].at)
      <3>1. /\ trig_trig[a].by \in Trig!Start /\ trig_trig[a].item \in Cause
            /\ trig_trig[a].at \in Nat
        BY TrigRow DEF TrigInv
      <3>2. CASE trig_loop'[trig_trig[a].by] = trig_loop[trig_trig[a].by]
                 /\ trig_hand'[trig_trig[a].by] = trig_hand[trig_trig[a].by]
        BY <1>1, <2>1, <3>2 DEF TrigInv, ChecksCold
      <3>3. CASE trig_trig[a].by = i /\ trig_hand'[i] = {x}
                 /\ trig_now - trig_map[x] >= trig_view[i][x]
        <4>1. trig_trig[a].item = x /\ trig_now - trig_map[x] >= Cool
              /\ trig_trig[a].at <= trig_map[x]
          BY <1>1, <2>1, <3>3 DEF TrigInv, TimesNoted
        <4>2. trig_map[x] \in Int /\ trig_now \in Int
          BY DEF TrigInv, TrigShape, TrigTimes
        <4>3. QED
          BY <3>1, <4>1, <4>2 DEF Trig!Cold
      <3>4. QED
        BY <1>1, <3>1, <3>2, <3>3 DEF TrigInv, TrigShape
    <2>2. QED
      BY <1>1, <1>2, <2>1 DEF ChecksCold, Trig!OneForAll, Trig!Cold
  <1>6. Trig!SpacedTriggers'
    BY <1>2, TrigOld
  <1>7. QED
    BY <1>3, <1>4, <1>5, <1>6 DEF TrigInv

\* The action is done and its time noted.
LEMMA TrigLinkFireKeeps ==
  ASSUME TrigInv, NEW i \in Trig!Start, NEW x \in Cause, Trig!LinkFire(i, x) PROVE TrigInv'
  <1> USE TrigConstants
  <1>1. /\ trig_strat = "link" /\ ~Trig!OneForAll /\ trig_loop[i] = "fire" /\ x \in trig_hand[i]
        /\ trig_map' = [trig_map EXCEPT ![x] = trig_now]
        /\ trig_hand' = [trig_hand EXCEPT ![i] = {}]
        /\ trig_loop' = [trig_loop EXCEPT ![i] = "act"]
        /\ \/ UNCHANGED trig_trig
           \/ trig_view[i][x] = Cool /\ Trig!Log(i, x)
    BY DEF Trig!LinkFire, Trig!OneForAll
  <1>2. UNCHANGED <<trig_strat, trig_given, trig_cur, trig_now, trig_last, trig_todo,
                    trig_view, trig_there, trig_bursts>>
    BY DEF Trig!LinkFire
  <1>3. /\ i <= trig_cur /\ trig_now \in Nat /\ trig_now \in TrigTimes
        /\ trig_map \in [Cause -> TrigTimes]
    BY <1>1 DEF TrigInv, TrigShape, TrigTimes
  <1>4. /\ trig_trig' \in Seq(TriggerRecord)
        /\ \A a \in DOMAIN trig_trig' :
             \/ a \in DOMAIN trig_trig /\ trig_trig'[a] = trig_trig[a]
             \/ trig_trig'[a].by = i /\ trig_trig'[a].item = x /\ trig_trig'[a].at = trig_now
        /\ Trig!SpacedTriggers'
    <2>1. CASE UNCHANGED trig_trig
      BY <1>2, <2>1, TrigOld DEF TrigInv, TrigShape
    <2>2. CASE trig_view[i][x] = Cool /\ Trig!Log(i, x)
      <3>1. \A a \in DOMAIN trig_trig : trig_trig[a].by = i /\ trig_trig[a].item = x
              => Trig!Cold(trig_trig[a].at)
        BY <1>1, <2>2 DEF TrigInv, ChecksCold
      <3>2. /\ trig_trig' \in Seq(TriggerRecord)
            /\ \A a \in DOMAIN trig_trig' :
                 \/ a \in DOMAIN trig_trig /\ trig_trig'[a] = trig_trig[a]
                 \/ trig_trig'[a] = [by |-> i, item |-> x, at |-> trig_now]
            /\ Trig!SpacedTriggers'
        BY <1>1, <1>2, <1>3, <2>2, <3>1, TrigNew
      <3>3. QED
        BY <3>2
    <2>3. QED
      BY <1>1, <2>1, <2>2
  <1>5. TrigShape'
    <2>1. /\ trig_loop' \in [Trig!Start -> {"none", "wait", "act", "fire", "ended"}]
          /\ \A j \in Trig!Start : trig_loop'[j] # "none" => j <= trig_cur
      BY <1>1 DEF TrigInv, TrigShape
    <2>2. /\ trig_map' \in [Cause -> TrigTimes]
          /\ trig_hand' \in [Trig!Start -> SUBSET Cause]
      BY <1>1, <1>3 DEF TrigInv, TrigShape
    <2>3. QED
      BY <1>2, <1>4, <2>1, <2>2 DEF TrigInv, TrigShape, TrigTimes
  <1>6. \A a \in DOMAIN trig_trig : /\ trig_trig[a].by \in Trig!Start /\ trig_trig[a].item \in Cause
                                    /\ trig_trig[a].at \in Nat
    BY TrigRow DEF TrigInv
  <1>7. TimesNoted'
    <2>1. /\ trig_map'[x] = trig_now /\ trig_now <= trig_now
          /\ \A y \in Cause : y # x => trig_map'[y] = trig_map[y]
      BY <1>1, <1>3
    <2>2. ASSUME NEW a \in DOMAIN trig_trig'
          PROVE  /\ trig_trig'[a].by <= trig_cur /\ trig_trig'[a].at <= trig_now
                 /\ trig_trig'[a].at <= trig_map'[trig_trig'[a].item]
      <3>1. CASE trig_trig'[a].by = i /\ trig_trig'[a].item = x /\ trig_trig'[a].at = trig_now
        BY <1>3, <2>1, <3>1
      <3>2. CASE a \in DOMAIN trig_trig /\ trig_trig'[a] = trig_trig[a]
        BY <1>1, <1>6, <2>1, <3>2 DEF TrigInv, TimesNoted
      <3>3. QED
        BY <1>4, <3>1, <3>2
    <2>3. QED
      BY <1>1, <1>2, <2>2 DEF TimesNoted, Trig!OneForAll
  <1>8. ChecksCold'
    <2>1. \A j \in Trig!Start : trig_loop'[j] = "fire" =>
            j # i /\ trig_loop[j] = "fire" /\ trig_hand'[j] = trig_hand[j]
      BY <1>1 DEF TrigInv, TrigShape
    <2>2. ASSUME NEW a \in DOMAIN trig_trig', trig_loop'[trig_trig'[a].by] = "fire",
                 trig_trig'[a].item \in trig_hand'[trig_trig'[a].by],
                 trig_view[trig_trig'[a].by][trig_trig'[a].item] = Cool
          PROVE  Trig!Cold(trig_trig'[a].at)
      <3>1. trig_trig'[a].by # i /\ a \in DOMAIN trig_trig /\ trig_trig'[a] = trig_trig[a]
        BY <1>4, <1>6, <2>1, <2>2
      <3>2. QED
        BY <1>1, <1>6, <2>1, <2>2, <3>1 DEF TrigInv, ChecksCold
    <2>3. QED
      BY <1>1, <1>2, <2>2 DEF ChecksCold, Trig!OneForAll, Trig!Cold
  <1>9. QED
    BY <1>4, <1>5, <1>7, <1>8 DEF TrigInv

\* Every step keeps the invariant of the event strategies.
LEMMA TrigKeeps == TrigInv /\ [Trig!Next]_trigVars => TrigInv'
  <1> SUFFICES ASSUME TrigInv, [Trig!Next]_trigVars PROVE TrigInv'
    OBVIOUS
  <1>1. ASSUME UNCHANGED trigVars PROVE TrigInv'
    BY <1>1 DEF trigVars, TrigInv, TrigShape, TrigTimes, TimesNoted, ChecksCold,
      Trig!SpacedTriggers, Trig!OneForAll, Trig!Cold
  <1>2. QED
    BY <1>1, TrigAdvanceKeeps, TrigOutsideKeeps, TrigStartKeeps, TrigEndKeeps, TrigDoneKeeps,
      TrigOneReadKeeps, TrigOneActsKeeps, TrigFundingReadKeeps, TrigFundingItemKeeps,
      TrigLinkReadKeeps, TrigLinkRuleKeeps, TrigLinkFireKeeps
    DEF Trig!Next

LEMMA TrigShows == TrigInv => Trig!TypeOK /\ Trig!SpacedTriggers
  BY DEF TrigInv, TrigShape, TrigTimes, Trig!TypeOK

-----------------------------------------------------------------------------
(***************************************************************************)
(* The monitors on a ticker.                                               *)
(***************************************************************************)
AlertSent == [key: Mon!Key, at: Nat, start: Nat]
FundingTrade == [loop: Mon!Loop, item: Alert, step: {"size", "send", "placed", "failed"}]

MonShape ==
  /\ mon_kind \in {"funding", "aave", "alloc"} /\ mon_cur \in 0 .. MaxStart
  /\ mon_told \subseteq 1 .. mon_cur /\ mon_now \in 1 .. LastTime
  /\ mon_pc \in [Mon!Loop -> {"none", "begin", "wait", "fetch", "publish", "act", "gone"}]
  /\ mon_listens \in [Mon!Loop -> Mon!Loop] /\ mon_cfg \in [Mon!Loop -> Mon!Loop]
  /\ mon_hand \in [Mon!Loop -> SUBSET Mon!Key]
  /\ mon_at \in [Mon!Loop -> 0 .. LastTime]
  /\ mon_quota \in [Mon!Loop -> 0 .. MaxNotify]
  /\ mon_shown \in [cfg: 0 .. mon_cur, error: BOOLEAN]
  /\ mon_last \in [Mon!Key -> 0 .. LastTime]
  /\ mon_sent \in Seq(AlertSent) /\ mon_trades \in Seq(FundingTrade)
  /\ mon_sent # <<>> => mon_kind = "aave"
  /\ mon_trades # <<>> => mon_kind = "funding"

\* A loop is there for each Start so far, its round uses a configuration of
\* one of them, and it acts on what it saw at a time that has been.
LoopsNumbered ==
  /\ mon_active => mon_cur > 0
  /\ \A i \in Mon!Loop : /\ mon_pc[i] = "none" <=> i > mon_cur
                         /\ mon_cfg[i] <= IF i <= mon_cur THEN mon_cur ELSE i
                         /\ mon_pc[i] = "act" => mon_at[i] > 0

\* The orders made and the alerts that may still become orders are within
\* the bound.
OrdersBounded ==
  mon_kind = "funding" => Len(mon_trades) + Cardinality(Mon!Coming) <= MaxTrade

\* The memory of alerts is as young as what was sent under this Start.
AlertsRemembered ==
  \A m \in DOMAIN mon_sent :
    /\ mon_sent[m].start <= mon_cur
    /\ mon_sent[m].start = mon_cur =>
         /\ mon_last[mon_sent[m].key] # 0
         /\ mon_sent[m].at <= mon_last[mon_sent[m].key]

MonInv == MonShape /\ LoopsNumbered /\ OrdersBounded /\ AlertsRemembered /\ Mon!AlertsSpaced

LEMMA MonConstants ==
  /\ AlertCool \in Nat /\ MaxNotify \in Nat /\ IsFiniteSet(Alert)
  /\ MaxStart \in Nat /\ LastTime \in Nat /\ LastTime > 0 /\ MaxTrade \in Nat
  <1>1. Mon!IsFiniteSet(Alert) = IsFiniteSet(Alert)
    BY DEF Mon!IsFiniteSet, IsFiniteSet
  <1>2. QED
    BY <1>1, SafetyAssumption DEF Mon!CoolAssumption, Mon!BoundAssumption

LEMMA MonCardinality == \A S : Mon!Cardinality(S) = Cardinality(S)
  BY DEF Mon!Cardinality, Cardinality

LEMMA ComingFinite == IsFiniteSet(Mon!Coming) /\ IsFiniteSet(Mon!Loop \X Alert)
  <1>1. IsFiniteSet(Mon!Loop)
    BY MonConstants, FS_Interval DEF Mon!Loop
  <1>2. IsFiniteSet(Mon!Loop \X Alert)
    BY <1>1, MonConstants, FS_Product
  <1>3. Mon!Coming \subseteq Mon!Loop \X Alert
    BY DEF Mon!Coming
  <1>4. QED
    BY <1>2, <1>3, FS_Subset

LEMMA MonStart == AllInit => MonInv
  <1> SUFFICES ASSUME AllInit PROVE MonInv
    OBVIOUS
  <1> USE MonConstants
  <1>1. /\ mon_kind \in {"funding", "aave", "alloc"} /\ mon_cur = 0 /\ mon_told = {}
        /\ mon_pc = [i \in Mon!Loop |-> "none"] /\ mon_listens = [i \in Mon!Loop |-> i]
        /\ mon_cfg = [i \in Mon!Loop |-> i] /\ mon_hand = [i \in Mon!Loop |-> {}]
        /\ mon_at = [i \in Mon!Loop |-> 0] /\ mon_quota = [i \in Mon!Loop |-> 0]
        /\ mon_shown = [cfg |-> 0, error |-> FALSE] /\ mon_last = [k \in Mon!Key |-> 0]
        /\ mon_sent = <<>> /\ mon_trades = <<>> /\ mon_now = 1 /\ mon_active = FALSE
    BY DEF AllInit, Mon!Init
  <1>2. mon_sent \in Seq(AlertSent) /\ mon_trades \in Seq(FundingTrade) /\ DOMAIN mon_sent = {}
        /\ Len(mon_trades) = 0
    BY <1>1
  <1>3. MonShape
    BY <1>1, <1>2 DEF MonShape
  <1>4. LoopsNumbered
    BY <1>1 DEF LoopsNumbered, Mon!Loop
  <1>5. Mon!Coming = {}
    BY <1>1 DEF Mon!Coming
  <1>6. OrdersBounded
    BY <1>2, <1>5, FS_EmptySet DEF OrdersBounded
  <1>7. AlertsRemembered /\ Mon!AlertsSpaced
    BY <1>2 DEF AlertsRemembered, Mon!AlertsSpaced
  <1>8. QED
    BY <1>3, <1>4, <1>6, <1>7 DEF MonInv

LEMMA ComingShrinks ==
  ASSUME MonInv, Mon!Coming' \subseteq Mon!Coming, UNCHANGED <<mon_kind, mon_trades>>
  PROVE  OrdersBounded'
  <1>1. /\ IsFiniteSet(Mon!Coming) /\ IsFiniteSet(Mon!Coming')
        /\ Cardinality(Mon!Coming') <= Cardinality(Mon!Coming)
    BY ComingFinite, FS_Subset
  <1>2. Cardinality(Mon!Coming') \in Nat /\ Cardinality(Mon!Coming) \in Nat
    BY <1>1, FS_CardinalityType
  <1>3. Len(mon_trades) \in Nat
    BY DEF MonInv, MonShape
  <1>4. QED
    BY <1>1, <1>2, <1>3, MonConstants DEF MonInv, OrdersBounded

LEMMA AlertRow ==
  ASSUME MonShape, NEW m \in DOMAIN mon_sent
  PROVE  /\ mon_sent[m] \in AlertSent /\ mon_sent[m].key \in Mon!Key
         /\ mon_sent[m].at \in Nat /\ mon_sent[m].start \in Nat
  <1>1. mon_sent[m] \in AlertSent
    BY DEF MonShape
  <1>2. QED
    BY <1>1 DEF AlertSent

\* A step that alerts and orders nothing.
LEMMA MonQuiet ==
  ASSUME MonInv, MonShape', LoopsNumbered', Mon!Coming' \subseteq Mon!Coming,
         UNCHANGED <<mon_kind, mon_cur, mon_last, mon_sent, mon_trades>>
  PROVE  MonInv'
  <1>1. OrdersBounded'
    BY ComingShrinks
  <1>2. AlertsRemembered' /\ Mon!AlertsSpaced'
    BY DEF MonInv, AlertsRemembered, Mon!AlertsSpaced
  <1>3. QED
    BY <1>1, <1>2 DEF MonInv

LEMMA MonTimeKeeps == ASSUME MonInv, Mon!Advance \/ Mon!StopMonitor PROVE MonInv'
  <1> USE MonConstants
  <1>1. UNCHANGED <<mon_kind, mon_cur, mon_pc, mon_listens, mon_cfg, mon_hand, mon_at,
                    mon_quota, mon_shown, mon_last, mon_sent, mon_trades>>
    BY DEF Mon!Advance, Mon!StopMonitor
  <1>2. /\ mon_told' \subseteq 1 .. mon_cur /\ mon_now' \in 1 .. LastTime
        /\ mon_active' => mon_active
    <2>1. CASE Mon!Advance
      BY <2>1 DEF Mon!Advance, MonInv, MonShape
    <2>2. CASE Mon!StopMonitor
      <3>1. mon_cur \in 1 .. mon_cur
        BY <2>2 DEF Mon!StopMonitor, MonInv, MonShape, LoopsNumbered
      <3>2. QED
        BY <2>2, <3>1 DEF Mon!StopMonitor, MonInv, MonShape
    <2>3. QED
      BY <2>1, <2>2
  <1>3. MonShape'
    BY <1>1, <1>2 DEF MonInv, MonShape
  <1>4. LoopsNumbered' /\ Mon!Coming' \subseteq Mon!Coming
    BY <1>1, <1>2 DEF MonInv, LoopsNumbered, Mon!Coming
  <1>5. QED
    BY <1>1, <1>3, <1>4, MonQuiet

\* A Start: nothing was alerted under it, whatever the loop it replaces holds.
LEMMA MonStartKeeps == ASSUME MonInv, Mon!StartMonitor PROVE MonInv'
  <1> USE MonConstants
  <1>1. /\ mon_cur' = mon_cur + 1 /\ mon_cur \in Nat /\ mon_cur' \in Mon!Loop
        /\ mon_cur' \in 0 .. MaxStart
    BY DEF Mon!StartMonitor, MonInv, MonShape, Mon!Loop
  <1>2. /\ mon_pc' = [mon_pc EXCEPT ![mon_cur + 1] = "begin"]
        /\ UNCHANGED <<mon_kind, mon_listens, mon_cfg, mon_hand, mon_at, mon_quota, mon_sent,
                       mon_trades, mon_now>>
    BY DEF Mon!StartMonitor
  <1>3. mon_told' \subseteq 1 .. mon_cur'
    <2>1. CASE mon_active
      <3>1. mon_cur > 0
        BY <2>1 DEF MonInv, LoopsNumbered
      <3>2. mon_told' = mon_told \cup {mon_cur}
        BY <2>1 DEF Mon!StartMonitor
      <3>3. QED
        BY <1>1, <3>1, <3>2 DEF MonInv, MonShape
    <2>2. CASE ~mon_active
      BY <1>1, <2>2 DEF Mon!StartMonitor, MonInv, MonShape
    <2>3. QED
      BY <2>1, <2>2
  <1>4. mon_shown' \in [cfg: 0 .. mon_cur', error: BOOLEAN] /\ mon_last' \in [Mon!Key -> 0 .. LastTime]
    <2>1. CASE mon_kind = "aave"
      <3>1. /\ mon_shown' = [cfg |-> mon_cur', error |-> FALSE]
            /\ mon_last' = [k \in Mon!Key |-> 0] /\ mon_cur' \in 0 .. mon_cur'
        BY <1>1, <2>1 DEF Mon!StartMonitor
      <3>2. QED
        BY <3>1
    <2>2. CASE mon_kind # "aave"
      BY <1>1, <2>2 DEF Mon!StartMonitor, MonInv, MonShape
    <2>3. QED
      BY <2>1, <2>2
  <1>5. MonShape'
    <2>1. mon_pc' \in [Mon!Loop -> {"none", "begin", "wait", "fetch", "publish", "act", "gone"}]
      BY <1>2 DEF MonInv, MonShape
    <2>2. QED
      BY <1>1, <1>2, <1>3, <1>4, <2>1 DEF MonInv, MonShape
  <1>6. LoopsNumbered'
    <2>1. \A i \in Mon!Loop : /\ i > mon_cur' <=> (i > mon_cur /\ i # mon_cur + 1)
                              /\ i = mon_cur + 1 => i > mon_cur
      BY <1>1 DEF Mon!Loop
    <2>7. \A i \in Mon!Loop : mon_cfg[i] \in Nat /\ i \in Nat
      <3>1. Mon!Loop \subseteq Nat
        BY DEF Mon!Loop
      <3>2. QED
        BY <3>1 DEF MonInv, MonShape
    <2>2. \A i \in Mon!Loop : mon_pc'[i] = IF i = mon_cur + 1 THEN "begin" ELSE mon_pc[i]
      BY <1>2 DEF MonInv, MonShape
    <2>3. \A i \in Mon!Loop : mon_pc'[i] = "none" <=> i > mon_cur'
      <3>1. \A i \in Mon!Loop : mon_pc[i] = "none" <=> i > mon_cur
        BY DEF MonInv, LoopsNumbered
      <3>2. QED
        BY <2>1, <2>2, <3>1
    <2>4. \A i \in Mon!Loop : mon_pc'[i] = "act" => mon_at'[i] > 0
      BY <1>2, <2>2 DEF MonInv, LoopsNumbered
    <2>5. \A i \in Mon!Loop : mon_cfg[i] <= IF i <= mon_cur' THEN mon_cur' ELSE i
      <3>1. \A i \in Mon!Loop : mon_cfg[i] <= IF i <= mon_cur THEN mon_cur ELSE i
        BY DEF MonInv, LoopsNumbered
      <3>2. QED
        BY <1>1, <2>7, <3>1
    <2>6. QED
      BY <1>1, <1>2, <2>3, <2>4, <2>5 DEF LoopsNumbered
  <1>7. OrdersBounded'
    BY <1>2, ComingShrinks DEF Mon!Coming
  <1>8. AlertsRemembered' /\ Mon!AlertsSpaced'
    <2>1. \A m \in DOMAIN mon_sent : mon_sent[m].start \in Nat
      BY AlertRow DEF MonInv
    <2>2. \A m \in DOMAIN mon_sent : mon_sent[m].start <= mon_cur
      BY DEF MonInv, AlertsRemembered
    <2>3. \A m \in DOMAIN mon_sent : mon_sent[m].start <= mon_cur' /\ mon_sent[m].start # mon_cur'
      BY <1>1, <2>1, <2>2
    <2>4. QED
      BY <1>2, <2>3 DEF MonInv, AlertsRemembered, Mon!AlertsSpaced
  <1>9. QED
    BY <1>5, <1>6, <1>7, <1>8 DEF MonInv

\* A loop that is there has its number among the Starts.
LEMMA MonNumbered ==
  ASSUME MonInv, NEW i \in Mon!Loop, mon_pc[i] # "none"
  PROVE  i <= mon_cur /\ mon_cur \in Mon!Loop /\ mon_cur <= mon_cur /\ mon_cfg[i] <= mon_cur
  <1>1. ~(i > mon_cur)
    BY DEF MonInv, LoopsNumbered
  <1>2. i <= mon_cur /\ mon_cur \in Mon!Loop /\ mon_cur <= mon_cur
    BY <1>1, MonConstants DEF MonInv, MonShape, Mon!Loop
  <1>3. QED
    BY <1>2 DEF MonInv, LoopsNumbered

\* One loop moves.
LEMMA MonLoopMoves ==
  ASSUME MonInv, NEW i \in Mon!Loop, mon_pc[i] # "none", mon_pc'[i] # "none",
         \A j \in Mon!Loop \ {i} :
           mon_pc'[j] = mon_pc[j] /\ mon_cfg'[j] = mon_cfg[j] /\ mon_at'[j] = mon_at[j],
         mon_cfg'[i] <= mon_cur, mon_pc'[i] = "act" => mon_at'[i] > 0,
         UNCHANGED <<mon_active, mon_cur>>
  PROVE  LoopsNumbered'
  <1>1. i <= mon_cur /\ ~(i > mon_cur)
    BY MonNumbered DEF MonInv, LoopsNumbered
  <1>2. ASSUME NEW j \in Mon!Loop
        PROVE  /\ mon_pc'[j] = "none" <=> j > mon_cur
               /\ mon_cfg'[j] <= IF j <= mon_cur THEN mon_cur ELSE j
               /\ mon_pc'[j] = "act" => mon_at'[j] > 0
    <2>1. CASE j = i
      BY <1>1, <2>1
    <2>2. CASE j # i
      BY <2>2 DEF MonInv, LoopsNumbered
    <2>3. QED
      BY <2>1, <2>2
  <1>3. QED
    BY <1>2 DEF MonInv, LoopsNumbered

\* A loop ticks, is told to end, or reads its configuration.
LEMMA MonTickKeeps ==
  ASSUME MonInv, NEW i \in Mon!Loop, Mon!Tick(i) \/ Mon!LoopEnds(i) \/ Mon!Begin(i)
  PROVE  MonInv'
  <1> USE MonConstants
  <1>1. PICK to \in {"begin", "gone", "fetch"} : mon_pc' = [mon_pc EXCEPT ![i] = to]
    BY DEF Mon!Tick, Mon!LoopEnds, Mon!Begin
  <1>2. /\ mon_pc[i] # "none"
        /\ UNCHANGED <<mon_kind, mon_active, mon_cur, mon_told, mon_listens, mon_hand, mon_at,
                       mon_quota, mon_shown, mon_last, mon_sent, mon_trades, mon_now>>
    BY DEF Mon!Tick, Mon!LoopEnds, Mon!Begin
  <1>3. /\ i <= mon_cur /\ mon_cur \in Mon!Loop /\ mon_cur <= mon_cur /\ mon_cfg[i] <= mon_cur
        /\ mon_cfg \in [Mon!Loop -> Mon!Loop]
    BY <1>2, MonNumbered DEF MonInv, MonShape
  <1>4. /\ mon_cfg' \in [Mon!Loop -> Mon!Loop] /\ mon_cfg'[i] <= mon_cur
        /\ \A j \in Mon!Loop \ {i} : mon_cfg'[j] = mon_cfg[j]
    BY <1>3 DEF Mon!Tick, Mon!LoopEnds, Mon!Begin
  <1>5. /\ mon_pc' \in [Mon!Loop -> {"none", "begin", "wait", "fetch", "publish", "act", "gone"}]
        /\ mon_pc'[i] \notin {"none", "act"} /\ \A j \in Mon!Loop \ {i} : mon_pc'[j] = mon_pc[j]
    BY <1>1 DEF MonInv, MonShape
  <1>6. MonShape'
    BY <1>2, <1>4, <1>5 DEF MonInv, MonShape
  <1>7. LoopsNumbered'
    BY <1>2, <1>4, <1>5, MonLoopMoves
  <1>8. Mon!Coming' \subseteq Mon!Coming
    BY <1>2 DEF Mon!Coming
  <1>9. QED
    BY <1>2, <1>6, <1>7, <1>8, MonQuiet

\* A loop is back at its ticker, after its round or for want of an answer.
LEMMA MonWaitKeeps ==
  ASSUME MonInv, NEW i \in Mon!Loop, mon_pc[i] # "none", Mon!Wait(i),
         UNCHANGED <<mon_kind, mon_active, mon_cur, mon_told, mon_cfg, mon_shown, mon_last,
                     mon_sent, mon_trades, mon_now>>
  PROVE  MonInv'
  <1> USE MonConstants
  <1>1. /\ i <= mon_cur /\ mon_cur \in Mon!Loop /\ mon_cfg[i] <= mon_cur
        /\ 0 \in 0 .. LastTime /\ 0 \in 0 .. MaxNotify
    BY MonNumbered
  <1>2. PICK l \in Mon!Loop : mon_listens' = [mon_listens EXCEPT ![i] = l]
    BY <1>1 DEF Mon!Wait
  <1>3. /\ mon_pc' = [mon_pc EXCEPT ![i] = "wait"] /\ mon_hand' = [mon_hand EXCEPT ![i] = {}]
        /\ mon_at' = [mon_at EXCEPT ![i] = 0] /\ mon_quota' = [mon_quota EXCEPT ![i] = 0]
    BY DEF Mon!Wait
  <1>4. MonShape'
    BY <1>1, <1>2, <1>3 DEF MonInv, MonShape
  <1>5. LoopsNumbered'
    <2>1. /\ mon_pc'[i] = "wait"
          /\ \A j \in Mon!Loop \ {i} : mon_pc'[j] = mon_pc[j] /\ mon_at'[j] = mon_at[j]
      BY <1>3 DEF MonInv, MonShape
    <2>2. QED
      BY <1>1, <2>1, MonLoopMoves
  <1>6. Mon!Coming' \subseteq Mon!Coming
    BY <1>3 DEF Mon!Coming, MonInv, MonShape
  <1>7. QED
    BY <1>4, <1>5, <1>6, MonQuiet

\* What a fetch found: alerts, of which funding takes as many as may become
\* orders, or a failure that the Aave monitor reports.
LEMMA MonFetchKeeps ==
  ASSUME MonInv, NEW i \in Mon!Loop, Mon!Fetch(i) PROVE MonInv'
  <1> USE MonConstants
  <1>1. PICK alerts \in SUBSET Alert :
          /\ mon_kind = "funding" => Len(mon_trades) + Mon!Cardinality(Mon!Coming)
                                       + Mon!Cardinality(alerts) <= MaxTrade
          /\ mon_hand' = [mon_hand EXCEPT ![i] = alerts]
    BY DEF Mon!Fetch
  <1>2. /\ mon_pc[i] = "fetch" /\ mon_pc' = [mon_pc EXCEPT ![i] = "publish"]
        /\ UNCHANGED <<mon_kind, mon_active, mon_cur, mon_told, mon_cfg, mon_listens, mon_at,
                       mon_quota, mon_shown, mon_last, mon_sent, mon_trades, mon_now>>
    BY DEF Mon!Fetch
  <1>3. mon_cfg[i] <= mon_cur
    BY <1>2, MonNumbered
  <1>4. MonShape'
    <2>1. mon_hand' \in [Mon!Loop -> SUBSET Mon!Key]
      BY <1>1 DEF MonInv, MonShape, Mon!Key
    <2>2. mon_pc' \in [Mon!Loop -> {"none", "begin", "wait", "fetch", "publish", "act", "gone"}]
      BY <1>2 DEF MonInv, MonShape
    <2>3. QED
      BY <1>2, <2>1, <2>2 DEF MonInv, MonShape
  <1>5. LoopsNumbered'
    <2>1. /\ mon_pc'[i] = "publish" /\ \A j \in Mon!Loop \ {i} : mon_pc'[j] = mon_pc[j]
      BY <1>2 DEF MonInv, MonShape
    <2>2. QED
      BY <1>2, <1>3, <2>1, MonLoopMoves
  <1>6. OrdersBounded'
    <2> DEFINE found == {i} \X alerts
    <2>1. /\ IsFiniteSet(Mon!Coming) /\ IsFiniteSet(found)
          /\ IsFiniteSet(Mon!Coming') /\ IsFiniteSet(Mon!Coming \cup found)
          /\ Cardinality(found) = Cardinality(alerts)
          /\ Cardinality(alerts) \in Nat
      <3>1. IsFiniteSet(alerts) /\ IsFiniteSet({i}) /\ Cardinality({i}) = 1
        BY FS_Subset, FS_Singleton
      <3>2. IsFiniteSet(found) /\ Cardinality(found) = Cardinality({i}) * Cardinality(alerts)
        BY <3>1, FS_Product
      <3>3. Cardinality(alerts) \in Nat
        BY <3>1, FS_CardinalityType
      <3>4. IsFiniteSet(Mon!Coming) /\ IsFiniteSet(Mon!Coming')
        <4>1. Mon!Coming' \subseteq Mon!Loop \X Alert
          BY DEF Mon!Coming
        <4>2. QED
          BY <4>1, ComingFinite, FS_Subset
      <3>5. IsFiniteSet(Mon!Coming \cup found)
        BY <3>2, <3>4, FS_Union
      <3>6. QED
        BY <3>1, <3>2, <3>3, <3>4, <3>5
    <2>2. Mon!Coming' \subseteq Mon!Coming \cup found
      <3>1. ASSUME NEW p \in Mon!Coming' PROVE p \in Mon!Coming \cup found
        <4>1. p \in Mon!Loop \X Alert /\ p[2] \in mon_hand'[p[1]] /\ p[1] \in Mon!Loop
          BY DEF Mon!Coming
        <4>2. CASE p[1] = i
          <5>1. p[2] \in alerts /\ p = <<i, p[2]>>
            BY <1>1, <4>1, <4>2 DEF MonInv, MonShape
          <5>2. QED
            BY <5>1
        <4>3. CASE p[1] # i
          <5>1. p[2] \in mon_hand[p[1]]
            BY <1>1, <4>1, <4>3 DEF MonInv, MonShape
          <5>2. QED
            BY <4>1, <5>1 DEF Mon!Coming
        <4>4. QED
          BY <4>2, <4>3
      <3>2. QED
        BY <3>1
    <2> HIDE DEF found
    <2>3. Cardinality(Mon!Coming') <= Cardinality(Mon!Coming \cup found)
      BY <2>1, <2>2, FS_Subset
    <2>4. Cardinality(Mon!Coming \cup found)
            = Cardinality(Mon!Coming) + Cardinality(found) - Cardinality(Mon!Coming \cap found)
      BY <2>1, FS_Union
    <2>5. Cardinality(Mon!Coming \cap found) \in Nat
      BY <2>1, FS_Intersection, FS_CardinalityType
    <2>6. /\ Cardinality(Mon!Coming) \in Nat /\ Cardinality(Mon!Coming') \in Nat
          /\ Cardinality(found) \in Nat /\ Len(mon_trades) \in Nat
      BY <2>1, FS_CardinalityType DEF MonInv, MonShape
    <2>7. mon_kind = "funding" => Len(mon_trades) + Cardinality(Mon!Coming)
                                       + Cardinality(alerts) <= MaxTrade
      BY <1>1, MonCardinality
    <2> DEFINE a == Cardinality(Mon!Coming)
               b == Cardinality(Mon!Coming')
               c == Cardinality(found)
               d == Cardinality(Mon!Coming \cap found)
               e == Cardinality(Mon!Coming \cup found)
               n == Len(mon_trades)
    <2>8. /\ a \in Nat /\ b \in Nat /\ c \in Nat /\ d \in Nat /\ n \in Nat
          /\ b <= e /\ e = a + c - d
          /\ mon_kind = "funding" => n + a + c <= MaxTrade
      BY <2>1, <2>3, <2>4, <2>5, <2>6, <2>7
    <2> HIDE DEF a, b, c, d, e, n
    <2>9. mon_kind = "funding" => n + b <= MaxTrade
      BY <2>8
    <2>10. QED
      BY <1>2, <2>9 DEF OrdersBounded, n, b
  <1>7. AlertsRemembered' /\ Mon!AlertsSpaced'
    BY <1>2 DEF MonInv, AlertsRemembered, Mon!AlertsSpaced
  <1>8. QED
    BY <1>4, <1>5, <1>6, <1>7 DEF MonInv

LEMMA MonFailsKeeps ==
  ASSUME MonInv, NEW i \in Mon!Loop, Mon!FetchFails(i) PROVE MonInv'
  <1> USE MonConstants
  <1>1. /\ mon_pc[i] = "fetch"
        /\ UNCHANGED <<mon_kind, mon_active, mon_cur, mon_told, mon_cfg,
                       mon_shown, mon_last, mon_sent, mon_trades, mon_now>>
    BY DEF Mon!FetchFails
  <1>2. CASE mon_kind = "funding"
    <2>1. Mon!Wait(i)
      BY <1>2 DEF Mon!FetchFails
    <2>2. QED
      BY <1>1, <2>1, MonWaitKeeps
  <1>3. CASE mon_kind # "funding"
    <2>1. /\ mon_hand' = [mon_hand EXCEPT ![i] = {"aave_api_error"}]
          /\ mon_pc' = [mon_pc EXCEPT ![i] = "publish"] /\ UNCHANGED <<mon_listens, mon_at, mon_quota>>
      BY <1>3 DEF Mon!FetchFails
    <2>2. mon_cfg[i] <= mon_cur
      BY <1>1, MonNumbered
    <2>3. MonShape'
      <3>1. mon_hand' \in [Mon!Loop -> SUBSET Mon!Key]
        BY <2>1 DEF MonInv, MonShape, Mon!Key
      <3>2. mon_pc' \in [Mon!Loop -> {"none", "begin", "wait", "fetch", "publish", "act", "gone"}]
        BY <2>1 DEF MonInv, MonShape
      <3>3. QED
        BY <1>1, <2>1, <3>1, <3>2 DEF MonInv, MonShape
    <2>4. LoopsNumbered'
      <3>1. /\ mon_pc'[i] = "publish" /\ \A j \in Mon!Loop \ {i} : mon_pc'[j] = mon_pc[j]
        BY <2>1 DEF MonInv, MonShape
      <3>2. QED
        BY <1>1, <2>1, <2>2, <3>1, MonLoopMoves
    <2>5. OrdersBounded'
      BY <1>1, <1>3 DEF OrdersBounded
    <2>6. AlertsRemembered' /\ Mon!AlertsSpaced'
      BY <1>1 DEF MonInv, AlertsRemembered, Mon!AlertsSpaced
    <2>7. QED
      BY <2>3, <2>4, <2>5, <2>6 DEF MonInv
  <1>4. QED
    BY <1>2, <1>3

\* The snapshot is of a configuration there was, and the alerts are as of now.
LEMMA MonPublishKeeps ==
  ASSUME MonInv, NEW i \in Mon!Loop, Mon!Publish(i) PROVE MonInv'
  <1> USE MonConstants
  <1>1. /\ mon_pc[i] = "publish" /\ mon_pc' = [mon_pc EXCEPT ![i] = "act"]
        /\ mon_at' = [mon_at EXCEPT ![i] = mon_now]
        /\ mon_quota' = [mon_quota EXCEPT ![i] = MaxNotify]
        /\ UNCHANGED <<mon_kind, mon_active, mon_cur, mon_told, mon_listens, mon_cfg, mon_hand,
                       mon_last, mon_sent, mon_trades, mon_now>>
    BY DEF Mon!Publish
  <1>2. mon_now \in 0 .. LastTime /\ mon_now > 0 /\ MaxNotify \in 0 .. MaxNotify
    BY DEF MonInv, MonShape
  <1>3. mon_cfg[i] <= mon_cur /\ mon_cfg[i] \in 0 .. mon_cur
    <2>1. mon_cfg[i] <= mon_cur
      BY <1>1, MonNumbered
    <2>2. Mon!Loop \subseteq Nat
      BY DEF Mon!Loop
    <2>3. mon_cfg[i] \in Mon!Loop /\ mon_cur \in Nat
      BY DEF MonInv, MonShape
    <2>4. mon_cfg[i] \in Nat
      BY <2>2, <2>3
    <2>5. QED
      BY <2>1, <2>3, <2>4
  <1>4. mon_shown' \in [cfg: 0 .. mon_cur, error: BOOLEAN]
    BY <1>3 DEF Mon!Publish
  <1>5. MonShape'
    <2>1. /\ mon_pc' \in [Mon!Loop -> {"none", "begin", "wait", "fetch", "publish", "act", "gone"}]
          /\ mon_at' \in [Mon!Loop -> 0 .. LastTime] /\ mon_quota' \in [Mon!Loop -> 0 .. MaxNotify]
      BY <1>1, <1>2 DEF MonInv, MonShape
    <2>2. QED
      BY <1>1, <1>4, <2>1 DEF MonInv, MonShape
  <1>6. LoopsNumbered'
    <2>1. /\ mon_pc'[i] = "act" /\ mon_at'[i] > 0
          /\ \A j \in Mon!Loop \ {i} : mon_pc'[j] = mon_pc[j] /\ mon_at'[j] = mon_at[j]
      BY <1>1, <1>2 DEF MonInv, MonShape
    <2>2. QED
      BY <1>1, <1>3, <2>1, MonLoopMoves
  <1>7. Mon!Coming' \subseteq Mon!Coming
    BY <1>1 DEF Mon!Coming
  <1>8. QED
    BY <1>1, <1>5, <1>6, <1>7, MonQuiet

\* Under the mutex an alert is sent only if the one remembered has cooled; the
\* one remembered is as young as any sent under this Start.
LEMMA MonSendKeeps ==
  ASSUME MonInv, NEW i \in Mon!Loop, NEW k \in Mon!Key, Mon!SendAlert(i, k) PROVE MonInv'
  <1> USE MonConstants
  <1>1. /\ mon_pc[i] = "act" /\ mon_kind = "aave" /\ mon_quota[i] > 0
        /\ mon_hand' = [mon_hand EXCEPT ![i] = @ \ {k}]
        /\ UNCHANGED <<mon_kind, mon_active, mon_cur, mon_told, mon_pc, mon_listens, mon_cfg,
                       mon_at, mon_shown, mon_trades, mon_now>>
    BY DEF Mon!SendAlert
  <1>2. /\ mon_hand' \in [Mon!Loop -> SUBSET Mon!Key]
        /\ LoopsNumbered' /\ OrdersBounded' /\ Mon!Coming' \subseteq Mon!Coming
    <2>1. /\ mon_hand' \in [Mon!Loop -> SUBSET Mon!Key]
          /\ \A j \in Mon!Loop : mon_hand'[j] \subseteq mon_hand[j]
      BY <1>1 DEF MonInv, MonShape
    <2>2. Mon!Coming' \subseteq Mon!Coming
      BY <2>1 DEF Mon!Coming
    <2>3. QED
      BY <1>1, <2>1, <2>2, ComingShrinks DEF MonInv, LoopsNumbered
  <1>3. CASE UNCHANGED <<mon_last, mon_quota, mon_sent>>
    <2>1. MonShape'
      BY <1>1, <1>2, <1>3 DEF MonInv, MonShape
    <2>2. QED
      BY <1>1, <1>2, <1>3, <2>1, MonQuiet
  <1>4. CASE Mon!ShouldSend(i, k)
    <2> DEFINE t == mon_at[i]
               r == [key |-> k, at |-> mon_at[i], start |-> mon_cur]
    <2>1. /\ mon_last' = [mon_last EXCEPT ![k] = t]
          /\ mon_quota' = [mon_quota EXCEPT ![i] = @ - 1]
          /\ mon_sent' = Append(mon_sent, r)
          /\ mon_last[k] # 0 => t >= mon_last[k] + AlertCool
      BY <1>4 DEF Mon!SendAlert, Mon!ShouldSend
    <2>2. /\ t \in 0 .. LastTime /\ t > 0 /\ mon_last \in [Mon!Key -> 0 .. LastTime]
          /\ mon_cur \in Nat /\ mon_sent \in Seq(AlertSent)
      BY <1>1 DEF MonInv, MonShape, LoopsNumbered
    <2>3. r \in AlertSent /\ r.key = k /\ r.at = t /\ r.start = mon_cur
      BY <2>2 DEF AlertSent
    <2> HIDE DEF r, t
    <2>4. /\ DOMAIN mon_sent' = 1 .. Len(mon_sent) + 1 /\ DOMAIN mon_sent = 1 .. Len(mon_sent)
          /\ Len(mon_sent) \in Nat /\ mon_sent' \in Seq(AlertSent) /\ mon_sent' # <<>>
          /\ \A m \in 1 .. Len(mon_sent) : mon_sent'[m] = mon_sent[m]
          /\ mon_sent'[Len(mon_sent) + 1] = r
      BY <2>1, <2>2, <2>3
    <2>5. mon_last' \in [Mon!Key -> 0 .. LastTime] /\ mon_last'[k] = t
          /\ \A q \in Mon!Key : q # k => mon_last'[q] = mon_last[q]
      BY <2>1, <2>2
    <2>6. MonShape'
      <3>1. mon_quota' \in [Mon!Loop -> 0 .. MaxNotify]
        <4>1. mon_quota[i] - 1 \in 0 .. MaxNotify
          BY <1>1 DEF MonInv, MonShape
        <4>2. QED
          BY <2>1, <4>1 DEF MonInv, MonShape
      <3>2. QED
        BY <1>1, <1>2, <2>4, <2>5, <3>1 DEF MonInv, MonShape
    <2>7. \A m \in DOMAIN mon_sent : /\ mon_sent[m].key \in Mon!Key /\ mon_sent[m].at \in Nat
                                     /\ mon_sent[m].start <= mon_cur
      BY AlertRow DEF MonInv, AlertsRemembered
    <2>8. \A m \in DOMAIN mon_sent : mon_sent[m].start = mon_cur /\ mon_sent[m].key = k =>
            mon_sent[m].at + AlertCool <= t /\ mon_sent[m].at <= t
      <3>1. ASSUME NEW m \in DOMAIN mon_sent, mon_sent[m].start = mon_cur, mon_sent[m].key = k
            PROVE  mon_sent[m].at + AlertCool <= t /\ mon_sent[m].at <= t
        <4>1. mon_last[k] # 0 /\ mon_sent[m].at <= mon_last[k]
          BY <3>1 DEF MonInv, AlertsRemembered
        <4>2. t >= mon_last[k] + AlertCool /\ mon_last[k] \in Nat /\ t \in Nat
              /\ mon_sent[m].at \in Nat
          BY <2>1, <2>2, <2>7, <4>1
        <4>3. QED
          BY <4>1, <4>2
      <3>2. QED
        BY <3>1
    <2>9. AlertsRemembered'
      <3>1. ASSUME NEW m \in DOMAIN mon_sent'
            PROVE  /\ mon_sent'[m].start <= mon_cur
                   /\ mon_sent'[m].start = mon_cur => /\ mon_last'[mon_sent'[m].key] # 0
                                                      /\ mon_sent'[m].at <= mon_last'[mon_sent'[m].key]
        <4>1. CASE m = Len(mon_sent) + 1
          BY <2>2, <2>3, <2>4, <2>5, <4>1
        <4>2. CASE m \in DOMAIN mon_sent
          <5>1. mon_sent'[m] = mon_sent[m]
            BY <2>4, <4>2
          <5>2. CASE mon_sent[m].key = k
            BY <2>2, <2>5, <2>7, <2>8, <4>2, <5>1, <5>2
          <5>3. CASE mon_sent[m].key # k
            <6>1. mon_last'[mon_sent[m].key] = mon_last[mon_sent[m].key]
              BY <2>5, <2>7, <4>2, <5>3
            <6>2. QED
              BY <4>2, <5>1, <6>1 DEF MonInv, AlertsRemembered
          <5>4. QED
            BY <5>2, <5>3
        <4>3. QED
          BY <2>4, <4>1, <4>2
      <3>2. QED
        BY <1>1, <3>1 DEF AlertsRemembered
    <2>10. Mon!AlertsSpaced'
      <3>1. ASSUME NEW m \in DOMAIN mon_sent', NEW n \in DOMAIN mon_sent', m < n,
                   mon_sent'[m].key = mon_sent'[n].key, mon_sent'[m].start = mon_sent'[n].start
            PROVE  mon_sent'[n].at >= mon_sent'[m].at + AlertCool
        <4>1. m \in DOMAIN mon_sent /\ mon_sent'[m] = mon_sent[m]
          BY <2>4, <3>1
        <4>2. CASE n \in DOMAIN mon_sent
          BY <2>4, <3>1, <4>1, <4>2 DEF MonInv, Mon!AlertsSpaced
        <4>3. CASE n = Len(mon_sent) + 1
          <5>1. mon_sent[m].at + AlertCool <= t /\ mon_sent[m].at \in Nat
            BY <2>3, <2>4, <2>7, <2>8, <3>1, <4>1, <4>3
          <5>2. mon_sent'[n].at = t
            BY <2>3, <2>4, <4>3
          <5>3. QED
            BY <2>2, <4>1, <5>1, <5>2
        <4>4. QED
          BY <2>4, <4>2, <4>3
      <3>2. QED
        BY <3>1 DEF Mon!AlertsSpaced
    <2>11. QED
      BY <1>2, <2>6, <2>9, <2>10 DEF MonInv
  <1>5. QED
    BY <1>3, <1>4 DEF Mon!SendAlert

\* An alert becomes an order.
LEMMA MonTradeKeeps ==
  ASSUME MonInv, NEW i \in Mon!Loop, NEW x \in Alert, Mon!GoTrade(i, x) PROVE MonInv'
  <1> USE MonConstants
  <1> DEFINE r == [loop |-> i, item |-> x, step |-> "size"]
             p == <<i, x>>
  <1>1. /\ mon_kind = "funding" /\ x \in mon_hand[i]
        /\ mon_hand' = [mon_hand EXCEPT ![i] = @ \ {x}]
        /\ mon_trades' = Append(mon_trades, r)
        /\ UNCHANGED <<mon_kind, mon_active, mon_cur, mon_told, mon_pc, mon_listens, mon_cfg,
                       mon_at, mon_quota, mon_shown, mon_last, mon_sent, mon_now>>
    BY DEF Mon!GoTrade
  <1>2. r \in FundingTrade
    BY DEF FundingTrade
  <1>3. mon_trades \in Seq(FundingTrade)
    BY DEF MonInv, MonShape
  <1> HIDE DEF r
  <1>4. /\ mon_trades' \in Seq(FundingTrade) /\ Len(mon_trades') = Len(mon_trades) + 1
        /\ Len(mon_trades) \in Nat
    BY <1>1, <1>2, <1>3
  <1>5. /\ mon_hand' \in [Mon!Loop -> SUBSET Mon!Key]
        /\ \A j \in Mon!Loop : mon_hand'[j] = mon_hand[j] \ (IF j = i THEN {x} ELSE {})
    BY <1>1 DEF MonInv, MonShape
  <1>6. MonShape'
    BY <1>1, <1>4, <1>5 DEF MonInv, MonShape
  <1>7. LoopsNumbered'
    BY <1>1 DEF MonInv, LoopsNumbered
  <1>8. p \in Mon!Coming /\ Mon!Coming' \subseteq Mon!Coming \ {p}
    <2>1. p \in Mon!Coming
      BY <1>1 DEF Mon!Coming
    <2>2. ASSUME NEW q \in Mon!Coming' PROVE q \in Mon!Coming \ {p}
      <3>1. q \in Mon!Loop \X Alert /\ q[2] \in mon_hand'[q[1]] /\ q[1] \in Mon!Loop
        BY DEF Mon!Coming
      <3>2. q[2] \in mon_hand[q[1]] /\ (q[1] = i => q[2] # x)
        BY <1>5, <3>1
      <3>3. QED
        BY <3>1, <3>2 DEF Mon!Coming
    <2>3. QED
      BY <2>1, <2>2
  <1> HIDE DEF p
  <1>9. /\ IsFiniteSet(Mon!Coming \ {p})
        /\ Cardinality(Mon!Coming \ {p}) = Cardinality(Mon!Coming) - 1
    BY <1>8, ComingFinite, FS_RemoveElement
  <1>10. /\ IsFiniteSet(Mon!Coming') /\ Cardinality(Mon!Coming') <= Cardinality(Mon!Coming) - 1
    BY <1>8, <1>9, FS_Subset
  <1>11. OrdersBounded'
    <2>1. Cardinality(Mon!Coming) \in Nat /\ Cardinality(Mon!Coming') \in Nat
      BY <1>10, ComingFinite, FS_CardinalityType
    <2>2. Len(mon_trades) + Cardinality(Mon!Coming) <= MaxTrade
      BY <1>1 DEF MonInv, OrdersBounded
    <2>3. Len(mon_trades') + Cardinality(Mon!Coming') <= MaxTrade
      BY <1>4, <1>10, <2>1, <2>2
    <2>4. QED
      BY <2>3 DEF OrdersBounded
  <1>12. AlertsRemembered' /\ Mon!AlertsSpaced'
    BY <1>1 DEF MonInv, AlertsRemembered, Mon!AlertsSpaced
  <1>13. QED
    BY <1>6, <1>7, <1>11, <1>12 DEF MonInv

\* An order goes on.
LEMMA MonOrderKeeps ==
  ASSUME MonInv, NEW n \in DOMAIN mon_trades, Mon!TradeStep(n) PROVE MonInv'
  <1> USE MonConstants
  <1>1. PICK to \in {"send", "placed", "failed"} :
          mon_trades' = [mon_trades EXCEPT ![n].step = to]
    BY DEF Mon!TradeStep, Mon!Outcome
  <1>2. UNCHANGED <<mon_kind, mon_active, mon_cur, mon_told, mon_pc, mon_listens, mon_cfg,
                    mon_hand, mon_at, mon_quota, mon_shown, mon_last, mon_sent, mon_now>>
    BY DEF Mon!TradeStep, Mon!Outcome
  <1> DEFINE r == [mon_trades[n] EXCEPT !.step = to]
  <1>3. mon_trades \in Seq(FundingTrade) /\ mon_trades[n] \in FundingTrade
    BY DEF MonInv, MonShape
  <1>4. r \in FundingTrade
    BY <1>3 DEF FundingTrade
  <1>5. mon_trades' = [mon_trades EXCEPT ![n] = r]
    BY <1>1
  <1> HIDE DEF r
  <1>6. /\ mon_trades' \in Seq(FundingTrade) /\ Len(mon_trades') = Len(mon_trades)
        /\ mon_trades' # <<>> => mon_trades # <<>>
    BY <1>3, <1>4, <1>5
  <1>7. MonShape'
    BY <1>2, <1>6 DEF MonInv, MonShape
  <1>8. LoopsNumbered' /\ OrdersBounded' /\ AlertsRemembered' /\ Mon!AlertsSpaced'
    BY <1>2, <1>6 DEF MonInv, LoopsNumbered, OrdersBounded, AlertsRemembered, Mon!AlertsSpaced,
      Mon!Coming
  <1>9. QED
    BY <1>7, <1>8 DEF MonInv

\* Every step keeps the invariant of the monitors.
LEMMA MonKeeps == MonInv /\ [Mon!Next]_monVars => MonInv'
  <1> SUFFICES ASSUME MonInv, [Mon!Next]_monVars PROVE MonInv'
    OBVIOUS
  <1>1. ASSUME UNCHANGED monVars PROVE MonInv'
    BY <1>1 DEF monVars, MonInv, MonShape, LoopsNumbered, OrdersBounded, AlertsRemembered,
      Mon!AlertsSpaced, Mon!Coming
  <1>2. ASSUME NEW i \in Mon!Loop, Mon!RoundEnds(i) PROVE MonInv'
    BY <1>2, MonWaitKeeps DEF Mon!RoundEnds
  <1>3. ASSUME NEW i \in Mon!Loop, Mon!LoopStep(i) PROVE MonInv'
    BY <1>2, <1>3, MonTickKeeps, MonFetchKeeps, MonFailsKeeps, MonPublishKeeps, MonSendKeeps,
      MonTradeKeeps
    DEF Mon!LoopStep
  <1>4. QED
    BY <1>1, <1>3, MonTimeKeeps, MonStartKeeps, MonOrderKeeps DEF Mon!Next

LEMMA MonShows == MonInv => Mon!TypeOK /\ Mon!AlertsSpaced
  <1> SUFFICES ASSUME MonInv PROVE Mon!TypeOK
    BY DEF MonInv
  <1>1. \A i \in Mon!Loop : /\ mon_pc[i] = "none" <=> i > mon_cur
                            /\ mon_listens[i] \in Mon!Loop /\ mon_cfg[i] \in Mon!Loop
                            /\ mon_hand[i] \subseteq Mon!Key /\ mon_quota[i] \in 0 .. MaxNotify
    BY DEF MonInv, MonShape, LoopsNumbered
  <1>2. mon_trades # <<>> => Len(mon_trades) <= MaxTrade
    <2>1. Cardinality(Mon!Coming) \in Nat /\ Len(mon_trades) \in Nat
      BY ComingFinite, FS_CardinalityType DEF MonInv, MonShape
    <2>2. QED
      BY <2>1, MonConstants DEF MonInv, MonShape, OrdersBounded
  <1>3. mon_shown.cfg \in 0 .. mon_cur
    BY DEF MonInv, MonShape
  <1>4. QED
    BY <1>1, <1>2, <1>3 DEF MonInv, MonShape, Mon!TypeOK

-----------------------------------------------------------------------------
(***************************************************************************)
(* The one-minute strategy.                                                *)
(***************************************************************************)
ScalpRow == [active: BOOLEAN, pc: {"gone", "rest", "decide", "close", "open"},
             dir: Scalp!Side \cup {"FLAT"}, plan: Scalp!Signal, trades: 0 .. MaxDailyTrades,
             pnl: Int, today: BOOLEAN, cooling: BOOLEAN]

\* A task past the day's limits is not past its check.
WithinTheDay ==
  \A g \in Scalp!Task :
    scalp_task[g].pc \in {"decide", "close", "open"} => scalp_task[g].trades < MaxDailyTrades

\* While nothing has failed there is one task, and what is held is its own: one
\* entry, on its side, guarded, and it is not about to open another.
AloneAndRight ==
  scalp_failed = 0 =>
    /\ \A g \in Scalp!Task : g # scalp_current => scalp_task[g].pc = "gone"
    /\ \A d \in Scalp!Side : scalp_held[d] > 0 =>
         /\ scalp_held[d] = 1 /\ scalp_current # 0 /\ scalp_task[scalp_current].dir = d
         /\ d \in scalp_guarded /\ scalp_task[scalp_current].pc # "open"

ScalpInv == Scalp!TypeOK /\ WithinTheDay /\ AloneAndRight

LEMMA ScalpConstants ==
  /\ MaxDailyTrades \in Nat /\ LossLimit \in Int /\ Rsi \subseteq Int /\ RsiHigh \in Int
  /\ RsiLow \in Int /\ MaxTask \in Nat /\ MaxHeld \in Nat /\ MaxTrouble \in Nat
  BY SafetyAssumption DEF Scalp!RuleAssumption, Scalp!BoundAssumption

LEMMA ScalpTyped ==
  Scalp!TypeOK <=> /\ scalp_current \in {0} \cup Scalp!Task /\ scalp_running \in BOOLEAN
                   /\ scalp_task \in [Scalp!Task -> ScalpRow]
                   /\ scalp_held \in [Scalp!Side -> 0 .. MaxHeld]
                   /\ scalp_guarded \subseteq Scalp!Side /\ scalp_failed \in 0 .. MaxTrouble
  BY DEF Scalp!TypeOK, ScalpRow

\* A row of which some fields change is a row.
LEMMA ScalpRowMade ==
  ASSUME NEW a \in BOOLEAN, NEW p \in {"gone", "rest", "decide", "close", "open"},
         NEW d \in Scalp!Side \cup {"FLAT"}, NEW s \in Scalp!Signal, NEW n \in 0 .. MaxDailyTrades,
         NEW l \in Int, NEW y \in BOOLEAN, NEW c \in BOOLEAN
  PROVE  [active |-> a, pc |-> p, dir |-> d, plan |-> s, trades |-> n, pnl |-> l,
          today |-> y, cooling |-> c] \in ScalpRow
  BY DEF ScalpRow

LEMMA ScalpRowFields ==
  ASSUME NEW t \in ScalpRow
  PROVE  /\ t.active \in BOOLEAN /\ t.pc \in {"gone", "rest", "decide", "close", "open"}
         /\ t.dir \in Scalp!Side \cup {"FLAT"} /\ t.plan \in Scalp!Signal
         /\ t.trades \in 0 .. MaxDailyTrades /\ t.pnl \in Int
         /\ t.today \in BOOLEAN /\ t.cooling \in BOOLEAN
  BY DEF ScalpRow

LEMMA ScalpNoTask ==
  /\ Scalp!NoTask \in ScalpRow /\ Scalp!NoTask.pc = "gone"
  /\ [Scalp!NoTask EXCEPT !.active = TRUE, !.pc = "rest"] \in ScalpRow
  /\ [Scalp!NoTask EXCEPT !.active = TRUE, !.pc = "rest"].pc = "rest"
  <1> USE ScalpConstants
  <1>1. 0 \in 0 .. MaxDailyTrades /\ 0 \in Int /\ "HOLD" \in Scalp!Signal
    BY DEF Scalp!Signal
  <1>2. /\ Scalp!NoTask.pc = "gone"
        /\ Scalp!NoTask \in ScalpRow
    BY <1>1, ScalpRowMade DEF Scalp!NoTask
  <1>3. \A t \in ScalpRow : /\ [t EXCEPT !.active = TRUE, !.pc = "rest"] \in ScalpRow
                            /\ [t EXCEPT !.active = TRUE, !.pc = "rest"].pc = "rest"
    BY DEF ScalpRow
  <1>4. QED
    BY <1>2, <1>3

LEMMA ScalpStart == AllInit => ScalpInv
  <1> SUFFICES ASSUME AllInit PROVE ScalpInv
    OBVIOUS
  <1> USE ScalpConstants
  <1>1. /\ scalp_current = 0 /\ scalp_running = FALSE
        /\ scalp_task = [g \in Scalp!Task |-> Scalp!NoTask]
        /\ scalp_held = [d \in Scalp!Side |-> 0] /\ scalp_guarded = {} /\ scalp_failed = 0
    BY DEF AllInit, Scalp!Init
  <1>2. Scalp!NoTask \in ScalpRow /\ Scalp!NoTask.pc = "gone"
    BY ScalpNoTask
  <1>3. Scalp!TypeOK
    <2>1. 0 \in 0 .. MaxHeld /\ 0 \in 0 .. MaxTrouble
      OBVIOUS
    <2>2. /\ scalp_task \in [Scalp!Task -> ScalpRow] /\ scalp_held \in [Scalp!Side -> 0 .. MaxHeld]
          /\ scalp_failed \in 0 .. MaxTrouble
      BY <1>1, <1>2, <2>1
    <2>3. QED
      BY <1>1, <2>2, ScalpTyped
  <1>4. WithinTheDay /\ AloneAndRight
    BY <1>1, <1>2 DEF WithinTheDay, AloneAndRight
  <1>5. QED
    BY <1>3, <1>4 DEF ScalpInv

\* A stop, a passing day or a cool-down over: a task keeps all but a flag.
LEMMA ScalpFlagKeeps ==
  ASSUME ScalpInv, scalp_task' \in [Scalp!Task -> ScalpRow],
         \A g \in Scalp!Task : /\ scalp_task'[g].pc = scalp_task[g].pc
                               /\ scalp_task'[g].dir = scalp_task[g].dir
                               /\ scalp_task'[g].trades = scalp_task[g].trades,
         scalp_running' \in BOOLEAN,
         UNCHANGED <<scalp_current, scalp_held, scalp_guarded, scalp_failed>>
  PROVE  ScalpInv'
  <1>1. Scalp!TypeOK'
    BY ScalpTyped DEF ScalpInv, Scalp!TypeOK, ScalpRow
  <1>2. WithinTheDay'
    BY DEF ScalpInv, WithinTheDay
  <1>3. AloneAndRight'
    BY DEF ScalpInv, AloneAndRight, Scalp!TypeOK
  <1>4. QED
    BY <1>1, <1>2, <1>3 DEF ScalpInv

LEMMA ScalpWorldKeeps ==
  ASSUME ScalpInv,
         \/ Scalp!StopScalp \/ Scalp!DayPasses
         \/ \E g \in Scalp!Task : Scalp!CooledDown(g)
  PROVE  ScalpInv'
  <1> USE ScalpConstants
  <1>1. scalp_task \in [Scalp!Task -> ScalpRow]
    BY ScalpTyped DEF ScalpInv
  <1>2. ASSUME Scalp!StopScalp PROVE ScalpInv'
    <2> DEFINE r == [scalp_task[scalp_current] EXCEPT !.active = FALSE]
    <2>1. scalp_task' = [scalp_task EXCEPT ![scalp_current] = r] /\ scalp_current \in Scalp!Task
      BY <1>2 DEF Scalp!StopScalp, ScalpInv, Scalp!TypeOK
    <2>2. /\ r \in ScalpRow /\ r.pc = scalp_task[scalp_current].pc
          /\ r.dir = scalp_task[scalp_current].dir /\ r.trades = scalp_task[scalp_current].trades
      BY <1>1, <2>1 DEF ScalpRow
    <2> HIDE DEF r
    <2>3. scalp_task' \in [Scalp!Task -> ScalpRow]
      BY <1>1, <2>1, <2>2
    <2>4. \A g \in Scalp!Task : /\ scalp_task'[g].pc = scalp_task[g].pc
                                /\ scalp_task'[g].dir = scalp_task[g].dir
                                /\ scalp_task'[g].trades = scalp_task[g].trades
      BY <1>1, <2>1, <2>2
    <2>5. scalp_running' \in BOOLEAN /\ UNCHANGED <<scalp_current, scalp_held, scalp_guarded, scalp_failed>>
      BY <1>2 DEF Scalp!StopScalp
    <2>6. QED
      BY <2>3, <2>4, <2>5, ScalpFlagKeeps
  <1>3. ASSUME Scalp!DayPasses PROVE ScalpInv'
    <2>1. \A t \in ScalpRow : /\ [t EXCEPT !.today = FALSE] \in ScalpRow
                              /\ [t EXCEPT !.today = FALSE].pc = t.pc
                              /\ [t EXCEPT !.today = FALSE].dir = t.dir
                              /\ [t EXCEPT !.today = FALSE].trades = t.trades
      BY DEF ScalpRow
    <2>2. scalp_task' = [g \in Scalp!Task |-> [scalp_task[g] EXCEPT !.today = FALSE]]
      BY <1>3 DEF Scalp!DayPasses
    <2>3. scalp_task' \in [Scalp!Task -> ScalpRow]
      BY <1>1, <2>1, <2>2
    <2>4. \A g \in Scalp!Task : /\ scalp_task'[g].pc = scalp_task[g].pc
                                /\ scalp_task'[g].dir = scalp_task[g].dir
                                /\ scalp_task'[g].trades = scalp_task[g].trades
      BY <1>1, <2>1, <2>2
    <2>5. scalp_running' \in BOOLEAN /\ UNCHANGED <<scalp_current, scalp_held, scalp_guarded, scalp_failed>>
      BY <1>3 DEF Scalp!DayPasses, ScalpInv, Scalp!TypeOK
    <2>6. QED
      BY <2>3, <2>4, <2>5, ScalpFlagKeeps
  <1>4. ASSUME NEW k \in Scalp!Task, Scalp!CooledDown(k) PROVE ScalpInv'
    <2> DEFINE r == [scalp_task[k] EXCEPT !.cooling = FALSE]
    <2>1. scalp_task' = [scalp_task EXCEPT ![k] = r]
      BY <1>4 DEF Scalp!CooledDown
    <2>2. /\ r \in ScalpRow /\ r.pc = scalp_task[k].pc
          /\ r.dir = scalp_task[k].dir /\ r.trades = scalp_task[k].trades
      BY <1>1 DEF ScalpRow
    <2> HIDE DEF r
    <2>3. scalp_task' \in [Scalp!Task -> ScalpRow]
      BY <1>1, <2>1, <2>2
    <2>4. \A g \in Scalp!Task : /\ scalp_task'[g].pc = scalp_task[g].pc
                                /\ scalp_task'[g].dir = scalp_task[g].dir
                                /\ scalp_task'[g].trades = scalp_task[g].trades
      BY <1>1, <2>1, <2>2
    <2>5. scalp_running' \in BOOLEAN /\ UNCHANGED <<scalp_current, scalp_held, scalp_guarded, scalp_failed>>
      BY <1>4 DEF Scalp!CooledDown, ScalpInv, Scalp!TypeOK
    <2>6. QED
      BY <2>3, <2>4, <2>5, ScalpFlagKeeps
  <1>5. QED
    BY <1>2, <1>3, <1>4

\* One task moves.
LEMMA ScalpTaskMoves ==
  ASSUME ScalpInv, NEW g \in Scalp!Task, NEW r \in ScalpRow,
         scalp_task' = [scalp_task EXCEPT ![g] = r],
         r.pc \in {"decide", "close", "open"} => r.trades < MaxDailyTrades,
         scalp_held' \in [Scalp!Side -> 0 .. MaxHeld], scalp_guarded' \subseteq Scalp!Side,
         scalp_failed' \in 0 .. MaxTrouble,
         UNCHANGED <<scalp_current, scalp_running>>
  PROVE  /\ Scalp!TypeOK' /\ WithinTheDay'
         /\ scalp_task'[g] = r
         /\ \A j \in Scalp!Task : j # g => scalp_task'[j] = scalp_task[j]
  <1>1. scalp_task \in [Scalp!Task -> ScalpRow]
    BY ScalpTyped DEF ScalpInv
  <1>2. /\ scalp_task' \in [Scalp!Task -> ScalpRow] /\ scalp_task'[g] = r
        /\ \A j \in Scalp!Task : j # g => scalp_task'[j] = scalp_task[j]
    BY <1>1
  <1>3. Scalp!TypeOK'
    BY <1>2 DEF Scalp!TypeOK, ScalpInv, ScalpRow
  <1>4. WithinTheDay'
    <2>1. ASSUME NEW j \in Scalp!Task, scalp_task'[j].pc \in {"decide", "close", "open"}
          PROVE  scalp_task'[j].trades < MaxDailyTrades
      <3>1. CASE j = g
        BY <1>2, <2>1, <3>1
      <3>2. CASE j # g
        BY <1>2, <2>1, <3>2 DEF ScalpInv, WithinTheDay
      <3>3. QED
        BY <3>1, <3>2
    <2>2. QED
      BY <2>1 DEF WithinTheDay
  <1>5. QED
    BY <1>2, <1>3, <1>4

\* A task that is not done is the one there is, while nothing has failed.
LEMMA ScalpAlone ==
  ASSUME ScalpInv, NEW g \in Scalp!Task, scalp_task[g].pc # "gone", scalp_failed = 0
  PROVE  scalp_current = g
  BY DEF ScalpInv, AloneAndRight

\* A task rests, ends or looks: nothing is bought or sold.
LEMMA ScalpLooksKeeps ==
  ASSUME ScalpInv, NEW g \in Scalp!Task, NEW r \in ScalpRow,
         scalp_task' = [scalp_task EXCEPT ![g] = r], scalp_task[g].pc # "gone",
         r.dir = scalp_task[g].dir,
         r.pc \in {"decide", "close", "open"} => r.trades < MaxDailyTrades,
         r.pc = "open" => r.dir \notin Scalp!Side,
         UNCHANGED <<scalp_current, scalp_running, scalp_held, scalp_guarded, scalp_failed>>
  PROVE  ScalpInv'
  <1>1. /\ Scalp!TypeOK' /\ WithinTheDay' /\ scalp_task'[g] = r
        /\ \A j \in Scalp!Task : j # g => scalp_task'[j] = scalp_task[j]
    <2>1. /\ scalp_held' \in [Scalp!Side -> 0 .. MaxHeld] /\ scalp_guarded' \subseteq Scalp!Side
          /\ scalp_failed' \in 0 .. MaxTrouble
      BY DEF ScalpInv, Scalp!TypeOK
    <2>2. QED
      BY <2>1, ScalpTaskMoves
  <1>2. AloneAndRight'
    <2>1. ASSUME scalp_failed = 0
          PROVE  /\ \A j \in Scalp!Task : j # scalp_current => scalp_task'[j].pc = "gone"
                 /\ \A d \in Scalp!Side : scalp_held[d] > 0 =>
                      /\ scalp_held[d] = 1 /\ scalp_current # 0
                      /\ scalp_task'[scalp_current].dir = d
                      /\ d \in scalp_guarded /\ scalp_task'[scalp_current].pc # "open"
      <3>1. scalp_current = g
        BY <2>1, ScalpAlone
      <3>2. QED
        BY <1>1, <2>1, <3>1 DEF ScalpInv, AloneAndRight
    <2>2. QED
      BY <2>1 DEF AloneAndRight
  <1>3. QED
    BY <1>1, <1>2 DEF ScalpInv

LEMMA ScalpRestKeeps ==
  ASSUME ScalpInv, NEW g \in Scalp!Task, Scalp!LoopEnds(g) \/ Scalp!ScalpCheck(g) \/ Scalp!Act(g)
  PROVE  ScalpInv'
  <1> USE ScalpConstants
  <1> DEFINE t == scalp_task[g]
  <1>1. t \in ScalpRow
    BY ScalpTyped DEF ScalpInv
  <1>2. UNCHANGED <<scalp_current, scalp_running, scalp_held, scalp_guarded, scalp_failed>>
    BY DEF Scalp!LoopEnds, Scalp!ScalpCheck, Scalp!Act
  <1>3. ASSUME Scalp!LoopEnds(g) PROVE ScalpInv'
    <2> DEFINE r == [t EXCEPT !.pc = "gone"]
    <2>1. r \in ScalpRow /\ r.dir = t.dir /\ r.pc = "gone"
      BY <1>1 DEF ScalpRow
    <2>2. scalp_task' = [scalp_task EXCEPT ![g] = r] /\ t.pc # "gone"
      BY <1>3 DEF Scalp!LoopEnds
    <2> HIDE DEF r
    <2>3. QED
      BY <1>2, <2>1, <2>2, ScalpLooksKeeps
  <1>4. ASSUME Scalp!ScalpCheck(g) PROVE ScalpInv'
    <2> DEFINE d == IF t.today THEN t ELSE [t EXCEPT !.trades = 0, !.pnl = 0, !.today = TRUE]
    <2>1. PICK pc \in {"rest", "decide"} :
            /\ scalp_task' = [scalp_task EXCEPT ![g] = [d EXCEPT !.pc = pc]]
            /\ pc = "decide" => d.trades < MaxDailyTrades
      BY <1>4 DEF Scalp!ScalpCheck
    <2>2. t.pc # "gone"
      BY <1>4 DEF Scalp!ScalpCheck
    <2>3. d \in ScalpRow /\ d.dir = t.dir
      <3>1. \A n \in 0 .. MaxDailyTrades, l \in Int, y \in BOOLEAN :
              /\ [t EXCEPT !.trades = n, !.pnl = l, !.today = y] \in ScalpRow
              /\ [t EXCEPT !.trades = n, !.pnl = l, !.today = y].dir = t.dir
        BY <1>1 DEF ScalpRow
      <3>2. 0 \in 0 .. MaxDailyTrades /\ 0 \in Int /\ TRUE \in BOOLEAN
        OBVIOUS
      <3>3. /\ [t EXCEPT !.trades = 0, !.pnl = 0, !.today = TRUE] \in ScalpRow
            /\ [t EXCEPT !.trades = 0, !.pnl = 0, !.today = TRUE].dir = t.dir
        BY <3>1, <3>2, Zenon
      <3>4. QED
        BY <1>1, <3>3, Zenon
    <2> HIDE DEF d
    <2> DEFINE r == [d EXCEPT !.pc = pc]
    <2>4. r \in ScalpRow /\ r.dir = d.dir /\ r.pc = pc /\ r.trades = d.trades
      BY <2>3 DEF ScalpRow
    <2>5. scalp_task' = [scalp_task EXCEPT ![g] = r]
      BY <2>1
    <2> HIDE DEF r
    <2>6. QED
      BY <1>2, <2>1, <2>2, <2>3, <2>4, <2>5, ScalpLooksKeeps
  <1>5. ASSUME Scalp!Act(g) PROVE ScalpInv'
    <2>1. PICK s \in Scalp!Signal, pc \in {"rest", "close", "open"} :
            /\ scalp_task' = [scalp_task EXCEPT ![g].plan = s, ![g].pc = pc]
            /\ pc = "open" => t.dir = "FLAT"
      <3>1. PICK s \in Scalp!Signal : \E want \in Scalp!Side :
              scalp_task' = [scalp_task EXCEPT ![g].plan = s, ![g].pc =
                 CASE s = "HOLD" -> "rest"
                   [] s = "CLOSE" -> IF t.dir = "FLAT" THEN "rest" ELSE "close"
                   [] OTHER -> IF t.dir = want THEN "rest"
                               ELSE IF t.dir = "FLAT" THEN "open" ELSE "close"]
        BY <1>5 DEF Scalp!Act, Scalp!Side
      <3>2. PICK want \in Scalp!Side :
              scalp_task' = [scalp_task EXCEPT ![g].plan = s, ![g].pc =
                 CASE s = "HOLD" -> "rest"
                   [] s = "CLOSE" -> IF t.dir = "FLAT" THEN "rest" ELSE "close"
                   [] OTHER -> IF t.dir = want THEN "rest"
                               ELSE IF t.dir = "FLAT" THEN "open" ELSE "close"]
        BY <3>1
      <3> DEFINE pc == CASE s = "HOLD" -> "rest"
                   [] s = "CLOSE" -> IF t.dir = "FLAT" THEN "rest" ELSE "close"
                   [] OTHER -> IF t.dir = want THEN "rest"
                               ELSE IF t.dir = "FLAT" THEN "open" ELSE "close"
      <3>3. pc \in {"rest", "close", "open"} /\ (pc = "open" => t.dir = "FLAT")
        OBVIOUS
      <3>4. scalp_task' = [scalp_task EXCEPT ![g].plan = s, ![g].pc = pc]
        BY <3>2
      <3> HIDE DEF pc
      <3>5. QED
        BY <3>3, <3>4
    <2> DEFINE r == [t EXCEPT !.plan = s, !.pc = pc]
    <2>2. t.pc = "decide"
      BY <1>5 DEF Scalp!Act
    <2>3. r \in ScalpRow /\ r.dir = t.dir /\ r.pc = pc /\ r.trades = t.trades
      BY <1>1 DEF ScalpRow
    <2>4. scalp_task' = [scalp_task EXCEPT ![g] = r]
      BY <2>1
    <2>5. t.trades < MaxDailyTrades
      BY <2>2 DEF ScalpInv, WithinTheDay
    <2> HIDE DEF r
    <2>6. "FLAT" \notin Scalp!Side
      BY DEF Scalp!Side
    <2>7. /\ t.pc # "gone"
          /\ r.pc = "open" => r.dir \notin Scalp!Side
          /\ r.pc \in {"decide", "close", "open"} => r.trades < MaxDailyTrades
      BY <2>1, <2>2, <2>3, <2>5, <2>6
    <2>8. QED
      BY <1>2, <2>3, <2>4, <2>7, ScalpLooksKeeps
  <1>6. QED
    BY <1>3, <1>4, <1>5

\* What a side holds after a close or an entry.
LEMMA ScalpHeldChanges ==
  ASSUME ScalpInv, NEW d, NEW n \in 0 .. MaxHeld
  PROVE  /\ [scalp_held EXCEPT ![d] = n] \in [Scalp!Side -> 0 .. MaxHeld]
         /\ d \in Scalp!Side => [scalp_held EXCEPT ![d] = n][d] = n
         /\ \A e \in Scalp!Side : e # d => [scalp_held EXCEPT ![d] = n][e] = scalp_held[e]
  BY DEF ScalpInv, Scalp!TypeOK

\* The side is closed, with it every stop; if all went well nothing is held.
LEMMA ScalpCloseKeeps ==
  ASSUME ScalpInv, NEW g \in Scalp!Task, Scalp!ClosePosition(g) PROVE ScalpInv'
  <1> USE ScalpConstants
  <1> DEFINE t == scalp_task[g]
             next == Scalp!AfterClose(g)
  <1>1. t \in ScalpRow /\ t.pnl \in Int
    BY ScalpTyped, ScalpRowFields DEF ScalpInv
  <1>2. next \in {"rest", "open"}
    BY DEF Scalp!AfterClose
  <1>3. /\ t.pc = "close" /\ scalp_held' = [scalp_held EXCEPT ![t.dir] = 0]
        /\ scalp_guarded' = {} /\ UNCHANGED <<scalp_current, scalp_running, scalp_failed>>
    BY DEF Scalp!ClosePosition
  <1>4. PICK pnl \in {-1, 1} :
          scalp_task' = [scalp_task EXCEPT ![g] = [t EXCEPT !.dir = "FLAT", !.pnl = @ + pnl,
                                                   !.cooling = TRUE, !.pc = next]]
    BY DEF Scalp!ClosePosition
  <1> DEFINE l == t.pnl + pnl
             r == [t EXCEPT !.dir = "FLAT", !.pnl = l, !.cooling = TRUE, !.pc = next]
  <1>5. scalp_task' = [scalp_task EXCEPT ![g] = r]
    BY <1>4
  <1>6. l \in Int
    BY <1>1
  <1> HIDE DEF l, next
  <1>7. r \in ScalpRow /\ r.pc = next /\ r.trades = t.trades
    BY <1>1, <1>2, <1>6 DEF ScalpRow
  <1>8. t.trades < MaxDailyTrades
    BY <1>3 DEF ScalpInv, WithinTheDay
  <1> HIDE DEF r
  <1>9. /\ scalp_held' \in [Scalp!Side -> 0 .. MaxHeld] /\ scalp_guarded' \subseteq Scalp!Side
        /\ scalp_failed' \in 0 .. MaxTrouble
        /\ \A d \in Scalp!Side : scalp_held'[d] = IF d = t.dir THEN 0 ELSE scalp_held[d]
    <2>1. 0 \in 0 .. MaxHeld
      OBVIOUS
    <2>2. QED
      BY <1>3, <2>1, ScalpHeldChanges DEF ScalpInv, Scalp!TypeOK
  <1>10. /\ Scalp!TypeOK' /\ WithinTheDay' /\ scalp_task'[g] = r
         /\ \A j \in Scalp!Task : j # g => scalp_task'[j] = scalp_task[j]
    BY <1>3, <1>5, <1>7, <1>8, <1>9, ScalpTaskMoves
  <1>11. AloneAndRight'
    <2>1. ASSUME scalp_failed = 0
          PROVE  /\ \A j \in Scalp!Task : j # scalp_current => scalp_task'[j].pc = "gone"
                 /\ \A d \in Scalp!Side : ~(scalp_held'[d] > 0)
      <3>1. scalp_current = g
        BY <1>3, <2>1, ScalpAlone
      <3>2. \A d \in Scalp!Side : scalp_held[d] > 0 => t.dir = d
        BY <2>1, <3>1 DEF ScalpInv, AloneAndRight
      <3>3. \A j \in Scalp!Task : j # scalp_current => scalp_task'[j].pc = "gone"
        BY <1>10, <2>1, <3>1 DEF ScalpInv, AloneAndRight
      <3>4. QED
        BY <1>9, <3>2, <3>3
    <2>2. QED
      BY <1>3, <2>1 DEF AloneAndRight
  <1>12. QED
    BY <1>10, <1>11 DEF ScalpInv

\* The call fails, or there was nothing to close.
LEMMA ScalpCloseFailsKeeps ==
  ASSUME ScalpInv, NEW g \in Scalp!Task, Scalp!CloseFails(g) PROVE ScalpInv'
  <1> USE ScalpConstants
  <1> DEFINE t == scalp_task[g]
             next == Scalp!AfterClose(g)
             r == [t EXCEPT !.pc = next]
  <1>1. t \in ScalpRow
    BY ScalpTyped DEF ScalpInv
  <1>2. next \in {"rest", "open"}
    BY DEF Scalp!AfterClose
  <1>3. /\ t.pc = "close" /\ UNCHANGED <<scalp_current, scalp_running, scalp_guarded>>
        /\ \/ scalp_held[t.dir] = 0 /\ UNCHANGED <<scalp_held, scalp_failed>>
           \/ /\ scalp_failed < MaxTrouble /\ scalp_failed' = scalp_failed + 1
              /\ UNCHANGED scalp_held \/ scalp_held' = [scalp_held EXCEPT ![t.dir] = 0]
    BY DEF Scalp!CloseFails
  <1>4. scalp_task' = [scalp_task EXCEPT ![g] = r]
    BY DEF Scalp!CloseFails
  <1> HIDE DEF next
  <1>5. r \in ScalpRow /\ r.pc = next /\ r.trades = t.trades /\ r.dir = t.dir
    BY <1>1, <1>2 DEF ScalpRow
  <1>6. t.trades < MaxDailyTrades
    BY <1>3 DEF ScalpInv, WithinTheDay
  <1> HIDE DEF r
  <1>7. /\ scalp_held' \in [Scalp!Side -> 0 .. MaxHeld] /\ scalp_guarded' \subseteq Scalp!Side
        /\ scalp_failed' \in 0 .. MaxTrouble
        /\ scalp_failed' = 0 => scalp_failed = 0 /\ scalp_held[t.dir] = 0 /\ UNCHANGED scalp_held
    <2>1. 0 \in 0 .. MaxHeld
      OBVIOUS
    <2>2. /\ scalp_failed \in 0 .. MaxTrouble /\ scalp_held \in [Scalp!Side -> 0 .. MaxHeld]
          /\ scalp_guarded \subseteq Scalp!Side
      BY DEF ScalpInv, Scalp!TypeOK
    <2>3. scalp_failed + 1 # 0 /\ (scalp_failed < MaxTrouble => scalp_failed + 1 \in 0 .. MaxTrouble)
      BY <2>2
    <2>4. scalp_held' \in [Scalp!Side -> 0 .. MaxHeld]
      BY <1>3, <2>1, <2>2, ScalpHeldChanges
    <2>5. QED
      BY <1>3, <2>2, <2>3, <2>4
  <1>8. /\ Scalp!TypeOK' /\ WithinTheDay' /\ scalp_task'[g] = r
        /\ \A j \in Scalp!Task : j # g => scalp_task'[j] = scalp_task[j]
    BY <1>3, <1>4, <1>5, <1>6, <1>7, ScalpTaskMoves
  <1>9. AloneAndRight'
    <2>1. ASSUME scalp_failed' = 0
          PROVE  /\ \A j \in Scalp!Task : j # scalp_current => scalp_task'[j].pc = "gone"
                 /\ \A d \in Scalp!Side : ~(scalp_held'[d] > 0)
      <3>1. scalp_current = g /\ scalp_failed = 0 /\ UNCHANGED scalp_held
        BY <1>3, <1>7, <2>1, ScalpAlone
      <3>2. \A d \in Scalp!Side : scalp_held[d] > 0 => t.dir = d
        BY <3>1 DEF ScalpInv, AloneAndRight
      <3>3. \A j \in Scalp!Task : j # scalp_current => scalp_task'[j].pc = "gone"
        BY <1>8, <3>1 DEF ScalpInv, AloneAndRight
      <3>4. QED
        BY <1>7, <2>1, <3>1, <3>2, <3>3
    <2>2. QED
      BY <1>3, <2>1 DEF AloneAndRight
  <1>10. QED
    BY <1>8, <1>9 DEF ScalpInv

\* What an entry leaves.
LEMMA ScalpEntered ==
  ASSUME ScalpInv, NEW d \in Scalp!Side,
         Scalp!Enter(d) \/ UNCHANGED <<scalp_held, scalp_guarded>>
  PROVE  /\ scalp_held' \in [Scalp!Side -> 0 .. MaxHeld] /\ scalp_guarded' \subseteq Scalp!Side
         /\ scalp_guarded \subseteq scalp_guarded'
         /\ \A e \in Scalp!Side : e # d => scalp_held'[e] = scalp_held[e]
         /\ \/ scalp_held'[d] = scalp_held[d]
            \/ scalp_held'[d] = scalp_held[d] + 1 /\ d \in scalp_guarded'
  <1>1. scalp_held \in [Scalp!Side -> 0 .. MaxHeld] /\ scalp_guarded \subseteq Scalp!Side
    BY DEF ScalpInv, Scalp!TypeOK
  <1>2. CASE UNCHANGED <<scalp_held, scalp_guarded>>
    BY <1>1, <1>2
  <1>3. CASE Scalp!Enter(d)
    <2>1. /\ scalp_held[d] < MaxHeld /\ scalp_held' = [scalp_held EXCEPT ![d] = scalp_held[d] + 1]
          /\ scalp_guarded' = scalp_guarded \cup {d}
      BY <1>3 DEF Scalp!Enter
    <2>2. scalp_held[d] + 1 \in 0 .. MaxHeld
      BY <1>1, <2>1, ScalpConstants
    <2>3. QED
      BY <1>1, <2>1, <2>2, ScalpHeldChanges
  <1>4. QED
    BY <1>2, <1>3

\* The order is out, filled or not.
LEMMA ScalpOpenKeeps ==
  ASSUME ScalpInv, NEW g \in Scalp!Task, Scalp!OpenPosition(g) PROVE ScalpInv'
  <1> USE ScalpConstants
  <1> DEFINE t == scalp_task[g]
             d == Scalp!Entry(g)
             n == t.trades + 1
             r == [t EXCEPT !.dir = d, !.trades = n, !.cooling = TRUE, !.pc = "rest"]
  <1>1. t \in ScalpRow /\ t.trades \in 0 .. MaxDailyTrades
    BY ScalpTyped, ScalpRowFields DEF ScalpInv
  <1>2. d \in Scalp!Side
    BY DEF Scalp!Entry, Scalp!Side
  <1>3. /\ t.pc = "open"
        /\ Scalp!Enter(d) \/ UNCHANGED <<scalp_held, scalp_guarded>>
        /\ UNCHANGED <<scalp_current, scalp_running, scalp_failed>>
    BY DEF Scalp!OpenPosition
  <1>4. scalp_task' = [scalp_task EXCEPT ![g] = r]
    BY DEF Scalp!OpenPosition
  <1>5. n \in 0 .. MaxDailyTrades
    <2>1. t.trades < MaxDailyTrades
      BY <1>3 DEF ScalpInv, WithinTheDay
    <2>2. QED
      BY <1>1, <2>1
  <1> HIDE DEF n, d
  <1>6. r \in ScalpRow /\ r.pc = "rest" /\ r.dir = d
    BY <1>1, <1>2, <1>5 DEF ScalpRow
  <1> HIDE DEF r
  <1>7. /\ scalp_held' \in [Scalp!Side -> 0 .. MaxHeld] /\ scalp_guarded' \subseteq Scalp!Side
        /\ \A e \in Scalp!Side : e # d => scalp_held'[e] = scalp_held[e]
        /\ \/ scalp_held'[d] = scalp_held[d]
           \/ scalp_held'[d] = scalp_held[d] + 1 /\ d \in scalp_guarded'
    BY <1>2, <1>3, ScalpEntered
  <1>8. /\ Scalp!TypeOK' /\ WithinTheDay' /\ scalp_task'[g] = r
        /\ \A j \in Scalp!Task : j # g => scalp_task'[j] = scalp_task[j]
    <2>1. scalp_failed' \in 0 .. MaxTrouble
      BY <1>3 DEF ScalpInv, Scalp!TypeOK
    <2>2. QED
      BY <1>3, <1>4, <1>6, <1>7, <2>1, ScalpTaskMoves
  <1>9. AloneAndRight'
    <2>1. ASSUME scalp_failed = 0
          PROVE  /\ \A j \in Scalp!Task : j # scalp_current => scalp_task'[j].pc = "gone"
                 /\ \A e \in Scalp!Side : scalp_held'[e] > 0 =>
                      /\ scalp_held'[e] = 1 /\ scalp_current # 0
                      /\ scalp_task'[scalp_current].dir = e
                      /\ e \in scalp_guarded' /\ scalp_task'[scalp_current].pc # "open"
      <3>1. scalp_current = g /\ scalp_current # 0
        BY <1>3, <2>1, ScalpAlone DEF Scalp!Task
      <3>2. \A e \in Scalp!Side : ~(scalp_held[e] > 0) /\ scalp_held[e] \in 0 .. MaxHeld
        BY <1>3, <2>1, <3>1 DEF ScalpInv, AloneAndRight, Scalp!TypeOK
      <3>3. \A e \in Scalp!Side : scalp_held[e] = 0
        BY <3>2
      <3>4. \A j \in Scalp!Task : j # scalp_current => scalp_task'[j].pc = "gone"
        BY <1>8, <2>1, <3>1 DEF ScalpInv, AloneAndRight
      <3>5. QED
        BY <1>2, <1>6, <1>7, <1>8, <3>1, <3>3, <3>4
    <2>2. QED
      BY <1>3, <2>1 DEF AloneAndRight
  <1>10. QED
    BY <1>8, <1>9 DEF ScalpInv

LEMMA ScalpOpenFailsKeeps ==
  ASSUME ScalpInv, NEW g \in Scalp!Task, Scalp!OpenFails(g) PROVE ScalpInv'
  <1> USE ScalpConstants
  <1> DEFINE t == scalp_task[g]
             d == Scalp!Entry(g)
             r == [t EXCEPT !.pc = "rest"]
  <1>1. t \in ScalpRow
    BY ScalpTyped DEF ScalpInv
  <1>2. d \in Scalp!Side
    BY DEF Scalp!Entry, Scalp!Side
  <1>3. /\ scalp_failed < MaxTrouble /\ scalp_failed' = scalp_failed + 1
        /\ Scalp!Enter(d) \/ UNCHANGED <<scalp_held, scalp_guarded>>
        /\ scalp_task' = [scalp_task EXCEPT ![g] = r]
        /\ UNCHANGED <<scalp_current, scalp_running>>
    BY DEF Scalp!OpenFails
  <1>4. r \in ScalpRow /\ r.pc = "rest"
    BY <1>1 DEF ScalpRow
  <1> HIDE DEF d, r
  <1>5. scalp_failed' \in 0 .. MaxTrouble /\ scalp_failed' # 0
    <2>1. scalp_failed \in 0 .. MaxTrouble
      BY DEF ScalpInv, Scalp!TypeOK
    <2>2. QED
      BY <1>3, <2>1
  <1>6. scalp_held' \in [Scalp!Side -> 0 .. MaxHeld] /\ scalp_guarded' \subseteq Scalp!Side
    BY <1>2, <1>3, ScalpEntered
  <1>7. Scalp!TypeOK' /\ WithinTheDay'
    BY <1>3, <1>4, <1>5, <1>6, ScalpTaskMoves
  <1>8. QED
    BY <1>5, <1>7 DEF ScalpInv, AloneAndRight

\* A local condition closes its side, and is gone with it.
LEMMA ScalpStoppedKeeps ==
  ASSUME ScalpInv, NEW d \in Scalp!Side, Scalp!StoppedOut(d) PROVE ScalpInv'
  <1> USE ScalpConstants
  <1>1. /\ scalp_held' = [scalp_held EXCEPT ![d] = 0] /\ scalp_guarded' = scalp_guarded \ {d}
        /\ UNCHANGED <<scalp_current, scalp_running, scalp_task, scalp_failed>>
    BY DEF Scalp!StoppedOut
  <1>2. /\ scalp_held' \in [Scalp!Side -> 0 .. MaxHeld]
        /\ \A e \in Scalp!Side : scalp_held'[e] = IF e = d THEN 0 ELSE scalp_held[e]
    <2>1. 0 \in 0 .. MaxHeld
      OBVIOUS
    <2>2. QED
      BY <1>1, <2>1, ScalpHeldChanges
  <1>3. Scalp!TypeOK' /\ WithinTheDay'
    BY <1>1, <1>2 DEF ScalpInv, Scalp!TypeOK, WithinTheDay
  <1>4. AloneAndRight'
    <2>1. \A e \in Scalp!Side : scalp_held'[e] > 0 => e # d /\ scalp_held'[e] = scalp_held[e]
      BY <1>2
    <2>2. QED
      BY <1>1, <2>1 DEF ScalpInv, AloneAndRight
  <1>5. QED
    BY <1>3, <1>4 DEF ScalpInv

\* A new task rests, and believes that nothing is held.  The first finds that
\* so; any other comes after a stop or a restart, which counts as trouble.
LEMMA ScalpStartKeeps ==
  ASSUME ScalpInv, Scalp!StartScalp \/ Scalp!Crash PROVE ScalpInv'
  <1> USE ScalpConstants
  <1> DEFINE new == [Scalp!NoTask EXCEPT !.active = TRUE, !.pc = "rest"]
  <1>1. /\ new \in ScalpRow /\ new.pc = "rest"
        /\ Scalp!NoTask \in ScalpRow /\ Scalp!NoTask.pc = "gone"
    BY ScalpNoTask
  <1> HIDE DEF new
  <1>2. /\ scalp_task \in [Scalp!Task -> ScalpRow] /\ scalp_failed \in 0 .. MaxTrouble
        /\ scalp_current \in {0} \cup Scalp!Task /\ scalp_running \in BOOLEAN
    BY ScalpTyped DEF ScalpInv
  <1>3. UNCHANGED <<scalp_held, scalp_guarded>>
    BY DEF Scalp!StartScalp, Scalp!Crash
  <1>4. ASSUME Scalp!StartScalp PROVE ScalpInv'
    <2>1. PICK g \in Scalp!Task : g = scalp_current + 1 /\ Scalp!Begin(g)
      BY <1>4 DEF Scalp!StartScalp
    <2>2. /\ scalp_task' = [scalp_task EXCEPT ![g] = new] /\ scalp_current' = g
          /\ scalp_running' = TRUE
          /\ scalp_failed' = IF scalp_current = 0 THEN scalp_failed ELSE scalp_failed + 1
          /\ scalp_failed' <= MaxTrouble
      BY <1>4, <2>1 DEF Scalp!StartScalp, Scalp!Begin, new
    <2>3. /\ scalp_failed' \in 0 .. MaxTrouble
          /\ scalp_failed' = 0 => scalp_failed = 0 /\ scalp_current = 0
      BY <1>2, <2>2
    <2>4. /\ scalp_task' \in [Scalp!Task -> ScalpRow] /\ scalp_task'[g] = new
          /\ \A j \in Scalp!Task : j # g => scalp_task'[j] = scalp_task[j]
      BY <1>1, <1>2, <2>2
    <2>5. Scalp!TypeOK'
      BY <1>3, <2>2, <2>3, <2>4 DEF ScalpInv, Scalp!TypeOK, ScalpRow
    <2>6. WithinTheDay'
      BY <1>1, <2>4 DEF ScalpInv, WithinTheDay
    <2>7. AloneAndRight'
      <3>1. ASSUME scalp_failed' = 0
            PROVE  /\ \A j \in Scalp!Task : j # g => scalp_task'[j].pc = "gone"
                   /\ \A d \in Scalp!Side : ~(scalp_held[d] > 0)
        <4>1. 0 \notin Scalp!Task
          BY DEF Scalp!Task
        <4>2. QED
          BY <2>3, <2>4, <3>1, <4>1 DEF ScalpInv, AloneAndRight
      <3>2. QED
        BY <1>3, <2>2, <3>1 DEF AloneAndRight
    <2>8. QED
      BY <2>5, <2>6, <2>7 DEF ScalpInv
  <1>5. ASSUME Scalp!Crash PROVE ScalpInv'
    <2>1. scalp_failed' \in 0 .. MaxTrouble /\ scalp_failed' # 0 /\ scalp_running' \in BOOLEAN
      BY <1>2, <1>5 DEF Scalp!Crash
    <2>2. /\ scalp_task' \in [Scalp!Task -> ScalpRow] /\ scalp_current' \in {0} \cup Scalp!Task
          /\ \A j \in Scalp!Task : scalp_task'[j].pc \in {"rest", "gone"}
      <3>1. CASE scalp_running
        <4>1. PICK g \in Scalp!Task :
                /\ scalp_current' = g
                /\ scalp_task' = [t \in Scalp!Task |-> IF t = g THEN new ELSE Scalp!NoTask]
          BY <1>5, <3>1 DEF Scalp!Crash, new
        <4>2. QED
          BY <1>1, <4>1
      <3>2. CASE ~scalp_running
        <4>1. scalp_current' = scalp_current
              /\ scalp_task' = [t \in Scalp!Task |-> Scalp!NoTask]
          BY <1>5, <3>2 DEF Scalp!Crash
        <4>2. QED
          BY <1>1, <1>2, <4>1
      <3>3. QED
        BY <3>1, <3>2
    <2>3. Scalp!TypeOK'
      BY <1>3, <2>1, <2>2 DEF ScalpInv, Scalp!TypeOK, ScalpRow
    <2>4. WithinTheDay' /\ AloneAndRight'
      BY <2>1, <2>2 DEF WithinTheDay, AloneAndRight
    <2>5. QED
      BY <2>3, <2>4 DEF ScalpInv
  <1>6. QED
    BY <1>4, <1>5

\* Every step keeps the invariant of the scalper.
LEMMA ScalpKeeps == ScalpInv /\ [Scalp!Next]_scalpVars => ScalpInv'
  <1> SUFFICES ASSUME ScalpInv, [Scalp!Next]_scalpVars PROVE ScalpInv'
    OBVIOUS
  <1>1. ASSUME UNCHANGED scalpVars PROVE ScalpInv'
    BY <1>1 DEF scalpVars, ScalpInv, Scalp!TypeOK, WithinTheDay, AloneAndRight
  <1>2. ASSUME NEW g \in Scalp!Task, Scalp!Step(g) PROVE ScalpInv'
    BY <1>2, ScalpRestKeeps, ScalpCloseKeeps, ScalpCloseFailsKeeps, ScalpOpenKeeps,
      ScalpOpenFailsKeeps
    DEF Scalp!Step
  <1>3. QED
    BY <1>1, <1>2, ScalpStartKeeps, ScalpWorldKeeps, ScalpStoppedKeeps DEF Scalp!Next

LEMMA ScalpShows == ScalpInv => Scalp!TypeOK /\ Scalp!DirectionTrue
  BY DEF ScalpInv, AloneAndRight, Scalp!DirectionTrue

\* The scalper's thresholds are mirror images, as the defaults are.
ScalpBalanced == RsiLow + RsiHigh = 100

\* What a mirrored fact says.
LEMMA MirrorFields ==
  ASSUME NEW f \in Scalp!Fact
  PROVE  LET m == Scalp!Mirror(f)
         IN  /\ m.cross = CASE f.cross = "golden" -> "death" [] f.cross = "death" -> "golden"
                            [] f.cross = "above" -> "below" [] f.cross = "below" -> "above"
             /\ m.price = -f.price /\ m.rsi = 100 - f.rsi /\ m.macd = -f.macd
             /\ m.volume = f.volume /\ m.nearLower = f.nearUpper /\ m.nearUpper = f.nearLower
             /\ m.trend4h = CASE f.trend4h = "BULL" -> "BEAR" [] f.trend4h = "BEAR" -> "BULL"
                              [] OTHER -> f.trend4h
             /\ m.funding = -f.funding
  BY DEF Scalp!Fact, Scalp!Mirror

LEMMA ScalpMirrors == ScalpBalanced => Scalp!DecisionsMirror
  <1> SUFFICES ASSUME ScalpBalanced, NEW f \in Scalp!Fact
               PROVE  Scalp!Decide(Scalp!Mirror(f)) = Scalp!Reversed(Scalp!Decide(f))
    BY DEF Scalp!DecisionsMirror
  <1> USE ScalpConstants
  <1> DEFINE m == Scalp!Mirror(f)
  <1>1. /\ f.cross \in {"golden", "above", "below", "death"} /\ f.price \in {-1, 0, 1}
        /\ f.macd \in {-1, 0, 1} /\ f.funding \in {-1, 0, 1} /\ f.rsi \in Rsi
        /\ f.trend4h \in {"BULL", "BEAR", "NEUTRAL"}
    BY DEF Scalp!Fact
  <1>2. f.rsi \in Int
    BY <1>1
  <1>3. /\ m.cross = CASE f.cross = "golden" -> "death" [] f.cross = "death" -> "golden"
                       [] f.cross = "above" -> "below" [] f.cross = "below" -> "above"
        /\ m.trend4h = CASE f.trend4h = "BULL" -> "BEAR" [] f.trend4h = "BEAR" -> "BULL"
                         [] OTHER -> f.trend4h
    BY MirrorFields
  <1>4. /\ m.price = -f.price /\ m.rsi = 100 - f.rsi /\ m.macd = -f.macd
        /\ m.funding = -f.funding
    BY MirrorFields
  <1>5. m.volume = f.volume /\ m.nearLower = f.nearUpper /\ m.nearUpper = f.nearLower
    BY MirrorFields
  <1> HIDE DEF m
  <1>6. /\ m.cross = "golden" <=> f.cross = "death"
        /\ m.cross = "death" <=> f.cross = "golden"
        /\ Scalp!FastAbove(m) <=> ~Scalp!FastAbove(f)
        /\ m.trend4h = "BULL" <=> f.trend4h = "BEAR"
        /\ m.trend4h = "BEAR" <=> f.trend4h = "BULL"
        /\ m.cross \in {"golden", "death"} <=> f.cross \in {"golden", "death"}
    BY <1>1, <1>3 DEF Scalp!FastAbove
  <1>7. /\ m.price > 0 <=> f.price < 0
        /\ m.price < 0 <=> f.price > 0
        /\ m.macd > 0 <=> f.macd < 0
        /\ m.macd < 0 <=> f.macd > 0
        /\ m.funding <= 0 <=> f.funding >= 0
        /\ m.funding >= 0 <=> f.funding <= 0
    BY <1>1, <1>4
  <1>8. /\ m.rsi < RsiHigh <=> f.rsi > RsiLow
        /\ m.rsi > RsiLow <=> f.rsi < RsiHigh
        /\ m.rsi < 40 <=> f.rsi > 60
        /\ m.rsi > 60 <=> f.rsi < 40
        /\ m.rsi >= RsiHigh + 5 <=> f.rsi <= RsiLow - 5
        /\ m.rsi <= RsiLow - 5 <=> f.rsi >= RsiHigh + 5
    BY <1>2, <1>4 DEF ScalpBalanced
  <1>9. Scalp!Buys(m) <=> Scalp!Sells(f)
    BY <1>5, <1>6, <1>7, <1>8, Zenon DEF Scalp!Buys, Scalp!Sells
  <1>10. Scalp!Sells(m) <=> Scalp!Buys(f)
    BY <1>5, <1>6, <1>7, <1>8, Zenon DEF Scalp!Buys, Scalp!Sells
  <1>11. Scalp!Closes(m) <=> Scalp!Closes(f)
    BY <1>5, <1>6, <1>7, <1>8, Zenon DEF Scalp!Closes
  <1>12. ~(Scalp!Buys(f) /\ Scalp!Sells(f))
    BY DEF Scalp!Buys, Scalp!Sells
  <1>13. Scalp!Decide(m) = Scalp!Reversed(Scalp!Decide(f))
    BY <1>9, <1>10, <1>11, <1>12 DEF Scalp!Decide, Scalp!Reversed
  <1>14. QED
    BY <1>13 DEF m

-----------------------------------------------------------------------------
(***************************************************************************)
(* The candle strategies: what they hold and count.                        *)
(***************************************************************************)
Decided == [signal: Side \cup {"NONE"}, exits: SUBSET Side]

\* A loop is there for each start; one about to order has a signal and room
\* under the cap.
ReadyToOrder ==
  \A i \in Start : /\ loop[i] # "none" => i <= cur
                   /\ loop[i] \in {"limit", "order"} => last[i].signal # "NONE"
                   /\ loop[i] = "order" => open[i] < MaxPositions

\* Before the first start nothing is held.
HeldSinceStart == cur = 0 => held = {} /\ ~unclear

SignalsInv == TypeOK /\ ReadyToOrder /\ HeldSinceStart /\ CountCoversHeld

LEMMA HeldCount ==
  ASSUME NEW S \in SUBSET Side, NEW s \in Side
  PROVE  /\ IsFiniteSet(S) /\ Cardinality(S) \in Nat
         /\ Cardinality(S \ {s}) <= Cardinality(S)
         /\ s \in S => Cardinality(S \ {s}) = Cardinality(S) - 1
         /\ Cardinality(S \cup {s}) <= Cardinality(S) + 1
         /\ Cardinality({}) = 0
  <1>1. IsFiniteSet({"BUY"}) /\ IsFiniteSet({"BUY"} \cup {"SELL"})
    BY FS_Singleton, FS_AddElement
  <1>2. Side = {"BUY"} \cup {"SELL"}
    BY DEF Side
  <1>3. IsFiniteSet(S) /\ Cardinality(S) \in Nat
    BY <1>1, <1>2, FS_Subset, FS_CardinalityType
  <1>4. s \in S => Cardinality(S \ {s}) = Cardinality(S) - 1
    BY <1>3, FS_RemoveElement
  <1>5. s \notin S => S \ {s} = S
    OBVIOUS
  <1>6. Cardinality(S \cup {s}) = IF s \in S THEN Cardinality(S) ELSE Cardinality(S) + 1
    BY <1>3, FS_AddElement
  <1>7. Cardinality(S \ {s}) <= Cardinality(S)
    BY <1>3, <1>4, <1>5
  <1>8. Cardinality({}) = 0
    BY FS_EmptySet
  <1>9. QED
    BY <1>3, <1>4, <1>6, <1>7, <1>8

\* A check decides one side, the other or none, and closes sides.
LEMMA DecisionShape ==
  ASSUME NEW k \in {"signal", "doji"}, NEW d \in Decisions[k]
  PROVE  d \in Decided /\ d # None
  <1>1. PICK m \in Market(k) : d = Decide(k, m) /\ d # None
    BY DEF Decisions
  <1>2. CrossSignal(m) \in Side \cup {"NONE"} /\ Exits(m) \in SUBSET Side
    BY DEF CrossSignal, Exits, Side
  <1>3. PatternSignal(m, detectTrend(m)) \in Side \cup {"NONE"}
    <2>1. \A p, t : dojiSignalFromPattern(p, t) \in Side \cup {"NONE"}
      BY DEF dojiSignalFromPattern, Side
    <2>2. QED
      BY <2>1 DEF PatternSignal
  <1>4. Decide(k, m) \in Decided
    BY <1>2, <1>3 DEF Decide, Decided
  <1>5. QED
    BY <1>1, <1>4

LEMMA SignalsStart == AllInit => SignalsInv
  <1> SUFFICES ASSUME AllInit PROVE SignalsInv
    OBVIOUS
  <1>1. /\ kind \in {"signal", "doji"} /\ cur = 0 /\ active = FALSE
        /\ loop = [i \in Start |-> "none"] /\ open = [i \in Start |-> 0]
        /\ held = {} /\ unclear = FALSE /\ last = [i \in Start |-> None] /\ ignored = FALSE
    BY DEF AllInit, Init
  <1>2. /\ None \in [signal : Side \cup {"NONE"}, exits : SUBSET Side]
        /\ 0 \in 0 .. MaxPositions /\ 0 \in 0 .. MaxStart
    BY CapAssumption DEF None
  <1>3. TypeOK
    BY <1>1, <1>2 DEF TypeOK
  <1>4. ReadyToOrder /\ HeldSinceStart /\ CountCoversHeld
    BY <1>1 DEF ReadyToOrder, HeldSinceStart, CountCoversHeld
  <1>5. QED
    BY <1>3, <1>4 DEF SignalsInv

LEMMA SignalsStartKeeps == ASSUME SignalsInv, StartStrategy PROVE SignalsInv'
  <1> USE CapAssumption
  <1>1. /\ cur \in Nat /\ cur' = cur + 1 /\ cur' \in 0 .. MaxStart /\ cur' \in Start
        /\ active' = TRUE /\ loop' = [loop EXCEPT ![cur + 1] = "wait"]
        /\ UNCHANGED <<kind, open, held, unclear, last, ignored>>
    BY DEF StartStrategy, SignalsInv, TypeOK, Start
  <1>2. loop' \in [Start -> {"none", "wait", "exit", "limit", "order", "ended"}]
    BY <1>1 DEF SignalsInv, TypeOK
  <1>3. TypeOK'
    BY <1>1, <1>2 DEF SignalsInv, TypeOK
  <1>4. ReadyToOrder'
    <2>1. \A i \in Start : i <= cur => i <= cur'
      BY <1>1 DEF Start
    <2>2. \A i \in Start : loop'[i] = IF i = cur' THEN "wait" ELSE loop[i]
      BY <1>1 DEF SignalsInv, TypeOK
    <2>3. cur' <= cur'
      BY <1>1
    <2>4. QED
      BY <1>1, <2>1, <2>2, <2>3 DEF SignalsInv, ReadyToOrder
  <1>5. HeldSinceStart'
    BY <1>1 DEF HeldSinceStart
  <1>6. CountCoversHeld'
    <2>1. ASSUME cur' = 1 PROVE Cardinality(held) <= open[1]
      <3>1. held = {} /\ 1 \in Start
        BY <1>1, <2>1 DEF SignalsInv, HeldSinceStart
      <3>2. open[1] \in Nat
        BY <3>1 DEF SignalsInv, TypeOK
      <3>3. QED
        BY <3>1, <3>2, FS_EmptySet
    <2>2. QED
      BY <1>1, <2>1 DEF CountCoversHeld
  <1>7. QED
    BY <1>3, <1>4, <1>5, <1>6 DEF SignalsInv

\* A stop, the end of a loop, and what a check does before it closes or orders.
LEMMA SignalsLooksKeeps ==
  ASSUME SignalsInv,
         StopStrategy \/ \E i \in Start : LoopEnds(i) \/ Check(i) \/ ExitsDone(i) \/ Limit(i)
  PROVE  SignalsInv'
  <1> USE CapAssumption
  <1>1. UNCHANGED <<kind, cur, open, held, unclear>>
    BY DEF StopStrategy, LoopEnds, Check, ExitsDone, Limit
  <1>2. HeldSinceStart' /\ CountCoversHeld'
    BY <1>1 DEF SignalsInv, HeldSinceStart, CountCoversHeld
  <1>3. ASSUME StopStrategy PROVE SignalsInv'
    <2>1. active' = FALSE /\ UNCHANGED <<loop, last, ignored>>
      BY <1>3 DEF StopStrategy
    <2>2. TypeOK' /\ ReadyToOrder'
      BY <1>1, <2>1 DEF SignalsInv, TypeOK, ReadyToOrder
    <2>3. QED
      BY <1>2, <2>2 DEF SignalsInv
  <1>4. ASSUME NEW i \in Start, NEW to \in {"ended", "exit", "limit", "order", "wait"},
               NEW d \in Decided,
               loop[i] # "none", loop' = [loop EXCEPT ![i] = to],
               last' = [last EXCEPT ![i] = d],
               to \in {"limit", "order"} => d.signal # "NONE",
               to = "order" => open[i] < MaxPositions,
               ignored' \in BOOLEAN, UNCHANGED active
        PROVE  SignalsInv'
    <2>1. /\ loop' \in [Start -> {"none", "wait", "exit", "limit", "order", "ended"}]
          /\ last' \in [Start -> [signal : Side \cup {"NONE"}, exits : SUBSET Side]]
      BY <1>4 DEF SignalsInv, TypeOK, Decided
    <2>2. TypeOK'
      BY <1>1, <1>4, <2>1 DEF SignalsInv, TypeOK
    <2>3. \A j \in Start : /\ loop'[j] = IF j = i THEN to ELSE loop[j]
                           /\ last'[j] = IF j = i THEN d ELSE last[j]
      BY <1>4 DEF SignalsInv, TypeOK
    <2>4. ReadyToOrder'
      BY <1>1, <1>4, <2>3 DEF SignalsInv, ReadyToOrder
    <2>5. QED
      BY <1>2, <2>2, <2>4 DEF SignalsInv
  <1>5. /\ None \in Decided
        /\ last \in [Start -> Decided] /\ ignored \in BOOLEAN /\ held \subseteq Side
        /\ \A j \in Start : last[j] \in Decided /\ last = [last EXCEPT ![j] = last[j]]
    BY DEF Decided, None, SignalsInv, TypeOK
  <1>6. ASSUME NEW i \in Start, LoopEnds(i) PROVE SignalsInv'
    <2>1. /\ loop[i] # "none" /\ loop' = [loop EXCEPT ![i] = "ended"]
          /\ last' = [last EXCEPT ![i] = last[i]] /\ ignored' \in BOOLEAN /\ UNCHANGED active
      BY <1>5, <1>6 DEF LoopEnds
    <2>2. QED
      BY <1>4, <1>5, <2>1
  <1>7. ASSUME NEW i \in Start, Check(i) PROVE SignalsInv'
    <2>1. PICK d \in Decisions[kind] :
            /\ last' = [last EXCEPT ![i] = [d EXCEPT !.exits = @ \cap held]]
            /\ loop' = [loop EXCEPT ![i] = IF d.exits # {} THEN "exit" ELSE "limit"]
      BY <1>7 DEF Check
    <2>2. kind \in {"signal", "doji"}
      BY DEF SignalsInv, TypeOK
    <2>3. d \in Decided /\ d # None
      BY <2>2, DecisionShape
    <2> DEFINE e == [d EXCEPT !.exits = @ \cap held]
               to == IF d.exits # {} THEN "exit" ELSE "limit"
    <2>4. e \in Decided /\ e.signal = d.signal
      BY <2>3 DEF Decided
    <2>5. to = "limit" => d.signal # "NONE"
      <3>1. d = [signal |-> d.signal, exits |-> d.exits]
        BY <2>3 DEF Decided
      <3>2. QED
        BY <2>3, <3>1 DEF None
    <2>6. loop[i] # "none" /\ to \in {"exit", "limit"} /\ ignored' \in BOOLEAN /\ UNCHANGED active
      BY <1>5, <1>7 DEF Check
    <2>7. last' = [last EXCEPT ![i] = e] /\ loop' = [loop EXCEPT ![i] = to]
      BY <2>1
    <2> HIDE DEF e, to
    <2>8. QED
      BY <1>4, <2>4, <2>5, <2>6, <2>7
  <1>8. ASSUME NEW i \in Start, ExitsDone(i) PROVE SignalsInv'
    <2>1. /\ loop[i] # "none" /\ ignored' \in BOOLEAN /\ UNCHANGED active
      BY <1>5, <1>8 DEF ExitsDone
    <2>2. CASE last[i].signal = "NONE"
      <3>1. loop' = [loop EXCEPT ![i] = "wait"] /\ last' = [last EXCEPT ![i] = None]
        BY <1>8, <2>2 DEF ExitsDone
      <3>2. QED
        BY <1>4, <1>5, <2>1, <3>1
    <2>3. CASE last[i].signal # "NONE"
      <3>1. loop' = [loop EXCEPT ![i] = "limit"] /\ last' = [last EXCEPT ![i] = last[i]]
        BY <1>5, <1>8, <2>3 DEF ExitsDone
      <3>2. QED
        BY <1>4, <1>5, <2>1, <2>3, <3>1
    <2>4. QED
      BY <2>2, <2>3
  <1>9. ASSUME NEW i \in Start, Limit(i) PROVE SignalsInv'
    <2>1. loop[i] = "limit" /\ last[i].signal # "NONE" /\ UNCHANGED active
      BY <1>9 DEF Limit, SignalsInv, ReadyToOrder
    <2>2. CASE /\ loop' = [loop EXCEPT ![i] = "wait"] /\ last' = [last EXCEPT ![i] = None]
               /\ ignored' = (ignored \/ (open[i] >= MaxPositions
                                           /\ Cardinality(held) < MaxPositions))
      <3>1. ignored' \in BOOLEAN
        BY <2>2
      <3>2. QED
        BY <1>4, <1>5, <2>1, <2>2, <3>1
    <2>3. CASE /\ open[i] < MaxPositions /\ loop' = [loop EXCEPT ![i] = "order"]
               /\ UNCHANGED <<last, ignored>>
      <3>1. ignored' \in BOOLEAN /\ last' = [last EXCEPT ![i] = last[i]]
        BY <1>5, <2>3
      <3>2. QED
        BY <1>4, <1>5, <2>1, <2>3, <3>1
    <2>4. QED
      BY <1>9, <2>2, <2>3 DEF Limit
  <1>10. QED
    BY <1>3, <1>6, <1>7, <1>8, <1>9

\* A side is closed, and counted down; or the close fails, and is passed over.
LEMMA SignalsCloseKeeps ==
  ASSUME SignalsInv, NEW i \in Start, NEW s \in Side, CloseOne(i, s) PROVE SignalsInv'
  <1> USE CapAssumption
  <1> DEFINE n == Larger(0, open[i] - 1)
             d == [last[i] EXCEPT !.exits = @ \ {s}]
  <1>1. /\ loop[i] = "exit" /\ last' = [last EXCEPT ![i] = d]
        /\ UNCHANGED <<kind, cur, active, loop, unclear, ignored>>
        /\ \/ UNCHANGED <<open, held>>
           \/ s \in held /\ held' = held \ {s} /\ open' = [open EXCEPT ![i] = n]
    BY DEF CloseOne
  <1>2. /\ open[i] \in 0 .. MaxPositions /\ n \in 0 .. MaxPositions /\ n >= open[i] - 1
        /\ open \in [Start -> 0 .. MaxPositions] /\ held \subseteq Side
    BY DEF SignalsInv, TypeOK, Larger
  <1>3. d \in Decided /\ d.signal = last[i].signal
    BY DEF SignalsInv, TypeOK, Decided
  <1> HIDE DEF n, d
  <1>4. /\ last' \in [Start -> [signal : Side \cup {"NONE"}, exits : SUBSET Side]]
        /\ \A j \in Start : last'[j].signal = last[j].signal
    BY <1>1, <1>3 DEF SignalsInv, TypeOK, Decided
  <1>5. /\ open' \in [Start -> 0 .. MaxPositions] /\ held' \subseteq Side
        /\ \A j \in Start : j # i => open'[j] = open[j]
    BY <1>1, <1>2
  <1>6. TypeOK'
    BY <1>1, <1>4, <1>5 DEF SignalsInv, TypeOK
  <1>7. ReadyToOrder'
    BY <1>1, <1>4, <1>5 DEF SignalsInv, ReadyToOrder
  <1>8. HeldSinceStart'
    BY <1>1 DEF SignalsInv, HeldSinceStart
  <1>9. CountCoversHeld'
    <2>1. ASSUME cur = 1, ~unclear PROVE Cardinality(held') <= open'[1]
      <3>1. i = 1
        BY <1>1, <2>1, CapAssumption DEF SignalsInv, ReadyToOrder, Start
      <3>2. Cardinality(held) <= open[1]
        BY <2>1 DEF SignalsInv, CountCoversHeld
      <3>3. CASE UNCHANGED <<open, held>>
        BY <3>2, <3>3
      <3>4. CASE s \in held /\ held' = held \ {s} /\ open' = [open EXCEPT ![i] = n]
        <4>1. Cardinality(held') = Cardinality(held) - 1 /\ Cardinality(held) \in Nat
          BY <1>2, <3>4, HeldCount
        <4>2. open'[1] = n
          BY <1>2, <3>1, <3>4
        <4>3. QED
          BY <1>2, <3>1, <3>2, <4>1, <4>2
      <3>5. QED
        BY <1>1, <3>3, <3>4
    <2>2. QED
      BY <1>1, <2>1 DEF CountCoversHeld
  <1>10. QED
    BY <1>6, <1>7, <1>8, <1>9 DEF SignalsInv

\* An order is executed and counted, refused, or executed and answered with an
\* error.
LEMMA SignalsOrderKeeps ==
  ASSUME SignalsInv, NEW i \in Start, Order(i) PROVE SignalsInv'
  <1> USE CapAssumption
  <1> DEFINE s == last[i].signal
             n == open[i] + 1
  <1>1. /\ loop[i] = "order" /\ loop' = [loop EXCEPT ![i] = "wait"]
        /\ last' = [last EXCEPT ![i] = None] /\ UNCHANGED <<kind, cur, active, ignored>>
        /\ \/ held' = held \cup {s} /\ open' = [open EXCEPT ![i] = n] /\ UNCHANGED unclear
           \/ UNCHANGED <<held, open, unclear>>
           \/ held' = held \cup {s} /\ unclear' = TRUE /\ UNCHANGED open
    BY DEF Order
  <1>2. /\ open[i] \in 0 .. MaxPositions /\ open[i] < MaxPositions
        /\ open \in [Start -> 0 .. MaxPositions] /\ held \subseteq Side
        /\ last[i] \in [signal : Side \cup {"NONE"}, exits : SUBSET Side] /\ s # "NONE"
        /\ unclear \in BOOLEAN
    BY <1>1 DEF SignalsInv, TypeOK, ReadyToOrder
  <1>3. n \in 0 .. MaxPositions /\ s \in Side
    BY <1>2
  <1> HIDE DEF n, s
  <1>4. /\ open' \in [Start -> 0 .. MaxPositions] /\ held' \subseteq Side
        /\ \A j \in Start : j # i => open'[j] = open[j]
        /\ unclear' \in BOOLEAN
    BY <1>1, <1>2, <1>3
  <1>5. /\ loop' \in [Start -> {"none", "wait", "exit", "limit", "order", "ended"}]
        /\ last' \in [Start -> [signal : Side \cup {"NONE"}, exits : SUBSET Side]]
        /\ \A j \in Start : /\ loop'[j] = IF j = i THEN "wait" ELSE loop[j]
                            /\ last'[j] = IF j = i THEN None ELSE last[j]
    BY <1>1 DEF SignalsInv, TypeOK, None
  <1>6. TypeOK'
    BY <1>1, <1>4, <1>5 DEF SignalsInv, TypeOK
  <1>7. ReadyToOrder'
    BY <1>1, <1>4, <1>5 DEF SignalsInv, ReadyToOrder
  <1>8. i <= cur /\ cur # 0
    BY <1>1 DEF SignalsInv, ReadyToOrder, Start
  <1>9. HeldSinceStart'
    BY <1>1, <1>8 DEF HeldSinceStart
  <1>10. CountCoversHeld'
    <2>1. ASSUME cur = 1, ~unclear' PROVE Cardinality(held') <= open'[1]
      <3>1. i = 1 /\ ~unclear
        BY <1>1, <1>8, <2>1 DEF Start
      <3>2. Cardinality(held) <= open[1] /\ open[1] \in Nat
        BY <1>2, <2>1, <3>1 DEF SignalsInv, CountCoversHeld
      <3>3. CASE UNCHANGED <<open, held>>
        BY <3>2, <3>3
      <3>4. CASE held' = held \cup {s} /\ open' = [open EXCEPT ![i] = n]
        <4>1. Cardinality(held') <= Cardinality(held) + 1 /\ Cardinality(held) \in Nat
              /\ Cardinality(held') \in Nat
          BY <1>2, <1>3, <1>4, <3>4, HeldCount
        <4>2. open'[1] = open[1] + 1
          BY <1>2, <3>1, <3>4 DEF n
        <4>3. QED
          BY <3>2, <4>1, <4>2
      <3>5. QED
        BY <1>1, <2>1, <3>3, <3>4
    <2>2. QED
      BY <1>1, <2>1 DEF CountCoversHeld
  <1>11. QED
    BY <1>6, <1>7, <1>9, <1>10 DEF SignalsInv

LEMMA SignalsTakenKeeps ==
  ASSUME SignalsInv, NEW s \in Side, TakenOut(s) PROVE SignalsInv'
  <1>1. held' = held \ {s} /\ UNCHANGED <<kind, cur, active, loop, open, unclear, last, ignored>>
    BY DEF TakenOut
  <1>2. TypeOK' /\ ReadyToOrder' /\ HeldSinceStart'
    BY <1>1 DEF SignalsInv, TypeOK, ReadyToOrder, HeldSinceStart
  <1>3. CountCoversHeld'
    <2>1. ASSUME cur = 1, ~unclear PROVE Cardinality(held') <= open[1]
      <3>1. Cardinality(held') <= Cardinality(held) /\ Cardinality(held) \in Nat
            /\ Cardinality(held') \in Nat
        BY <1>1, HeldCount DEF SignalsInv, TypeOK
      <3>2. Cardinality(held) <= open[1]
        BY <2>1 DEF SignalsInv, CountCoversHeld
      <3>3. open[1] \in Int
        BY <2>1, CapAssumption DEF SignalsInv, TypeOK, Start
      <3>4. QED
        BY <3>1, <3>2, <3>3
    <2>2. QED
      BY <1>1, <2>1 DEF CountCoversHeld
  <1>4. QED
    BY <1>2, <1>3 DEF SignalsInv

\* Every step keeps the invariant of the candle strategies.
LEMMA SignalsKeeps == SignalsInv /\ [Next]_vars => SignalsInv'
  <1> SUFFICES ASSUME SignalsInv, [Next]_vars PROVE SignalsInv'
    OBVIOUS
  <1>1. ASSUME UNCHANGED vars PROVE SignalsInv'
    BY <1>1 DEF vars, SignalsInv, TypeOK, ReadyToOrder, HeldSinceStart, CountCoversHeld
  <1>2. QED
    BY <1>1, SignalsStartKeeps, SignalsLooksKeeps, SignalsCloseKeeps, SignalsOrderKeeps,
      SignalsTakenKeeps
    DEF Next

-----------------------------------------------------------------------------
(***************************************************************************)
(* The news.                                                               *)
(***************************************************************************)
\* What is stored, or on its way to be, is cut to the newest items already.
NewsCut ==
  /\ \A s \in Source : news_redis[s] = News!Newest(news_redis[s])
  /\ \A snap \in news_sets, s \in Source : snap[s] = News!Newest(snap[s])

NewsShape ==
  /\ news_published \in [Source -> 0 .. MaxItem]
  /\ news_pc \in {"load", "idle", "fetch", "merge"} /\ news_answered \subseteq Source
  /\ news_latest \in News!Snapshot /\ news_data \in News!Snapshot
  /\ news_redis \in News!Snapshot /\ news_seen \in News!Snapshot
  /\ news_sets \subseteq News!Snapshot
  /\ news_kick \in BOOLEAN /\ news_asked \in BOOLEAN /\ news_crashes \in 0 .. MaxCrash

NewsInv == NewsShape /\ NewsCut /\ News!NewsKept

LEMMA NewsConstants ==
  Keep \in Nat /\ MaxItem \in Nat /\ MaxCrash \in Nat
  BY SafetyAssumption DEF News!ItemAssumption

LEMMA NewsCardinality == \A S : News!Cardinality(S) = Cardinality(S)
  BY DEF News!Cardinality, Cardinality

Above(list, i) == {j \in list : j > i}

LEMMA NewestIs ==
  \A list : News!Newest(list) = {i \in list : Cardinality(Above(list, i)) < Keep}
  BY NewsCardinality DEF News!Newest, Above

LEMMA ItemsFinite == ASSUME NEW A \in SUBSET News!Item PROVE IsFiniteSet(A) /\ A \subseteq Int
  <1>1. 1 \in Int /\ MaxItem \in Int /\ 1 .. MaxItem \subseteq Int
    BY NewsConstants
  <1>2. IsFiniteSet(1 .. MaxItem)
    BY <1>1, FS_Interval
  <1>3. QED
    BY <1>1, <1>2, FS_Subset DEF News!Item

LEMMA FewerAbove ==
  ASSUME NEW A \in SUBSET Int, NEW B \in SUBSET A, IsFiniteSet(A), NEW i, NEW j,
         Above(B, i) \subseteq Above(A, j)
  PROVE  /\ Cardinality(Above(B, i)) \in Nat /\ Cardinality(Above(A, j)) \in Nat
         /\ Cardinality(Above(B, i)) <= Cardinality(Above(A, j))
  <1>1. Above(A, j) \subseteq A
    BY DEF Above
  <1>2. IsFiniteSet(Above(A, j))
    BY <1>1, FS_Subset
  <1>3. QED
    BY <1>2, FS_Subset, FS_CardinalityType

\* A list at least as long as what is kept is cut to no less.
LEMMA NewestFull ==
  ASSUME NEW A \in SUBSET Int, IsFiniteSet(A), Cardinality(A) >= Keep
  PROVE  Cardinality(News!Newest(A)) >= Keep
  <1> DEFINE Full(s) == Cardinality(s) >= Keep => Cardinality(News!Newest(s)) >= Keep
             T == {s \in SUBSET A : Full(s)}
  <1>1. ASSUME NEW s \in SUBSET A, \A r \in SUBSET s : r # s => r \in T
        PROVE  s \in T
    <2> SUFFICES ASSUME Cardinality(s) >= Keep
                 PROVE  Cardinality(News!Newest(s)) >= Keep
      OBVIOUS
    <2>1. IsFiniteSet(s) /\ s \subseteq Int /\ Cardinality(s) \in Nat
      BY FS_Subset, FS_CardinalityType
    <2>2. News!Newest(s) \subseteq s
      BY NewestIs
    <2>3. IsFiniteSet(News!Newest(s)) /\ Cardinality(News!Newest(s)) \in Nat
      BY <2>1, <2>2, FS_Subset, FS_CardinalityType
    <2>4. CASE Cardinality(s) = Keep
      <3>1. ASSUME NEW i \in s PROVE Cardinality(Above(s, i)) < Keep
        <4>1. IsFiniteSet(s \ {i}) /\ Cardinality(s \ {i}) = Cardinality(s) - 1
          BY <2>1, FS_RemoveElement
        <4>2. Above(s, i) \subseteq s \ {i}
          BY <2>1 DEF Above
        <4>3. /\ Cardinality(Above(s, i)) <= Cardinality(s \ {i})
              /\ Cardinality(Above(s, i)) \in Nat
          BY <4>1, <4>2, FS_Subset, FS_CardinalityType
        <4>4. QED
          BY <2>1, <2>4, <4>1, <4>3, NewsConstants
      <3>2. News!Newest(s) = s
        BY <3>1, NewestIs
      <3>3. QED
        BY <3>2
    <2>5. CASE Cardinality(s) # Keep
      <3>1. s # {}
        BY <2>1, <2>5, NewsConstants, FS_EmptySet
      <3>2. PICK m \in s : \A x \in s : m <= x
        BY <2>1, <3>1, Extremes
      <3> DEFINE r == s \ {m}
      <3>3. IsFiniteSet(r) /\ Cardinality(r) = Cardinality(s) - 1
        BY <2>1, FS_RemoveElement
      <3>4. Cardinality(r) >= Keep
        BY <2>1, <2>5, <3>3, NewsConstants
      <3>5. r \in T
        BY <1>1
      <3>6. Cardinality(News!Newest(r)) >= Keep
        BY <3>4, <3>5
      <3>7. ASSUME NEW i \in r PROVE Above(s, i) = Above(r, i)
        <4>1. m <= i /\ m \in Int /\ i \in Int
          BY <2>1, <3>2
        <4>2. ~(m > i)
          BY <4>1, <3>7
        <4>3. QED
          BY <4>2 DEF Above
      <3>8. News!Newest(r) \subseteq News!Newest(s)
        BY <3>7, NewestIs
      <3>9. /\ Cardinality(News!Newest(r)) <= Cardinality(News!Newest(s))
            /\ Cardinality(News!Newest(r)) \in Nat
        BY <2>3, <3>8, FS_Subset, FS_CardinalityType
      <3>10. QED
        BY <2>3, <3>6, <3>9, NewsConstants
    <2>6. QED
      BY <2>4, <2>5
  <1>2. A \in T
    <2> HIDE DEF T
    <2>1. SUBSET A \subseteq T
      BY <1>1, SubsetInduction
    <2>2. QED
      BY <2>1
  <1>3. QED
    BY <1>2

\* A list cut before it is merged gives what the whole list would.
LEMMA CutAndMerge ==
  ASSUME NEW A \in SUBSET News!Item, NEW B \in SUBSET News!Item
  PROVE  News!Newest(B \cup News!Newest(A)) = News!Newest(B \cup A)
  <1> DEFINE N == News!Newest(A)
             U == B \cup A
             V == B \cup N
  <1>1. U \in SUBSET Int /\ IsFiniteSet(U) /\ A \in SUBSET Int /\ IsFiniteSet(A)
    BY ItemsFinite
  <1>2. N \subseteq A /\ V \in SUBSET U /\ A \in SUBSET U /\ N \in SUBSET Int
    BY <1>1, NewestIs
  <1>3. V \in SUBSET Int /\ IsFiniteSet(V)
    BY <1>1, <1>2, FS_Subset
  <1>n. N = {i \in A : Cardinality(Above(A, i)) < Keep}
    BY NewestIs
  <1>u. /\ News!Newest(U) = {i \in U : Cardinality(Above(U, i)) < Keep}
        /\ News!Newest(V) = {i \in V : Cardinality(Above(V, i)) < Keep}
    BY NewestIs
  <1> HIDE DEF N
  <1>4. ASSUME NEW i \in U, Cardinality(Above(U, i)) < Keep
        PROVE  i \in V /\ Cardinality(Above(V, i)) < Keep
    <2>1. Above(V, i) \subseteq Above(U, i) /\ Above(A, i) \subseteq Above(U, i)
      BY <1>2 DEF Above
    <2> HIDE DEF U, V
    <2>2. /\ Cardinality(Above(V, i)) <= Cardinality(Above(U, i))
          /\ Cardinality(Above(A, i)) <= Cardinality(Above(U, i))
          /\ Cardinality(Above(V, i)) \in Nat /\ Cardinality(Above(A, i)) \in Nat
          /\ Cardinality(Above(U, i)) \in Nat
      BY <1>1, <1>2, <2>1, FewerAbove
    <2>3. Cardinality(Above(V, i)) < Keep /\ Cardinality(Above(A, i)) < Keep
      BY <1>4, <2>2, NewsConstants
    <2>4. i \in V
      BY <1>n, <2>3 DEF U, V
    <2>5. QED
      BY <2>3, <2>4
  <1>5. ASSUME NEW i \in V, Cardinality(Above(V, i)) < Keep
        PROVE  i \in U /\ Cardinality(Above(U, i)) < Keep
    <2>1. CASE Above(U, i) = Above(V, i)
      BY <1>2, <1>5, <2>1
    <2>2. CASE Above(U, i) # Above(V, i)
      <3>1. PICK k \in Above(U, i) : k \notin Above(V, i)
        BY <1>2, <2>2 DEF Above
      <3>2. k \in A /\ k \notin N /\ k > i /\ k \in Int /\ i \in Int
        BY <1>1, <1>2, <3>1 DEF Above
      <3>3. ~(Cardinality(Above(A, k)) < Keep)
        BY <1>n, <3>2
      <3>4. ASSUME NEW j \in N PROVE j > k
        <4> SUFFICES ASSUME ~(j > k) PROVE FALSE
          OBVIOUS
        <4>1. j \in Int /\ j <= k
          BY <1>2, <3>2
        <4>2. Above(A, k) \subseteq Above(A, j)
          <5>1. ASSUME NEW x \in A, x > k PROVE x > j
            <6>1. x \in Int
              BY <1>1
            <6>2. QED
              BY <3>2, <4>1, <5>1, <6>1
          <5>2. QED
            BY <5>1 DEF Above
        <4>3. Cardinality(Above(A, k)) <= Cardinality(Above(A, j))
              /\ Cardinality(Above(A, k)) \in Nat /\ Cardinality(Above(A, j)) \in Nat
          BY <1>1, <4>2, FewerAbove
        <4>4. Cardinality(Above(A, j)) < Keep
          BY <1>n
        <4>5. QED
          BY <3>3, <4>3, <4>4, NewsConstants
      <3>5. Cardinality(N) >= Keep /\ Cardinality(N) \in Nat /\ IsFiniteSet(N)
        <4>1. Above(A, k) \subseteq A
          BY DEF Above
        <4>2. /\ Cardinality(Above(A, k)) <= Cardinality(A)
              /\ Cardinality(Above(A, k)) \in Nat /\ Cardinality(A) \in Nat
          BY <1>1, <4>1, FS_Subset, FS_CardinalityType
        <4>3. Cardinality(A) >= Keep
          BY <3>3, <4>2, NewsConstants
        <4>4. Cardinality(N) >= Keep
          BY <1>1, <4>3, NewestFull DEF N
        <4>5. QED
          BY <1>1, <1>2, <4>4, FS_Subset, FS_CardinalityType
      <3>6. N \subseteq Above(V, i)
        <4>1. ASSUME NEW j \in N PROVE j \in V /\ j > i
          <5>1. j > k /\ j \in Int
            BY <1>2, <3>4
          <5>2. QED
            BY <3>2, <5>1
        <4>2. QED
          BY <4>1 DEF Above
      <3>7. IsFiniteSet(Above(V, i))
        <4>1. Above(V, i) \subseteq V
          BY DEF Above
        <4>2. QED
          BY <1>3, <4>1, FS_Subset
      <3>8. Cardinality(N) <= Cardinality(Above(V, i)) /\ Cardinality(Above(V, i)) \in Nat
        BY <3>6, <3>7, FS_Subset, FS_CardinalityType
      <3>9. QED
        BY <1>5, <3>5, <3>8, NewsConstants
    <2>3. QED
      BY <2>1, <2>2
  <1>6. News!Newest(U) = News!Newest(V)
    <2> HIDE DEF U, V
    <2>1. QED
      BY <1>u, <1>4, <1>5
  <1>7. QED
    BY <1>6 DEF N

LEMMA CutTwice ==
  ASSUME NEW A \in SUBSET News!Item
  PROVE  News!Newest(News!Newest(A)) = News!Newest(A)
  <1>1. {} \in SUBSET News!Item
    OBVIOUS
  <1>2. News!Newest({} \cup News!Newest(A)) = News!Newest({} \cup A)
    BY <1>1, CutAndMerge
  <1>3. {} \cup News!Newest(A) = News!Newest(A) /\ {} \cup A = A
    OBVIOUS
  <1>4. QED
    BY <1>2, <1>3

LEMMA NewsStart == News!Init => NewsInv
  <1> SUFFICES ASSUME News!Init PROVE NewsInv
    OBVIOUS
  <1>1. News!Newest({}) = {}
    BY DEF News!Newest
  <1>2. News!NoNews \in News!Snapshot /\ \A s \in Source : News!NoNews[s] = {}
    BY DEF News!NoNews, News!Snapshot
  <1>3. 0 \in 0 .. MaxItem /\ 0 \in 0 .. MaxCrash
    BY NewsConstants
  <1>4. NewsShape
    BY <1>2, <1>3 DEF News!Init, NewsShape
  <1>5. NewsCut /\ News!NewsKept
    BY <1>1, <1>2 DEF News!Init, NewsCut, News!NewsKept
  <1>6. QED
    BY <1>4, <1>5 DEF NewsInv

LEMMA NewsMergeKeeps ==
  ASSUME NewsInv, News!FetchAndBroadcast PROVE NewsInv'
  <1> USE DEF NewsInv
  <1>1. /\ news_data \in News!Snapshot /\ news_latest \in News!Snapshot
        /\ news_seen \in News!Snapshot
    BY DEF NewsShape
  <1>2. ASSUME NEW s \in Source
        PROVE  /\ news_data[s] \in SUBSET News!Item /\ news_latest[s] \in SUBSET News!Item
               /\ news_seen[s] \in SUBSET News!Item
               /\ news_data[s] = News!Newest(news_seen[s])
    BY <1>1 DEF News!Snapshot, News!NewsKept
  <1>3. \A s \in Source : news_seen'[s] = news_seen[s] \cup news_latest[s]
    BY DEF News!FetchAndBroadcast
  <1>4. /\ news_data' = News!MergeNewsSnapshots(news_data, news_latest)
        /\ news_sets' = news_sets \cup {news_data'}
        /\ news_seen' = [s \in Source |-> news_seen[s] \cup news_latest[s]]
    BY DEF News!FetchAndBroadcast
  <1>5. ASSUME NEW s \in Source
        PROVE  /\ news_data'[s] = News!Newest(news_seen'[s])
               /\ news_data'[s] \in SUBSET News!Item
               /\ news_data'[s] = News!Newest(news_data'[s])
    <2> DEFINE a == news_seen[s]
               b == news_latest[s]
    <2>1. a \in SUBSET News!Item /\ b \in SUBSET News!Item
          /\ news_data[s] = News!Newest(a) /\ news_seen'[s] = a \cup b
      BY <1>2, <1>3
    <2>2. news_data'[s] = IF b = {} THEN News!Newest(news_data[s])
                          ELSE News!Newest(b \cup news_data[s])
      BY <1>4 DEF News!MergeNewsSnapshots
    <2> HIDE DEF a, b
    <2>3. CASE b = {}
      <3>1. news_data'[s] = News!Newest(a) /\ a \cup b = a
        BY <2>1, <2>2, <2>3, CutTwice
      <3>2. QED
        BY <2>1, <3>1, CutTwice, NewestIs
    <2>4. CASE b # {}
      <3>1. news_data'[s] = News!Newest(b \cup a) /\ a \cup b = b \cup a
        BY <2>1, <2>2, <2>4, CutAndMerge
      <3>2. b \cup a \in SUBSET News!Item
        BY <2>1
      <3>3. QED
        BY <2>1, <3>1, <3>2, CutTwice, NewestIs
    <2>5. QED
      BY <2>3, <2>4
  <1>6. news_data' \in News!Snapshot /\ news_seen' \in News!Snapshot
    <2>1. news_data' = [s \in Source |-> news_data'[s]]
      BY <1>4 DEF News!MergeNewsSnapshots
    <2>2. news_data' \in News!Snapshot
      BY <1>5, <2>1 DEF News!Snapshot
    <2>3. QED
      BY <1>2, <1>4, <2>2 DEF News!Snapshot
  <1>7. NewsShape'
    BY <1>4, <1>6 DEF NewsShape, News!FetchAndBroadcast
  <1>8. News!NewsKept'
    BY <1>5 DEF News!NewsKept
  <1>9. NewsCut'
    BY <1>4, <1>5 DEF NewsCut, News!FetchAndBroadcast
  <1>10. QED
    BY <1>7, <1>8, <1>9

LEMMA NewsKeeps == NewsInv /\ [News!Next]_newsVars => NewsInv'
  <1> SUFFICES ASSUME NewsInv, [News!Next]_newsVars PROVE NewsInv'
    OBVIOUS
  <1> USE DEF NewsInv
  <1>0. /\ News!NoNews \in News!Snapshot /\ \A s \in Source : News!NoNews[s] = {}
        /\ News!Newest({}) = {}
    BY DEF News!NoNews, News!Snapshot, News!Newest
  <1>1. ASSUME UNCHANGED newsVars PROVE NewsInv'
    BY <1>1 DEF newsVars, NewsShape, NewsCut, News!NewsKept
  <1>2. ASSUME NEW s \in Source, News!Publish(s) PROVE NewsInv'
    <2>1. news_published' \in [Source -> 0 .. MaxItem]
      <3>1. news_published[s] \in 0 .. MaxItem /\ news_published[s] < MaxItem
        BY <1>2 DEF News!Publish, NewsShape
      <3>2. news_published[s] + 1 \in 0 .. MaxItem
        BY <3>1, NewsConstants
      <3>3. QED
        BY <1>2, <3>2 DEF News!Publish, NewsShape
    <2>2. QED
      BY <1>2, <2>1 DEF News!Publish, NewsShape, NewsCut, News!NewsKept, News!loopVars
  <1>3. ASSUME NEW s \in Source, News!FetchNewsFeed(s) PROVE NewsInv'
    <2>1. News!Shown(s) \in SUBSET News!Item /\ {} \in SUBSET News!Item
      BY DEF News!Shown
    <2>2. news_latest' \in News!Snapshot
      <3>1. PICK list \in {News!Shown(s), {}} : news_latest' = [news_latest EXCEPT ![s] = list]
        BY <1>3 DEF News!FetchNewsFeed
      <3>2. list \in SUBSET News!Item
        BY <2>1
      <3> HIDE DEF News!Item
      <3>3. QED
        BY <3>1, <3>2 DEF NewsShape, News!Snapshot
    <2>3. NewsShape'
      BY <1>3, <2>2 DEF News!FetchNewsFeed, NewsShape
    <2>4. QED
      BY <1>3, <2>3 DEF News!FetchNewsFeed, NewsCut, News!NewsKept
  <1>4. ASSUME News!Preload PROVE NewsInv'
    <2>1. PICK got \in {news_redis, News!NoNews} : news_data' = got /\ news_seen' = got
      BY <1>4 DEF News!Preload
    <2>2. got \in News!Snapshot /\ \A s \in Source : got[s] = News!Newest(got[s])
      BY <1>0, <2>1 DEF NewsShape, NewsCut
    <2>3. NewsShape'
      BY <1>4, <2>1, <2>2 DEF News!Preload, NewsShape
    <2>4. QED
      BY <1>4, <2>1, <2>2, <2>3 DEF News!Preload, NewsCut, News!NewsKept
  <1>5. ASSUME News!TriggerRefresh PROVE NewsInv'
    BY <1>5 DEF News!TriggerRefresh, NewsShape, NewsCut, News!NewsKept
  <1>6. ASSUME News!TakeTick \/ News!TakeKick PROVE NewsInv'
    <2>1. NewsShape'
      BY <1>0, <1>6 DEF News!TakeTick, News!TakeKick, News!Begin, NewsShape
    <2>2. QED
      BY <1>6, <2>1 DEF News!TakeTick, News!TakeKick, News!Begin, NewsCut, News!NewsKept
  <1>7. ASSUME News!PersistNewsSnapshot PROVE NewsInv'
    <2>1. PICK snap \in news_sets : /\ news_sets' = news_sets \ {snap}
                                    /\ news_redis' = snap \/ news_redis' = news_redis
      BY <1>7 DEF News!PersistNewsSnapshot
    <2>2. snap \in News!Snapshot
      BY DEF NewsShape
    <2>3. NewsShape'
      BY <1>7, <2>1, <2>2 DEF News!PersistNewsSnapshot, News!loopVars, NewsShape
    <2>4. NewsCut'
      BY <2>1 DEF NewsCut
    <2>5. QED
      BY <1>7, <2>3, <2>4 DEF News!PersistNewsSnapshot, News!NewsKept
  <1>8. ASSUME News!Crash PROVE NewsInv'
    <2>1. news_crashes' \in 0 .. MaxCrash
      BY <1>8, NewsConstants DEF News!Crash, NewsShape
    <2>2. NewsShape'
      BY <1>0, <1>8, <2>1 DEF News!Crash, NewsShape
    <2>3. QED
      BY <1>0, <1>8, <2>2 DEF News!Crash, NewsCut, News!NewsKept
  <1>9. QED
    BY <1>1, <1>2, <1>3, <1>4, <1>5, <1>6, <1>7, <1>8, NewsMergeKeeps DEF News!Next

LEMMA NewsShows == NewsInv => News!TypeOK /\ News!NewsKept
  BY DEF NewsInv, NewsShape, News!TypeOK

-----------------------------------------------------------------------------
(***************************************************************************)
(* The liquidation statistics.                                             *)
(***************************************************************************)
LiqLoop ==
  [pc: {"none", "tick", "snapshot", "save"}, seen: Nat, last: Nat, row: Liq!Row \cup {<<>>}]

LiqShape ==
  /\ liq_clock \in Liq!Hour /\ liq_version \in Nat
  /\ DOMAIN liq_hours \subseteq Liq!Hour /\ liq_hours \in [DOMAIN liq_hours -> Nat]
  /\ DOMAIN liq_days \subseteq Liq!Hour /\ liq_days \in [DOMAIN liq_days -> Nat]
  /\ liq_coll \in [Liq!Chan -> {"none", "dial", "read", "gone"}]
  /\ liq_closed \subseteq Liq!Chan \ {Liq!Background} /\ liq_clients \subseteq Viewer
  /\ liq_hubC \in {Liq!None} \cup 2 .. MaxChan /\ liq_timers \in 0 .. MaxTimer
  /\ liq_made \in Liq!Chan
  /\ liq_loop \in [Liq!Chan -> LiqLoop]
  /\ \A c \in Liq!Chan : liq_loop[c].pc = "save" => liq_loop[c].row \in Liq!Row
  /\ liq_saves \subseteq Liq!Row /\ liq_row \in [Liq!Hour -> Nat] /\ liq_fails \in 0 .. MaxFail

\* Channels are used in the order they are made.
ChannelsNumbered ==
  /\ \A c \in Liq!Chan : c > liq_made => liq_coll[c] = "none" /\ c \notin liq_closed
  /\ liq_hubC # Liq!None => liq_hubC <= liq_made /\ liq_hubC \notin liq_closed

LiqInv == LiqShape /\ ChannelsNumbered /\ Liq!ViewersAreServed /\ Liq!SeriesAgree

LEMMA LiqConstants ==
  /\ DayHours \in Nat \ {0} /\ Retention \in Nat /\ PruneEvery \in Nat \ {0}
  /\ MaxHour \in Nat /\ MaxEvent \in Nat /\ MaxChan \in Nat \ {0}
  /\ MaxTimer \in Nat /\ MaxSave \in Nat /\ MaxFail \in Nat
  BY SafetyAssumption DEF Liq!TimeAssumption, Liq!BoundAssumption

LEMMA LiqSum == \A f, S : Liq!SumFunctionOnSet(f, S) = SumFunctionOnSet(f, S)
  BY DEF Liq!SumFunctionOnSet, Liq!FoldFunctionOnSet, Liq!MapThenFoldSet,
     SumFunctionOnSet, FoldFunctionOnSet, MapThenFoldSet

LEMMA HoursAreNumbers ==
  \A h \in Liq!Hour : h \in Nat /\ h <= MaxHour
  <1>1. \A h \in 0 .. MaxHour : h \in Nat /\ h <= MaxHour
    BY LiqConstants
  <1>2. QED
    BY <1>1 DEF Liq!Hour

\* A day begins with none of its hours before it, and days are in the order of
\* their hours.
LEMMA DaysInOrder ==
  ASSUME NEW h \in Nat
  PROVE  /\ Liq!DayStart(h) \in Nat /\ Liq!DayStart(h) <= h
         /\ \A k \in Nat : k <= h => Liq!DayStart(k) <= Liq!DayStart(h)
  <1> DEFINE d == DayHours
  <1>0. d \in Nat \ {0}
    BY LiqConstants
  <1>1. \A n \in Nat : n \div d \in Nat /\ (n \div d) * d <= n /\ n < (n \div d) * d + d
    <2> HIDE DEF d
    <2>1. \A n \in Nat, j \in Nat \ {0} :
            n \div j \in Nat /\ (n \div j) * j <= n /\ n < (n \div j) * j + j
      OBVIOUS
    <2>2. QED
      BY <1>0, <2>1, Zenon
  <1>2. PICK p \in Nat : p = h \div d /\ p * d <= h /\ h < p * d + d
    BY <1>1
  <1>3. Liq!DayStart(h) = p * d
    BY <1>2 DEF Liq!DayStart
  <1>4. ASSUME NEW k \in Nat, k <= h PROVE Liq!DayStart(k) <= Liq!DayStart(h)
    <2>1. PICK q \in Nat : q = k \div d /\ q * d <= k /\ k < q * d + d
      BY <1>1
    <2>2. Liq!DayStart(k) = q * d
      BY <2>1 DEF Liq!DayStart
    <2> HIDE DEF d
    <2>3. q <= p
      <3>1. \A i, j \in Nat, e \in Nat : i >= j + 1 => i * e >= j * e + e
        <4>1. \A i, j \in Nat, e \in Nat : i >= j + 1 => i * e >= (j + 1) * e
          OBVIOUS
        <4>2. \A j \in Nat, e \in Nat : (j + 1) * e = j * e + e
          OBVIOUS
        <4>3. QED
          BY <4>1, <4>2
      <3>2. q >= p + 1 => q * d >= p * d + d
        BY <1>0, <3>1
      <3>3. p * d \in Nat /\ q * d \in Nat /\ d \in Nat
        BY <1>0
      <3>4. QED
        BY <1>2, <1>4, <2>1, <3>2, <3>3
    <2>4. \A i, j \in Nat, e \in Nat : i <= j => i * e <= j * e
      OBVIOUS
    <2>5. q * d <= p * d
      BY <1>0, <2>3, <2>4
    <2>6. QED
      BY <1>3, <2>2, <2>5
  <1>5. p * d \in Nat
    <2> HIDE DEF d
    <2>1. QED
      BY <1>0
  <1>6. QED
    BY <1>2, <1>3, <1>4, <1>5

LEMMA DayIsHour == ASSUME NEW h \in Liq!Hour PROVE Liq!DayStart(h) \in Liq!Hour
  <1>1. h \in Nat /\ h <= MaxHour
    BY HoursAreNumbers
  <1>2. Liq!DayStart(h) \in Nat /\ Liq!DayStart(h) <= h
    BY <1>1, DaysInOrder
  <1>3. QED
    BY <1>1, <1>2, LiqConstants DEF Liq!Hour

\* The hours kept of a day.
OfDay(hours, d) == {h \in DOMAIN hours : Liq!DayStart(h) = d}
SumOf(hours, d) == SumFunctionOnSet(hours, OfDay(hours, d))

Agree(hours, days, clock) ==
  /\ \A h \in DOMAIN hours : Liq!DayStart(h) \in DOMAIN days
  /\ \A d \in DOMAIN days : /\ days[d] >= SumOf(hours, d)
                            /\ clock - Retention <= d => days[d] = SumOf(hours, d)

LEMMA SeriesAgreeIs == Liq!SeriesAgree <=> Agree(liq_hours, liq_days, liq_clock)
  BY LiqSum DEF Liq!SeriesAgree, Agree, SumOf, OfDay

LEMMA HoursFinite ==
  ASSUME NEW S \in SUBSET Liq!Hour PROVE IsFiniteSet(S)
  <1>1. 0 \in Int /\ MaxHour \in Int
    BY LiqConstants
  <1>2. IsFiniteSet(0 .. MaxHour)
    BY <1>1, FS_Interval
  <1>3. QED
    BY <1>2, FS_Subset DEF Liq!Hour

LEMMA SumsOfDays ==
  ASSUME NEW hours, DOMAIN hours \subseteq Liq!Hour, hours \in [DOMAIN hours -> Nat], NEW d
  PROVE  IsFiniteSet(OfDay(hours, d)) /\ SumOf(hours, d) \in Nat
  <1>1. OfDay(hours, d) \in SUBSET Liq!Hour /\ \A x \in OfDay(hours, d) : hours[x] \in Nat
    BY DEF OfDay
  <1>2. IsFiniteSet(OfDay(hours, d))
    BY <1>1, HoursFinite
  <1>3. QED
    BY <1>1, <1>2, SumNat DEF SumOf

\* One more in an hour is one more in the sum of its day.
LEMMA AddedTypes ==
  ASSUME NEW b, DOMAIN b \subseteq Liq!Hour, b \in [DOMAIN b -> Nat], NEW h \in Liq!Hour
  PROVE  /\ DOMAIN Liq!Added(b, h) = DOMAIN b \cup {h}
         /\ Liq!Added(b, h) \in [DOMAIN Liq!Added(b, h) -> Nat]
         /\ Liq!Added(b, h)[h] = Liq!Count(b, h) + 1
         /\ \A x \in DOMAIN b : x # h => Liq!Added(b, h)[x] = b[x]
         /\ Liq!Count(b, h) \in Nat
         /\ h \in DOMAIN b => Liq!Count(b, h) = b[h]
         /\ h \notin DOMAIN b => Liq!Count(b, h) = 0
  <1>1. /\ h \in DOMAIN b => Liq!Count(b, h) = b[h]
        /\ h \notin DOMAIN b => Liq!Count(b, h) = 0
    BY DEF Liq!Count
  <1>2. \A x \in DOMAIN b \cup {h} : Liq!Count(b, x) \in Nat
    BY DEF Liq!Count
  <1>3. Liq!Added(b, h)
          = [x \in DOMAIN b \cup {h} |-> Liq!Count(b, x) + IF x = h THEN 1 ELSE 0]
    BY DEF Liq!Added
  <1>4. \A x \in DOMAIN b \cup {h} :
          Liq!Added(b, h)[x] = Liq!Count(b, x) + IF x = h THEN 1 ELSE 0
    BY <1>3
  <1>5. \A x \in DOMAIN b \cup {h} : Liq!Added(b, h)[x] \in Nat
    BY <1>2, <1>4
  <1>6. Liq!Added(b, h) = [x \in DOMAIN b \cup {h} |-> Liq!Added(b, h)[x]]
    BY <1>3
  <1>7. \A x \in DOMAIN b : x # h => Liq!Added(b, h)[x] = b[x]
    <2>1. \A x \in DOMAIN b : x # h => Liq!Added(b, h)[x] = b[x] + 0 /\ b[x] \in Nat
      BY <1>4 DEF Liq!Count
    <2>2. QED
      BY <2>1
  <1>8. Liq!Added(b, h)[h] = Liq!Count(b, h) + 1
    BY <1>4
  <1>9. DOMAIN Liq!Added(b, h) = DOMAIN b \cup {h}
    BY <1>3
  <1>10. Liq!Added(b, h) \in [DOMAIN b \cup {h} -> Nat]
    <2> HIDE DEF Liq!Added
    <2>1. QED
      BY <1>5, <1>6
  <1>11. QED
    BY <1>1, <1>2, <1>7, <1>8, <1>9, <1>10

LEMMA AddedSums ==
  ASSUME NEW b, DOMAIN b \subseteq Liq!Hour, b \in [DOMAIN b -> Nat], NEW h \in Liq!Hour, NEW d
  PROVE  SumOf(Liq!Added(b, h), d) = SumOf(b, d) + IF d = Liq!DayStart(h) THEN 1 ELSE 0
  <1> DEFINE a == Liq!Added(b, h)
             K == OfDay(b, d)
             R == K \ {h}
  <1>1. /\ DOMAIN a = DOMAIN b \cup {h} /\ a \in [DOMAIN a -> Nat]
        /\ a[h] = Liq!Count(b, h) + 1 /\ Liq!Count(b, h) \in Nat
        /\ \A x \in DOMAIN b : x # h => a[x] = b[x]
        /\ h \in DOMAIN b => Liq!Count(b, h) = b[h]
        /\ h \notin DOMAIN b => Liq!Count(b, h) = 0
    BY AddedTypes
  <1> HIDE DEF a
  <1>2. IsFiniteSet(K) /\ SumOf(b, d) = SumFunctionOnSet(b, K) /\ SumOf(b, d) \in Nat
    BY SumsOfDays DEF SumOf
  <1>3. K \subseteq DOMAIN b /\ R \subseteq DOMAIN b /\ R \subseteq DOMAIN a /\ h \notin R
    BY <1>1 DEF OfDay
  <1>4. IsFiniteSet(R)
    BY <1>2, FS_Subset
  <1>5. /\ \A x \in R : a[x] = b[x] /\ a[x] \in Nat /\ b[x] \in Nat
        /\ \A x \in K : b[x] \in Nat
    BY <1>1, <1>3
  <1>6. SumFunctionOnSet(a, R) = SumFunctionOnSet(b, R) /\ SumFunctionOnSet(b, R) \in Nat
    BY <1>4, <1>5, SumSame, SumNat
  <1>7. CASE d = Liq!DayStart(h)
    <2>1. OfDay(a, d) = R \cup {h}
      BY <1>1, <1>7 DEF OfDay
    <2>2. SumFunctionOnSet(a, R \cup {h}) = a[h] + SumFunctionOnSet(a, R)
      <3>1. \A x \in R \cup {h} : a[x] \in Int
        BY <1>1, <1>5
      <3>2. QED
        BY <1>3, <1>4, <3>1, SumAdd
    <2>3. SumFunctionOnSet(b, K) = Liq!Count(b, h) + SumFunctionOnSet(b, R)
      <3>1. CASE h \in K
        <4>1. \A x \in K : b[x] \in Int
          BY <1>5
        <4>2. QED
          BY <1>1, <1>2, <1>3, <3>1, <4>1, SumRemove
      <3>2. CASE h \notin K
        <4>1. h \notin DOMAIN b /\ R = K
          BY <1>7, <3>2 DEF OfDay
        <4>2. SumFunctionOnSet(b, K) = SumFunctionOnSet(b, R)
          BY <4>1
        <4> HIDE DEF R, K
        <4>3. QED
          BY <1>1, <1>6, <4>1, <4>2
      <3>3. QED
        BY <3>1, <3>2
    <2>4. SumOf(a, d) = SumFunctionOnSet(a, R \cup {h})
      BY <2>1 DEF SumOf
    <2> HIDE DEF R, K
    <2>5. SumOf(a, d) = SumOf(b, d) + 1
      BY <1>1, <1>2, <1>6, <2>2, <2>3, <2>4
    <2>6. QED
      BY <1>7, <2>5 DEF a
  <1>8. CASE d # Liq!DayStart(h)
    <2>1. OfDay(a, d) = K /\ R = K
      BY <1>1, <1>8 DEF OfDay
    <2>2. SumOf(a, d) = SumFunctionOnSet(a, K)
      BY <2>1 DEF SumOf
    <2>3. SumFunctionOnSet(a, K) = SumFunctionOnSet(b, K)
      BY <1>6, <2>1
    <2> HIDE DEF R, K
    <2>4. SumOf(a, d) = SumOf(b, d)
      BY <1>2, <2>2, <2>3
    <2>5. QED
      BY <1>2, <1>8, <2>4 DEF a
  <1>9. QED
    BY <1>7, <1>8

LEMMA KeptTypes ==
  ASSUME NEW b, DOMAIN b \subseteq Liq!Hour, b \in [DOMAIN b -> Nat], NEW cutoff
  PROVE  /\ DOMAIN Liq!Kept(b, cutoff) = {x \in DOMAIN b : x >= cutoff}
         /\ Liq!Kept(b, cutoff) \in [DOMAIN Liq!Kept(b, cutoff) -> Nat]
         /\ \A x \in DOMAIN b : x >= cutoff => Liq!Kept(b, cutoff)[x] = b[x]
  BY DEF Liq!Kept

\* The two cut-offs keep the hours and the days in agreement.
LEMMA PrunedAgree ==
  ASSUME NEW hours, DOMAIN hours \subseteq Liq!Hour, hours \in [DOMAIN hours -> Nat],
         NEW days, DOMAIN days \subseteq Liq!Hour, days \in [DOMAIN days -> Nat],
         NEW clock \in Nat, Agree(hours, days, clock),
         NEW cutoff \in Nat, cutoff = 0 \/ cutoff <= clock - Retention
  PROVE  Agree(Liq!Kept(hours, cutoff), Liq!Kept(days, Liq!DayStart(cutoff)), clock)
  <1> DEFINE H == Liq!Kept(hours, cutoff)
             D == Liq!Kept(days, Liq!DayStart(cutoff))
  <1>1. /\ DOMAIN H = {x \in DOMAIN hours : x >= cutoff} /\ H \in [DOMAIN H -> Nat]
        /\ \A x \in DOMAIN H : H[x] = hours[x]
    BY KeptTypes
  <1>2. /\ DOMAIN D = {x \in DOMAIN days : x >= Liq!DayStart(cutoff)}
        /\ \A x \in DOMAIN D : D[x] = days[x]
    BY KeptTypes
  <1> HIDE DEF H, D
  <1>3. ASSUME NEW h \in DOMAIN H PROVE Liq!DayStart(h) \in DOMAIN D
    <2>1. h \in DOMAIN hours /\ h >= cutoff /\ h \in Nat
      BY <1>1, HoursAreNumbers
    <2>2. Liq!DayStart(cutoff) <= Liq!DayStart(h) /\ Liq!DayStart(h) \in Nat
      BY <2>1, DaysInOrder
    <2>3. Liq!DayStart(cutoff) \in Nat
      BY DaysInOrder
    <2>4. Liq!DayStart(h) \in DOMAIN days
      BY <2>1 DEF Agree
    <2>5. Liq!DayStart(h) >= Liq!DayStart(cutoff)
      BY <2>2, <2>3
    <2>6. QED
      BY <1>2, <2>4, <2>5
  <1>4. ASSUME NEW d \in DOMAIN D
        PROVE  /\ D[d] >= SumOf(H, d)
               /\ clock - Retention <= d => D[d] = SumOf(H, d)
    <2> DEFINE K == OfDay(hours, d)
               R == OfDay(H, d)
    <2>1. d \in DOMAIN days /\ D[d] = days[d] /\ d \in Nat /\ days[d] \in Nat
      BY <1>2, HoursAreNumbers
    <2>2. /\ days[d] >= SumOf(hours, d)
          /\ clock - Retention <= d => days[d] = SumOf(hours, d)
      BY <2>1 DEF Agree
    <2>3. IsFiniteSet(K) /\ SumOf(hours, d) = SumFunctionOnSet(hours, K)
          /\ SumOf(hours, d) \in Nat
      BY SumsOfDays DEF SumOf
    <2>4. R = {x \in DOMAIN hours : x >= cutoff} \cap K /\ R \subseteq DOMAIN H
      BY <1>1 DEF OfDay
    <2>5. IsFiniteSet(R) /\ SumOf(H, d) = SumFunctionOnSet(H, R)
      BY <2>3, <2>4, FS_Subset DEF SumOf
    <2>6. \A x \in K : hours[x] \in Nat
      BY DEF OfDay
    <2>7. \A x \in R : H[x] = hours[x]
      BY <1>1, <2>4
    <2>8. clock - Retention <= d => R = K
      <3> SUFFICES ASSUME clock - Retention <= d, NEW x \in K PROVE x \in R
        BY <2>4
      <3>1. x \in DOMAIN hours /\ Liq!DayStart(x) = d
        BY DEF OfDay
      <3>2. x \in Nat
        BY <3>1, HoursAreNumbers
      <3>3. d <= x
        BY <3>1, <3>2, DaysInOrder
      <3>4. cutoff <= d
        BY <2>1, LiqConstants
      <3>5. x >= cutoff
        BY <2>1, <3>2, <3>3, <3>4
      <3>6. QED
        BY <2>4, <3>1, <3>5
    <2> HIDE DEF K, R
    <2>9. SumFunctionOnSet(H, R) = SumFunctionOnSet(hours, R)
      BY <2>5, <2>7, SumSame
    <2>10. SumFunctionOnSet(hours, R) <= SumFunctionOnSet(hours, K)
      BY <2>3, <2>4, <2>6, SumPart
    <2>11. SumFunctionOnSet(hours, R) \in Nat
      <3>1. \A x \in R : hours[x] \in Nat
        BY <2>4, <2>6
      <3>2. QED
        BY <2>5, <3>1, SumNat
    <2>12. SumOf(H, d) <= SumOf(hours, d) /\ SumOf(H, d) \in Nat
      BY <2>3, <2>5, <2>9, <2>10, <2>11
    <2>13. clock - Retention <= d => SumOf(H, d) = SumOf(hours, d)
      BY <2>3, <2>5, <2>8, <2>9
    <2>14. D[d] >= SumOf(H, d)
      BY <2>1, <2>2, <2>3, <2>12
    <2>15. QED
      BY <2>1, <2>2, <2>13, <2>14
  <1>5. QED
    BY <1>3, <1>4 DEF Agree, H, D

LEMMA AddedAgree ==
  ASSUME NEW hours, DOMAIN hours \subseteq Liq!Hour, hours \in [DOMAIN hours -> Nat],
         NEW days, DOMAIN days \subseteq Liq!Hour, days \in [DOMAIN days -> Nat],
         NEW clock \in Nat, Agree(hours, days, clock), NEW h \in Liq!Hour
  PROVE  Agree(Liq!Added(hours, h), Liq!Added(days, Liq!DayStart(h)), clock)
  <1> DEFINE s == Liq!DayStart(h)
             H == Liq!Added(hours, h)
             D == Liq!Added(days, s)
  <1>1. s \in Liq!Hour
    BY DayIsHour
  <1>2. DOMAIN H = DOMAIN hours \cup {h}
    BY AddedTypes
  <1>3. \A d : SumOf(H, d) = SumOf(hours, d) + IF d = s THEN 1 ELSE 0
    BY AddedSums
  <1>4. /\ DOMAIN D = DOMAIN days \cup {s} /\ D[s] = Liq!Count(days, s) + 1
        /\ \A x \in DOMAIN days : x # s => D[x] = days[x]
        /\ s \in DOMAIN days => Liq!Count(days, s) = days[s]
        /\ s \notin DOMAIN days => Liq!Count(days, s) = 0
    BY <1>1, AddedTypes
  <1> HIDE DEF H, D
  <1>5. \A x \in DOMAIN H : Liq!DayStart(x) \in DOMAIN D
    BY <1>2, <1>4 DEF Agree
  <1>6. ASSUME NEW d \in DOMAIN D
        PROVE  /\ D[d] >= SumOf(H, d)
               /\ clock - Retention <= d => D[d] = SumOf(H, d)
    <2>1. SumOf(hours, d) \in Nat
      BY SumsOfDays
    <2>2. CASE d \in DOMAIN days
      <3>1. /\ days[d] \in Nat /\ days[d] >= SumOf(hours, d)
            /\ clock - Retention <= d => days[d] = SumOf(hours, d)
        BY <2>2 DEF Agree
      <3>2. CASE d = s
        <4>1. D[d] = days[d] + 1 /\ SumOf(H, d) = SumOf(hours, d) + 1
          BY <1>3, <1>4, <2>2, <3>2
        <4>2. QED
          BY <2>1, <3>1, <4>1
      <3>3. CASE d # s
        <4>1. D[d] = days[d] /\ SumOf(H, d) = SumOf(hours, d) + 0
          BY <1>3, <1>4, <2>2, <3>3
        <4>2. QED
          BY <2>1, <3>1, <4>1
      <3>4. QED
        BY <3>2, <3>3
    <2>3. CASE d \notin DOMAIN days
      <3>1. d = s /\ D[d] = 0 + 1 /\ SumOf(H, d) = SumOf(hours, d) + 1
        BY <1>3, <1>4, <2>3
      <3>2. OfDay(hours, d) = {}
        BY <2>3 DEF OfDay, Agree
      <3>3. SumOf(hours, d) = 0
        BY <3>2, SumEmpty DEF SumOf
      <3>4. QED
        BY <3>1, <3>3
    <2>4. QED
      BY <2>2, <2>3
  <1>7. QED
    BY <1>5, <1>6 DEF Agree, H, D

LEMMA LiqAdded ==
  ASSUME LiqShape, Liq!SeriesAgree, NEW h \in Liq!Hour, Liq!AddEvent(h)
  PROVE  /\ DOMAIN liq_hours' \subseteq Liq!Hour /\ liq_hours' \in [DOMAIN liq_hours' -> Nat]
         /\ DOMAIN liq_days' \subseteq Liq!Hour /\ liq_days' \in [DOMAIN liq_days' -> Nat]
         /\ liq_version' \in Nat
         /\ Agree(liq_hours', liq_days', liq_clock)
  <1>1. /\ DOMAIN liq_hours \subseteq Liq!Hour /\ liq_hours \in [DOMAIN liq_hours -> Nat]
        /\ DOMAIN liq_days \subseteq Liq!Hour /\ liq_days \in [DOMAIN liq_days -> Nat]
        /\ Agree(liq_hours, liq_days, liq_clock) /\ liq_clock \in Nat
        /\ liq_version \in Nat
    BY SeriesAgreeIs, HoursAreNumbers DEF LiqShape
  <1>2. PICK prune \in BOOLEAN :
          LET cutoff == IF prune /\ liq_clock >= Retention THEN liq_clock - Retention ELSE 0
          IN  /\ liq_hours' = Liq!Kept(Liq!Added(liq_hours, h), cutoff)
              /\ liq_days' = Liq!Kept(Liq!Added(liq_days, Liq!DayStart(h)), Liq!DayStart(cutoff))
              /\ liq_version' = liq_version + 1
    BY DEF Liq!AddEvent
  <1> DEFINE cutoff == IF prune /\ liq_clock >= Retention THEN liq_clock - Retention ELSE 0
             H == Liq!Added(liq_hours, h)
             D == Liq!Added(liq_days, Liq!DayStart(h))
  <1>3. cutoff \in Nat /\ (cutoff = 0 \/ cutoff <= liq_clock - Retention)
    BY <1>1, LiqConstants
  <1>4. /\ liq_hours' = Liq!Kept(H, cutoff)
        /\ liq_days' = Liq!Kept(D, Liq!DayStart(cutoff))
        /\ liq_version' = liq_version + 1
    BY <1>2
  <1> HIDE DEF cutoff
  <1>5. DOMAIN H = DOMAIN liq_hours \cup {h} /\ H \in [DOMAIN H -> Nat]
    BY <1>1, AddedTypes
  <1>6. DOMAIN D = DOMAIN liq_days \cup {Liq!DayStart(h)} /\ D \in [DOMAIN D -> Nat]
        /\ Liq!DayStart(h) \in Liq!Hour
    BY <1>1, AddedTypes, DayIsHour
  <1>7. Agree(H, D, liq_clock)
    BY <1>1, AddedAgree
  <1> HIDE DEF H, D
  <1>8. DOMAIN H \subseteq Liq!Hour /\ DOMAIN D \subseteq Liq!Hour
    BY <1>1, <1>5, <1>6
  <1>9. Agree(liq_hours', liq_days', liq_clock)
    BY <1>1, <1>3, <1>4, <1>5, <1>6, <1>7, <1>8, PrunedAgree
  <1>10. /\ DOMAIN liq_hours' = {x \in DOMAIN H : x >= cutoff}
         /\ liq_hours' \in [DOMAIN liq_hours' -> Nat]
    BY <1>4, <1>5, <1>8, KeptTypes
  <1>11. /\ DOMAIN liq_days' = {x \in DOMAIN D : x >= Liq!DayStart(cutoff)}
         /\ liq_days' \in [DOMAIN liq_days' -> Nat]
    BY <1>4, <1>6, <1>8, KeptTypes
  <1>12. liq_version' \in Nat
    BY <1>1, <1>4
  <1>13. DOMAIN liq_hours' \subseteq Liq!Hour /\ DOMAIN liq_days' \subseteq Liq!Hour
    BY <1>8, <1>10, <1>11
  <1>14. QED
    BY <1>9, <1>10, <1>11, <1>12, <1>13

LEMMA LiqStart == Liq!Init => LiqInv
  <1> SUFFICES ASSUME Liq!Init PROVE LiqInv
    OBVIOUS
  <1> DEFINE e == <<>>
  <1>1. DOMAIN e = {} /\ e \in [{} -> Nat] /\ e \in {<<>>}
    OBVIOUS
  <1>2. /\ liq_hours = e /\ liq_days = e
        /\ Liq!NoLoop = [pc |-> "none", seen |-> 0, last |-> 0, row |-> e]
    BY DEF Liq!Init, Liq!NoLoop
  <1>3. Liq!NoLoop \in LiqLoop /\ Liq!Idle \in LiqLoop
        /\ Liq!NoLoop.pc = "none" /\ Liq!Idle.pc = "tick"
    <2>1. e \in Liq!Row \cup {<<>>}
      BY <1>1
    <2> HIDE DEF e
    <2>2. QED
      BY <1>2, <2>1 DEF LiqLoop, Liq!Idle
  <1> HIDE DEF e
  <1>4. Liq!Chan \subseteq Nat /\ 1 \in Liq!Chan /\ \A c \in Liq!Chan : c > 1 => c # 1
    BY LiqConstants DEF Liq!Chan
  <1>5. 0 \in Liq!Hour /\ 0 \in 0 .. MaxTimer /\ 0 \in 0 .. MaxFail
    BY LiqConstants DEF Liq!Hour
  <1>6. LiqShape
    <2>1. /\ liq_loop \in [Liq!Chan -> LiqLoop]
          /\ \A c \in Liq!Chan : liq_loop[c].pc # "save"
      BY <1>3 DEF Liq!Init
    <2>2. /\ liq_clock \in Liq!Hour /\ liq_version \in Nat
          /\ liq_timers \in 0 .. MaxTimer /\ liq_fails \in 0 .. MaxFail
          /\ liq_row \in [Liq!Hour -> Nat] /\ liq_saves = {} /\ liq_clients = {}
          /\ liq_closed = {} /\ liq_hubC = Liq!None
      BY <1>5 DEF Liq!Init
    <2>3. /\ liq_coll \in [Liq!Chan -> {"none", "dial", "read", "gone"}]
          /\ liq_made \in Liq!Chan
      BY <1>4 DEF Liq!Init, Liq!Background
    <2>4. /\ DOMAIN liq_hours \subseteq Liq!Hour /\ liq_hours \in [DOMAIN liq_hours -> Nat]
          /\ DOMAIN liq_days \subseteq Liq!Hour /\ liq_days \in [DOMAIN liq_days -> Nat]
      BY <1>1, <1>2
    <2>5. QED
      BY <2>1, <2>2, <2>3, <2>4 DEF LiqShape
  <1>7. ChannelsNumbered
    BY <1>4 DEF Liq!Init, ChannelsNumbered, Liq!Background
  <1>8. Liq!ViewersAreServed
    BY DEF Liq!Init, Liq!ViewersAreServed, Liq!Background
  <1>9. Liq!SeriesAgree
    <2>1. Agree(liq_hours, liq_days, liq_clock)
      BY <1>1, <1>2 DEF Agree
    <2>2. QED
      BY <2>1, SeriesAgreeIs
  <1>10. QED
    BY <1>6, <1>7, <1>8, <1>9 DEF LiqInv

\* The series do not depend on the rest.
LEMMA SeriesUntouched ==
  ASSUME Liq!SeriesAgree, liq_hours' = liq_hours, liq_days' = liq_days, liq_clock' = liq_clock
  PROVE  Liq!SeriesAgree'
  BY DEF Liq!SeriesAgree

LEMMA LiqHourKeeps == ASSUME LiqInv, Liq!HourPasses PROVE LiqInv'
  <1> USE DEF LiqInv
  <1>1. /\ liq_clock < MaxHour /\ liq_clock' = liq_clock + 1
        /\ liq_hours' = liq_hours /\ liq_days' = liq_days /\ liq_version' = liq_version
        /\ UNCHANGED <<liq_coll, liq_closed, liq_clients, liq_hubC, liq_timers, liq_made,
                       liq_loop, liq_saves, liq_row, liq_fails>>
    BY DEF Liq!HourPasses, Liq!storeVars, Liq!hubVars
  <1>2. liq_clock \in Nat
    BY HoursAreNumbers DEF LiqShape
  <1>3. liq_clock' \in Liq!Hour
    BY <1>1, <1>2, LiqConstants DEF Liq!Hour
  <1>4. LiqShape'
    BY <1>1, <1>3 DEF LiqShape
  <1>5. ChannelsNumbered' /\ Liq!ViewersAreServed'
    BY <1>1 DEF ChannelsNumbered, Liq!ViewersAreServed
  <1>6. Liq!SeriesAgree'
    <2>1. Agree(liq_hours, liq_days, liq_clock) /\ DOMAIN liq_days \subseteq Liq!Hour
      BY SeriesAgreeIs DEF LiqShape
    <2>2. \A d \in DOMAIN liq_days : d \in Nat
      BY <2>1, HoursAreNumbers
    <2>3. \A d \in Nat : (liq_clock + 1) - Retention <= d => liq_clock - Retention <= d
      BY <1>2, LiqConstants
    <2>4. Agree(liq_hours, liq_days, liq_clock + 1)
      <3>1. \A d \in DOMAIN liq_days : (liq_clock + 1) - Retention <= d
              => liq_clock - Retention <= d
        BY <2>2, <2>3
      <3>2. ASSUME NEW d \in DOMAIN liq_days
            PROVE  /\ liq_days[d] >= SumOf(liq_hours, d)
                   /\ (liq_clock + 1) - Retention <= d => liq_days[d] = SumOf(liq_hours, d)
        BY <2>1, <3>1, Zenon DEF Agree
      <3>3. \A h \in DOMAIN liq_hours : Liq!DayStart(h) \in DOMAIN liq_days
        BY <2>1 DEF Agree
      <3> HIDE DEF LiqInv
      <3>4. QED
        BY <3>2, <3>3, Zenon DEF Agree
    <2>5. Liq!SeriesAgree'
      BY <1>1, <2>4, LiqSum DEF Liq!SeriesAgree, Agree, SumOf, OfDay
    <2>6. QED
      BY <2>5
  <1>7. QED
    BY <1>4, <1>5, <1>6

\* A collector that moves has begun.
LEMMA LiqCollectorMoves ==
  ASSUME LiqInv, NEW c \in Liq!Chan, NEW from \in {"dial", "read"},
         NEW to \in {"dial", "read", "gone"}, Liq!Moves(c, from, to),
         UNCHANGED <<liq_closed, liq_clients, liq_hubC, liq_timers, liq_made>>
  PROVE  /\ liq_coll' \in [Liq!Chan -> {"none", "dial", "read", "gone"}]
         /\ ChannelsNumbered' /\ Liq!ViewersAreServed'
  <1> USE DEF LiqInv
  <1>1. liq_coll \in [Liq!Chan -> {"none", "dial", "read", "gone"}] /\ liq_coll[c] = from
        /\ liq_coll' = [liq_coll EXCEPT ![c] = to]
    BY DEF LiqShape, Liq!Moves
  <1>2. \A b \in Liq!Chan : liq_coll'[b] # "none" <=> liq_coll[b] # "none"
    BY <1>1
  <1>3. ChannelsNumbered'
    BY <1>2 DEF ChannelsNumbered
  <1>4. Liq!ViewersAreServed'
    BY <1>2 DEF Liq!ViewersAreServed
  <1>5. QED
    BY <1>1, <1>3, <1>4

LEMMA LiqCollectorKeeps ==
  ASSUME LiqInv, NEW c \in Liq!Chan, Liq!CollectorStep(c) PROVE LiqInv'
  <1> USE DEF LiqInv
  <1>1. ASSUME Liq!Dial(c) \/ Liq!ConnectionLost(c) PROVE LiqInv'
    <2>1. /\ UNCHANGED <<liq_clock, liq_hours, liq_days, liq_version, liq_closed,
                         liq_clients, liq_hubC, liq_timers, liq_made, liq_loop,
                         liq_saves, liq_row, liq_fails>>
          /\ \E from \in {"dial", "read"}, to \in {"dial", "read", "gone"} :
               Liq!Moves(c, from, to)
      BY <1>1 DEF Liq!Dial, Liq!ConnectionLost, Liq!storeVars, Liq!hubVars
    <2>2. /\ liq_coll' \in [Liq!Chan -> {"none", "dial", "read", "gone"}]
          /\ ChannelsNumbered' /\ Liq!ViewersAreServed'
      BY <2>1, LiqCollectorMoves
    <2>3. LiqShape'
      BY <2>1, <2>2 DEF LiqShape
    <2>4. Liq!SeriesAgree'
      BY <2>1, SeriesUntouched
    <2>5. QED
      BY <2>2, <2>3, <2>4
  <1>2. ASSUME Liq!Collect(c) PROVE LiqInv'
    <2>1. /\ UNCHANGED <<liq_clock, liq_closed, liq_clients, liq_hubC, liq_timers,
                         liq_made, liq_loop, liq_saves, liq_row, liq_fails>>
          /\ \E to \in {"dial", "read", "gone"} : Liq!Moves(c, "read", to)
      BY <1>2 DEF Liq!Collect, Liq!hubVars
    <2>2. PICK h \in Liq!Hour : Liq!AddEvent(h)
      BY <1>2 DEF Liq!Collect
    <2>3. /\ liq_coll' \in [Liq!Chan -> {"none", "dial", "read", "gone"}]
          /\ ChannelsNumbered' /\ Liq!ViewersAreServed'
      BY <2>1, LiqCollectorMoves
    <2>4. /\ DOMAIN liq_hours' \subseteq Liq!Hour /\ liq_hours' \in [DOMAIN liq_hours' -> Nat]
          /\ DOMAIN liq_days' \subseteq Liq!Hour /\ liq_days' \in [DOMAIN liq_days' -> Nat]
          /\ liq_version' \in Nat
          /\ Agree(liq_hours', liq_days', liq_clock)
      BY <2>2, LiqAdded
    <2>5. LiqShape'
      BY <2>1, <2>3, <2>4 DEF LiqShape
    <2>6. Liq!SeriesAgree'
      BY <2>1, <2>4, LiqSum DEF Liq!SeriesAgree, Agree, SumOf, OfDay
    <2>7. QED
      BY <2>3, <2>5, <2>6
  <1>3. QED
    BY <1>1, <1>2 DEF Liq!CollectorStep

LEMMA LiqRow == LiqShape => Liq!CurrentRow \in Liq!Row
  <1> SUFFICES ASSUME LiqShape PROVE Liq!CurrentRow \in Liq!Row
    OBVIOUS
  <1>1. Liq!Count(liq_hours, liq_clock) \in Nat /\ liq_clock \in Liq!Hour
    BY DEF LiqShape, Liq!Count
  <1>2. QED
    BY <1>1 DEF Liq!CurrentRow, Liq!Row

LEMMA LiqWritten ==
  ASSUME LiqShape, NEW r \in Liq!Row, Liq!Write(r)
  PROVE  liq_row' \in [Liq!Hour -> Nat] /\ liq_fails' \in 0 .. MaxFail
  <1>1. r.hour \in Liq!Hour /\ r.count \in Nat
    BY DEF Liq!Row
  <1>2. CASE liq_row' = [liq_row EXCEPT ![r.hour] = r.count] /\ UNCHANGED liq_fails
    BY <1>1, <1>2 DEF LiqShape
  <1>3. CASE liq_fails < MaxFail /\ liq_fails' = liq_fails + 1 /\ UNCHANGED liq_row
    BY <1>3, LiqConstants DEF LiqShape
  <1>4. QED
    BY <1>2, <1>3 DEF Liq!Write

LEMMA LiqLoopKeeps ==
  ASSUME LiqInv, NEW c \in Liq!Chan, Liq!LoopStep(c) \/ Liq!HubSave PROVE LiqInv'
  <1> USE DEF LiqInv
  <1> DEFINE Looped(x) ==
        /\ liq_loop' = [liq_loop EXCEPT ![c] = x]
        /\ x \in LiqLoop
        /\ x.pc = "save" => x.row \in Liq!Row
  <1>0. /\ liq_loop \in [Liq!Chan -> LiqLoop] /\ liq_loop[c] \in LiqLoop
        /\ liq_version \in Nat
    BY DEF LiqShape
  <1>1. UNCHANGED <<liq_clock, liq_hours, liq_days, liq_version, liq_coll, liq_closed,
                    liq_clients, liq_hubC, liq_timers, liq_made>>
    BY DEF Liq!LoopStep, Liq!LoopTick, Liq!LoopSnapshot, Liq!LoopSave, Liq!LoopEnds,
       Liq!HubSave, Liq!storeVars, Liq!hubVars
  <1>2. ASSUME NEW x, Looped(x)
        PROVE  /\ liq_loop' \in [Liq!Chan -> LiqLoop]
               /\ \A b \in Liq!Chan : liq_loop'[b].pc = "save" => liq_loop'[b].row \in Liq!Row
    <2> HIDE DEF LiqLoop
    <2>1. \A b \in Liq!Chan : liq_loop'[b] = IF b = c THEN x ELSE liq_loop[b]
      BY <1>0, <1>2
    <2>2. QED
      BY <1>0, <1>2, <2>1 DEF LiqShape
  <1>3. ASSUME NEW seen \in Nat, NEW old \in Nat
        PROVE  /\ [liq_loop[c] EXCEPT !.pc = "snapshot", !.seen = seen] \in LiqLoop
               /\ [liq_loop[c] EXCEPT !.pc = "snapshot", !.seen = seen].pc # "save"
               /\ [Liq!Idle EXCEPT !.last = old] \in LiqLoop
               /\ [Liq!Idle EXCEPT !.last = old].pc # "save"
               /\ Liq!NoLoop \in LiqLoop /\ Liq!NoLoop.pc # "save"
    <2>1. /\ [liq_loop[c] EXCEPT !.pc = "snapshot", !.seen = seen] \in LiqLoop
          /\ [liq_loop[c] EXCEPT !.pc = "snapshot", !.seen = seen].pc # "save"
      BY <1>0 DEF LiqLoop
    <2> DEFINE e == <<>>
    <2>2. e \in Liq!Row \cup {<<>>}
      OBVIOUS
    <2>3. Liq!NoLoop = [pc |-> "none", seen |-> 0, last |-> 0, row |-> e]
      BY DEF Liq!NoLoop
    <2> HIDE DEF e
    <2>4. QED
      BY <2>1, <2>2, <2>3 DEF LiqLoop, Liq!Idle
  <1>4. ASSUME Liq!LoopTick(c)
        PROVE  \E x : Looped(x) /\ UNCHANGED <<liq_saves, liq_row, liq_fails>>
    <2>1. liq_loop' = [liq_loop EXCEPT ![c] =
                        [liq_loop[c] EXCEPT !.pc = "snapshot", !.seen = liq_version]]
          /\ UNCHANGED <<liq_saves, liq_row, liq_fails>>
      BY <1>0, <1>4 DEF Liq!LoopTick
    <2>2. QED
      BY <1>0, <1>3, <2>1
  <1>5. ASSUME Liq!LoopSnapshot(c)
        PROVE  /\ \E x : Looped(x)
               /\ UNCHANGED <<liq_row, liq_fails>> /\ liq_saves' \subseteq Liq!Row
    <2>1. UNCHANGED <<liq_row, liq_fails>> /\ liq_saves' \subseteq Liq!Row
      BY <1>5, LiqRow DEF Liq!LoopSnapshot, Liq!SaveLater, LiqShape
    <2>2. liq_loop[c].seen \in Nat
      BY <1>0 DEF LiqLoop
    <2>3. CASE c = Liq!Background
      <3> DEFINE x == [liq_loop[c] EXCEPT !.pc = "save", !.row = Liq!CurrentRow]
      <3>1. liq_loop' = [liq_loop EXCEPT ![c] = x]
        BY <1>0, <1>5, <2>3 DEF Liq!LoopSnapshot
      <3>2. x \in LiqLoop /\ x.row \in Liq!Row
        <4>1. Liq!CurrentRow \in Liq!Row
          BY LiqRow
        <4>2. \A l \in LiqLoop, r \in Liq!Row :
                /\ [l EXCEPT !.pc = "save", !.row = r] \in LiqLoop
                /\ [l EXCEPT !.pc = "save", !.row = r].row = r
          BY DEF LiqLoop
        <4>3. QED
          BY <1>0, <4>1, <4>2, Zenon
      <3> HIDE DEF x
      <3>3. QED
        BY <2>1, <3>1, <3>2
    <2>4. CASE c # Liq!Background
      <3>1. liq_loop' = [liq_loop EXCEPT ![c] = [Liq!Idle EXCEPT !.last = liq_loop[c].seen]]
        BY <1>5, <2>4 DEF Liq!LoopSnapshot
      <3> DEFINE x == [Liq!Idle EXCEPT !.last = liq_loop[c].seen]
      <3>2. x \in LiqLoop /\ x.pc # "save" /\ liq_loop' = [liq_loop EXCEPT ![c] = x]
        BY <1>0, <1>3, <2>2, <3>1
      <3> HIDE DEF x
      <3>3. QED
        BY <2>1, <3>2
    <2>5. QED
      BY <2>3, <2>4
  <1>6. ASSUME Liq!LoopSave(c)
        PROVE  /\ \E x : Looped(x)
               /\ UNCHANGED liq_saves
               /\ liq_row' \in [Liq!Hour -> Nat] /\ liq_fails' \in 0 .. MaxFail
    <2>1. liq_loop[c].seen \in Nat
      BY <1>0 DEF LiqLoop
    <2>2. liq_loop' = [liq_loop EXCEPT ![c] = [Liq!Idle EXCEPT !.last = liq_loop[c].seen]]
          /\ UNCHANGED liq_saves
      BY <1>6 DEF Liq!LoopSave
    <2>3. liq_loop[c].row \in Liq!Row /\ Liq!Write(liq_loop[c].row)
      BY <1>6 DEF Liq!LoopSave, LiqShape
    <2>4. liq_row' \in [Liq!Hour -> Nat] /\ liq_fails' \in 0 .. MaxFail
      BY <2>3, LiqWritten
    <2> DEFINE x == [Liq!Idle EXCEPT !.last = liq_loop[c].seen]
    <2>5. x \in LiqLoop /\ x.pc # "save" /\ liq_loop' = [liq_loop EXCEPT ![c] = x]
      BY <1>0, <1>3, <2>1, <2>2
    <2> HIDE DEF x
    <2>6. QED
      BY <2>2, <2>4, <2>5
  <1>7. ASSUME Liq!LoopEnds(c)
        PROVE  \E x : Looped(x) /\ UNCHANGED <<liq_saves, liq_row, liq_fails>>
    <2>1. liq_loop' = [liq_loop EXCEPT ![c] = Liq!NoLoop]
          /\ UNCHANGED <<liq_saves, liq_row, liq_fails>>
      BY <1>7 DEF Liq!LoopEnds
    <2>2. QED
      BY <1>0, <1>3, <2>1
  <1>8. /\ liq_loop' \in [Liq!Chan -> LiqLoop]
        /\ \A b \in Liq!Chan : liq_loop'[b].pc = "save" => liq_loop'[b].row \in Liq!Row
        /\ liq_saves' \subseteq Liq!Row
        /\ liq_row' \in [Liq!Hour -> Nat] /\ liq_fails' \in 0 .. MaxFail
    <2> HIDE DEF Looped
    <2>1. CASE Liq!LoopTick(c) \/ Liq!LoopEnds(c)
      BY <1>2, <1>4, <1>7, <2>1 DEF LiqShape
    <2>2. CASE Liq!LoopSnapshot(c)
      BY <1>2, <1>5, <2>2 DEF LiqShape
    <2>3. CASE Liq!LoopSave(c)
      BY <1>2, <1>6, <2>3 DEF LiqShape
    <2>4. CASE Liq!HubSave
      <3>1. PICK r \in liq_saves : Liq!Write(r) /\ liq_saves' = liq_saves \ {r}
        BY <2>4 DEF Liq!HubSave
      <3>2. r \in Liq!Row
        BY DEF LiqShape
      <3>3. liq_row' \in [Liq!Hour -> Nat] /\ liq_fails' \in 0 .. MaxFail
        BY <3>1, <3>2, LiqWritten
      <3>4. UNCHANGED liq_loop
        BY <2>4 DEF Liq!HubSave
      <3>5. QED
        BY <3>1, <3>3, <3>4 DEF LiqShape
    <2>5. QED
      BY <2>1, <2>2, <2>3, <2>4 DEF Liq!LoopStep
  <1>9. LiqShape'
    BY <1>1, <1>8 DEF LiqShape
  <1>10. ChannelsNumbered' /\ Liq!ViewersAreServed' /\ Liq!SeriesAgree'
    BY <1>1, SeriesUntouched DEF ChannelsNumbered, Liq!ViewersAreServed
  <1>11. QED
    BY <1>9, <1>10

LEMMA LiqSubscribeKeeps ==
  ASSUME LiqInv, NEW k \in Viewer, Liq!Subscribe(k) PROVE LiqInv'
  <1> USE DEF LiqInv
  <1>1. /\ UNCHANGED <<liq_clock, liq_hours, liq_days, liq_version, liq_closed, liq_timers,
                       liq_row, liq_fails>>
        /\ liq_clients' = liq_clients \cup {k}
        /\ liq_saves' = liq_saves \cup {Liq!CurrentRow}
    BY DEF Liq!Subscribe, Liq!SaveLater, Liq!storeVars
  <1>2. Liq!CurrentRow \in Liq!Row
    BY LiqRow
  <1>3. Liq!SeriesAgree'
    BY <1>1, SeriesUntouched
  <1>4. CASE liq_hubC # Liq!None
    <2>1. UNCHANGED <<liq_hubC, liq_made, liq_coll, liq_loop>>
      BY <1>4 DEF Liq!Subscribe
    <2>2. LiqShape'
      BY <1>1, <1>2, <2>1 DEF LiqShape
    <2>3. ChannelsNumbered' /\ Liq!ViewersAreServed'
      BY <1>1, <1>4, <2>1 DEF ChannelsNumbered, Liq!ViewersAreServed
    <2>4. QED
      BY <1>3, <2>2, <2>3
  <1>5. CASE liq_hubC = Liq!None
    <2> DEFINE n == liq_made'
    <2>1. /\ liq_made < MaxChan /\ n = liq_made + 1 /\ liq_hubC' = n
          /\ liq_coll' = [liq_coll EXCEPT ![n] = "dial"]
          /\ liq_loop' = [liq_loop EXCEPT ![n] = Liq!Idle]
      BY <1>5 DEF Liq!Subscribe
    <2> HIDE DEF n
    <2>2. /\ n \in Liq!Chan /\ n \in 2 .. MaxChan /\ n > liq_made /\ n # Liq!None /\ n # 1
          /\ \A c \in Liq!Chan : c > n => c > liq_made /\ c # n
          /\ n <= liq_made' /\ Liq!Chan \subseteq Int
      <3>1. \A m \in 1 .. MaxChan : m < MaxChan =>
              /\ m + 1 \in 1 .. MaxChan /\ m + 1 \in 2 .. MaxChan /\ m + 1 > m
              /\ m + 1 # 0 /\ m + 1 # 1 /\ m + 1 <= m + 1
              /\ \A c \in 1 .. MaxChan : c > m + 1 => c > m /\ c # m + 1
        BY LiqConstants
      <3>2. liq_made \in 1 .. MaxChan /\ 1 .. MaxChan \subseteq Int
        BY LiqConstants DEF LiqShape, Liq!Chan
      <3>3. liq_made' = liq_made + 1 /\ n = liq_made + 1
        BY <2>1 DEF n
      <3>4. QED
        BY <2>1, <3>1, <3>2, <3>3 DEF Liq!Chan, Liq!None
    <2>3. n \notin liq_closed
      BY <2>2 DEF ChannelsNumbered
    <2>4. Liq!Idle \in LiqLoop /\ Liq!Idle.pc # "save"
      <3> DEFINE e == <<>>
      <3>1. e \in Liq!Row \cup {<<>>}
        OBVIOUS
      <3>2. Liq!NoLoop = [pc |-> "none", seen |-> 0, last |-> 0, row |-> e]
        BY DEF Liq!NoLoop
      <3> HIDE DEF e
      <3>3. QED
        BY <3>1, <3>2 DEF LiqLoop, Liq!Idle
    <2>5. \A c \in Liq!Chan : liq_coll'[c] = IF c = n THEN "dial" ELSE liq_coll[c]
      BY <2>1 DEF LiqShape
    <2>6. \A c \in Liq!Chan : liq_loop'[c] = IF c = n THEN Liq!Idle ELSE liq_loop[c]
      BY <2>1 DEF LiqShape
    <2>7. LiqShape'
      <3>1. /\ liq_loop' \in [Liq!Chan -> LiqLoop]
            /\ \A c \in Liq!Chan : liq_loop'[c].pc = "save" => liq_loop'[c].row \in Liq!Row
        <4> HIDE DEF LiqLoop
        <4>1. QED
          BY <2>1, <2>2, <2>4, <2>6 DEF LiqShape
      <3>2. /\ liq_coll' \in [Liq!Chan -> {"none", "dial", "read", "gone"}]
            /\ liq_hubC' \in {Liq!None} \cup 2 .. MaxChan /\ liq_made' \in Liq!Chan
        BY <2>1, <2>2 DEF LiqShape, n
      <3>3. QED
        BY <1>1, <1>2, <3>1, <3>2 DEF LiqShape
    <2>8. ChannelsNumbered'
      <3>1. \A c \in Liq!Chan : c > n => liq_coll'[c] = "none" /\ c \notin liq_closed
        BY <2>2, <2>5 DEF ChannelsNumbered
      <3>2. QED
        BY <1>1, <2>1, <2>2, <2>3, <3>1 DEF ChannelsNumbered, n
    <2>9. Liq!ViewersAreServed'
      <3>1. ASSUME NEW c \in Liq!Chan \ {Liq!Background}, liq_coll'[c] # "none"
            PROVE  c \notin liq_closed' <=> c = liq_hubC'
        <4>1. CASE c = n
          BY <1>1, <2>1, <2>3, <4>1
        <4>2. CASE c # n
          <5>1. liq_coll[c] # "none" /\ c # liq_hubC
            BY <1>5, <2>5, <3>1, <4>2, LiqConstants DEF Liq!Chan, Liq!None
          <5>2. c \in liq_closed
            BY <5>1 DEF Liq!ViewersAreServed
          <5>3. QED
            BY <1>1, <2>1, <4>2, <5>2
        <4>3. QED
          BY <4>1, <4>2
      <3>2. QED
        BY <2>1, <2>2, <3>1 DEF Liq!ViewersAreServed
    <2>10. QED
      BY <1>3, <2>7, <2>8, <2>9
  <1>6. QED
    BY <1>4, <1>5

LEMMA LiqLeaveKeeps ==
  ASSUME LiqInv, NEW k \in Viewer, Liq!Refresh(k) \/ Liq!Unsubscribe(k) PROVE LiqInv'
  <1> USE DEF LiqInv
  <1>1. ASSUME Liq!Refresh(k) PROVE LiqInv'
    <2>1. Liq!CurrentRow \in Liq!Row
      BY LiqRow
    <2>2. /\ UNCHANGED <<liq_clock, liq_hours, liq_days, liq_version, liq_coll, liq_closed,
                         liq_clients, liq_hubC, liq_timers, liq_made, liq_loop,
                         liq_row, liq_fails>>
          /\ liq_saves' = liq_saves \cup {Liq!CurrentRow}
      BY <1>1 DEF Liq!Refresh, Liq!SaveLater, Liq!storeVars, Liq!hubVars
    <2>3. LiqShape'
      BY <2>1, <2>2 DEF LiqShape
    <2>4. ChannelsNumbered' /\ Liq!ViewersAreServed' /\ Liq!SeriesAgree'
      BY <2>2, SeriesUntouched DEF ChannelsNumbered, Liq!ViewersAreServed
    <2>5. QED
      BY <2>3, <2>4
  <1>2. ASSUME Liq!Unsubscribe(k) PROVE LiqInv'
    <2>1. /\ UNCHANGED <<liq_clock, liq_hours, liq_days, liq_version, liq_coll, liq_closed,
                         liq_hubC, liq_made, liq_loop, liq_saves, liq_row, liq_fails>>
          /\ liq_clients' = liq_clients \ {k} /\ k \in liq_clients
      BY <1>2 DEF Liq!Unsubscribe, Liq!storeVars
    <2>2. liq_timers' \in 0 .. MaxTimer
      BY <1>2, LiqConstants DEF Liq!Unsubscribe, LiqShape
    <2>3. LiqShape'
      BY <2>1, <2>2 DEF LiqShape
    <2>4. ChannelsNumbered' /\ Liq!ViewersAreServed' /\ Liq!SeriesAgree'
      BY <2>1, SeriesUntouched DEF ChannelsNumbered, Liq!ViewersAreServed
    <2>5. QED
      BY <2>3, <2>4
  <1>3. QED
    BY <1>1, <1>2

\* The delayed stop closes the hub's channel only when nobody watches.
LEMMA LiqStopKeeps == ASSUME LiqInv, Liq!DelayedStop PROVE LiqInv'
  <1> USE DEF LiqInv
  <1>1. /\ UNCHANGED <<liq_clock, liq_hours, liq_days, liq_version, liq_coll,
                       liq_clients, liq_made, liq_loop, liq_saves, liq_row, liq_fails>>
        /\ liq_timers > 0 /\ liq_timers' = liq_timers - 1
    BY DEF Liq!DelayedStop, Liq!storeVars
  <1>2. liq_timers' \in 0 .. MaxTimer
    BY <1>1, LiqConstants DEF LiqShape
  <1>3. CASE liq_clients # {} \/ liq_hubC = Liq!None
    <2>1. UNCHANGED <<liq_closed, liq_hubC>>
      BY <1>3 DEF Liq!DelayedStop
    <2>2. LiqShape'
      BY <1>1, <1>2, <2>1 DEF LiqShape
    <2>3. ChannelsNumbered' /\ Liq!ViewersAreServed' /\ Liq!SeriesAgree'
      BY <1>1, <2>1, SeriesUntouched DEF ChannelsNumbered, Liq!ViewersAreServed
    <2>4. QED
      BY <2>2, <2>3
  <1>4. CASE liq_clients = {} /\ liq_hubC # Liq!None
    <2>1. liq_closed' = liq_closed \cup {liq_hubC} /\ liq_hubC' = Liq!None
      BY <1>4 DEF Liq!DelayedStop
    <2>2. liq_hubC \in 2 .. MaxChan /\ liq_hubC <= liq_made
      BY <1>4 DEF LiqShape, ChannelsNumbered
    <2>3. liq_hubC \in Liq!Chan \ {Liq!Background}
      BY <2>2, LiqConstants DEF Liq!Chan, Liq!Background
    <2>4. LiqShape'
      BY <1>1, <1>2, <2>1, <2>3 DEF LiqShape
    <2>5. ChannelsNumbered'
      <3>1. \A c \in Liq!Chan : c > liq_made => c # liq_hubC
        BY <2>2, LiqConstants DEF Liq!Chan, LiqShape
      <3>2. QED
        BY <1>1, <2>1, <3>1 DEF ChannelsNumbered
    <2>6. Liq!ViewersAreServed'
      <3>1. \A c \in Liq!Chan : c # Liq!None
        BY LiqConstants DEF Liq!Chan, Liq!None
      <3>2. QED
        BY <1>1, <1>4, <2>1, <3>1 DEF Liq!ViewersAreServed
    <2>7. QED
      BY <1>1, <2>4, <2>5, <2>6, SeriesUntouched
  <1>5. QED
    BY <1>3, <1>4

LEMMA LiqKeeps == LiqInv /\ [Liq!Next]_liqVars => LiqInv'
  <1> SUFFICES ASSUME LiqInv, [Liq!Next]_liqVars PROVE LiqInv'
    OBVIOUS
  <1>1. CASE UNCHANGED liqVars
    BY <1>1 DEF liqVars, LiqInv, LiqShape, ChannelsNumbered, Liq!ViewersAreServed,
       Liq!SeriesAgree
  <1>2. CASE Liq!Next
    BY <1>2, LiqHourKeeps, LiqStopKeeps, LiqCollectorKeeps, LiqLoopKeeps,
       LiqSubscribeKeeps, LiqLeaveKeeps, LiqConstants DEF Liq!Next, Liq!Chan
  <1>3. QED
    BY <1>1, <1>2

LEMMA LiqShows == LiqInv => Liq!TypeOK /\ Liq!ViewersAreServed /\ Liq!SeriesAgree
  BY DEF LiqInv, LiqShape, Liq!TypeOK, LiqLoop

-----------------------------------------------------------------------------
(***************************************************************************)
(* The candle strategies: the two sides mirror each other.                 *)
(***************************************************************************)
\* The RSI levels are mirror images and apart, a long shadow is no shorter
\* than its body, and a period is more than one close, as in the defaults.
SignalsBalanced ==
  /\ Oversold + Overbought = 100 /\ Oversold < Overbought
  /\ ShadowRatio >= 100 /\ Period >= 2

LEMMA SignalsConstants ==
  /\ Top \in Nat /\ Period \in Nat /\ Oversold \in Int /\ Overbought \in Int
  /\ BodyRatio \in Int /\ ShadowRatio \in Int /\ TrendStrength \in Int
  BY RuleAssumption

Flip(p) == Top + 1 - p

LEMMA FlipPrice ==
  ASSUME NEW p \in Price, NEW q \in Price
  PROVE  /\ p \in Int /\ Flip(p) \in Price
         /\ Flip(p) <= Flip(q) <=> q <= p
         /\ Flip(p) < Flip(q) <=> q < p
         /\ Flip(p) = Flip(q) <=> q = p
         /\ Flip(p) - Flip(q) = q - p
  <1>1. p \in 1 .. Top /\ q \in 1 .. Top /\ Top \in Nat
    BY SignalsConstants DEF Price
  <1>2. QED
    BY <1>1 DEF Price, Flip

LEMMA MovesAre ==
  ASSUME NEW n \in Nat, NEW f, \A i \in 1 .. n : f[i] \in Price,
         NEW dir \in {1, -1}
  PROVE  /\ Moves(f, dir, n) \in [1 .. n - 1 -> Nat]
         /\ \A i \in 1 .. n - 1 : Moves(f, dir, n)[i] = Larger(0, dir * (f[i + 1] - f[i]))
  <1>1. ASSUME NEW i \in 1 .. n - 1
        PROVE  Larger(0, dir * (f[i + 1] - f[i])) \in Nat
    <2>1. i \in 1 .. n /\ i + 1 \in 1 .. n
      OBVIOUS
    <2>2. f[i] \in Int /\ f[i + 1] \in Int
      BY <2>1, FlipPrice
    <2>3. PICK d \in Int : d = f[i + 1] - f[i]
      BY <2>2
    <2>4. dir * d \in Int
      BY <2>3
    <2>5. QED
      BY <2>3, <2>4 DEF Larger
  <1>2. QED
    BY <1>1 DEF Moves

LEMMA MovesTurn ==
  ASSUME NEW n \in Nat, NEW f, \A i \in 1 .. n : f[i] \in Price,
         NEW g, \A i \in 1 .. n : g[i] = Flip(f[i]), NEW dir \in {1, -1}
  PROVE  Moves(g, dir, n) = Moves(f, -dir, n)
  <1>1. ASSUME NEW i \in 1 .. n - 1
        PROVE  Larger(0, dir * (g[i + 1] - g[i])) = Larger(0, (-dir) * (f[i + 1] - f[i]))
    <2>1. i \in 1 .. n /\ i + 1 \in 1 .. n
      OBVIOUS
    <2>2. f[i] \in Int /\ f[i + 1] \in Int /\ g[i + 1] - g[i] = f[i] - f[i + 1]
      BY <2>1, FlipPrice
    <2>3. PICK d \in Int : d = f[i + 1] - f[i] /\ f[i] - f[i + 1] = -d
      BY <2>2
    <2>4. dir * (-d) = (-dir) * d
      BY <2>3
    <2>5. QED
      BY <2>2, <2>3, <2>4
  <1>2. QED
    BY <1>1 DEF Moves

\* Two closes between which nothing moved are equal.
LEMMA NothingMoved ==
  ASSUME NEW n \in Nat, NEW f, \A i \in 1 .. n : f[i] \in Price,
         \A i \in 1 .. n - 1 : Moves(f, 1, n)[i] = 0 /\ Moves(f, -1, n)[i] = 0
  PROVE  \A i \in 1 .. n : f[i] = f[1]
  <1>1. ASSUME NEW i \in 1 .. n - 1 PROVE f[i + 1] = f[i]
    <2>1. i \in 1 .. n /\ i + 1 \in 1 .. n
      OBVIOUS
    <2>2. f[i] \in Int /\ f[i + 1] \in Int
      BY <2>1, FlipPrice
    <2>3. Larger(0, 1 * (f[i + 1] - f[i])) = 0 /\ Larger(0, (-1) * (f[i + 1] - f[i])) = 0
      BY MovesAre
    <2>4. PICK d \in Int : d = f[i + 1] - f[i] /\ (d = 0 => f[i + 1] = f[i])
      BY <2>2
    <2>5. Larger(0, 1 * d) = 0 /\ Larger(0, (-1) * d) = 0
      BY <2>3, <2>4
    <2>6. QED
      BY <2>4, <2>5 DEF Larger
  <1> DEFINE T == {k \in Nat : k + 1 \in 1 .. n => f[k + 1] = f[1]}
  <1>2. 0 \in T
    OBVIOUS
  <1>3. ASSUME NEW k \in Nat, k \in T PROVE k + 1 \in T
    <2> SUFFICES ASSUME (k + 1) + 1 \in 1 .. n PROVE f[(k + 1) + 1] = f[1]
      OBVIOUS
    <2>1. k + 1 \in 1 .. n - 1 /\ k + 1 \in 1 .. n
      OBVIOUS
    <2>2. QED
      BY <1>1, <1>3, <2>1
  <1>4. Nat \subseteq T
    <2> HIDE DEF T
    <2>1. QED
      BY <1>2, <1>3, NumberInduction
  <1>5. ASSUME NEW i \in 1 .. n PROVE f[i] = f[1]
    <2>1. i - 1 \in Nat /\ (i - 1) + 1 = i
      OBVIOUS
    <2>2. i - 1 \in T
      BY <1>4, <2>1
    <2>3. QED
      BY <2>1, <2>2
  <1>6. QED
    BY <1>5

\* The smoothing over one period, and over one close more.
LEMMA WilderShort ==
  ASSUME NEW moves, Period >= 2
  PROVE  Wilder(moves, Period + 1).of = SumFunctionOnSet(moves, 1 .. Period)
  <1> DEFINE S == Period .. (Period + 1) - 1
             first == [of |-> SumFunctionOnSet(moves, 1 .. Period), to |-> Period]
             Eq(g) == g = [i \in S |->
                IF i = Period THEN first
                ELSE [of |-> g[i - 1].of * (Period - 1) + moves[i] * g[i - 1].to,
                      to |-> g[i - 1].to * Period]]
             avg == CHOOSE g : Eq(g)
             w == [i \in S |-> first]
  <1>1. S = {Period} /\ (Period + 1) - 1 = Period
    BY SignalsConstants
  <1>2. Eq(w)
    BY <1>1
  <1>3. Eq(avg)
    BY <1>2
  <1>4. avg[Period] = first
    BY <1>1, <1>3
  <1>5. Wilder(moves, Period + 1) = avg[(Period + 1) - 1]
    BY DEF Wilder
  <1>6. QED
    BY <1>1, <1>4, <1>5

LEMMA WilderLong ==
  ASSUME NEW moves, Period >= 2
  PROVE  Wilder(moves, Period + 2).of
           = SumFunctionOnSet(moves, 1 .. Period) * (Period - 1) + moves[Period + 1] * Period
  <1> DEFINE S == Period .. (Period + 2) - 1
             first == [of |-> SumFunctionOnSet(moves, 1 .. Period), to |-> Period]
             Eq(g) == g = [i \in S |->
                IF i = Period THEN first
                ELSE [of |-> g[i - 1].of * (Period - 1) + moves[i] * g[i - 1].to,
                      to |-> g[i - 1].to * Period]]
             avg == CHOOSE g : Eq(g)
             second == [of |-> first.of * (Period - 1) + moves[Period + 1] * first.to,
                        to |-> first.to * Period]
             w == [i \in S |-> IF i = Period THEN first ELSE second]
  <1>1. /\ S = {Period, Period + 1} /\ (Period + 2) - 1 = Period + 1
        /\ Period + 1 # Period /\ (Period + 1) - 1 = Period
    BY SignalsConstants
  <1>2. Eq(w)
    <2>1. w[Period] = first
      BY <1>1
    <2> HIDE DEF first
    <2>2. ASSUME NEW i \in S
          PROVE  w[i] = IF i = Period THEN first
                ELSE [of |-> w[i - 1].of * (Period - 1) + moves[i] * w[i - 1].to,
                      to |-> w[i - 1].to * Period]
      BY <1>1, <2>1
    <2>3. w = [i \in S |-> w[i]]
      OBVIOUS
    <2> HIDE DEF w, S
    <2>4. QED
      BY <2>2, <2>3
  <1>3. Eq(avg)
    BY <1>2
  <1>4. avg[Period] = first
    BY <1>1, <1>3
  <1>5. avg[Period + 1] = [of |-> avg[Period].of * (Period - 1) + moves[Period + 1] * avg[Period].to,
                           to |-> avg[Period].to * Period]
    BY <1>1, <1>3
  <1>6. Wilder(moves, Period + 2) = avg[(Period + 2) - 1]
    BY DEF Wilder
  <1>7. avg[Period].of = SumFunctionOnSet(moves, 1 .. Period) /\ avg[Period].to = Period
    BY <1>4
  <1> HIDE DEF avg
  <1>8. QED
    BY <1>1, <1>5, <1>6, <1>7

LEMMA SumZero ==
  ASSUME NEW f, NEW U, IsFiniteSet(U), \A x \in U : f[x] \in Nat,
         SumFunctionOnSet(f, U) = 0, NEW y \in U
  PROVE  f[y] = 0
  <1>1. \A x \in U : f[x] \in Int
    OBVIOUS
  <1>2. SumFunctionOnSet(f, U) = f[y] + SumFunctionOnSet(f, U \ {y})
    BY <1>1, SumRemove
  <1>3. IsFiniteSet(U \ {y})
    BY FS_Subset
  <1>4. SumFunctionOnSet(f, U \ {y}) \in Nat /\ f[y] \in Nat
    BY <1>3, SumNat
  <1>5. QED
    BY <1>2, <1>4

LEMMA WilderShape ==
  ASSUME Period >= 2, NEW n \in {Period + 1, Period + 2}, NEW moves \in [1 .. n - 1 -> Nat]
  PROVE  /\ Wilder(moves, n).of \in Nat
         /\ Wilder(moves, n).of = 0 => \A i \in 1 .. n - 1 : moves[i] = 0
  <1> DEFINE s == SumFunctionOnSet(moves, 1 .. Period)
  <1>0. Period \in Nat /\ Period - 1 \in Nat /\ Period # 0 /\ Period - 1 # 0
    BY SignalsConstants
  <1>1. IsFiniteSet(1 .. Period) /\ \A i \in 1 .. Period : moves[i] \in Nat
    <2>1. \A i \in 1 .. Period : i \in 1 .. n - 1
      BY <1>0
    <2>2. IsFiniteSet(1 .. Period)
      BY <1>0, FS_Interval
    <2>3. QED
      BY <2>1, <2>2
  <1>2. s \in Nat /\ (s = 0 => \A i \in 1 .. Period : moves[i] = 0)
    BY <1>1, SumNat, SumZero
  <1>3. CASE n = Period + 1
    <2>1. n - 1 = Period /\ Wilder(moves, n).of = s
      BY <1>0, <1>3, WilderShort
    <2>2. QED
      BY <1>2, <2>1
  <1>4. CASE n = Period + 2
    <2>1. /\ Wilder(moves, n).of = s * (Period - 1) + moves[Period + 1] * Period
          /\ n - 1 = Period + 1
      BY <1>0, <1>4, WilderLong
    <2>2. moves[Period + 1] \in Nat
      BY <1>0, <1>4
    <2>3. \A a, b, c, d \in Nat :
            /\ a * b + c * d \in Nat
            /\ b # 0 /\ d # 0 /\ a * b + c * d = 0 => a = 0 /\ c = 0
      <3>1. \A a, b \in Nat : a * b \in Nat /\ (b # 0 /\ a * b = 0 => a = 0)
        OBVIOUS
      <3>2. \A x, y \in Nat : x + y \in Nat /\ (x + y = 0 => x = 0 /\ y = 0)
        OBVIOUS
      <3>3. QED
        BY <3>1, <3>2
    <2> HIDE DEF s
    <2> DEFINE q == Period - 1
               k == moves[Period + 1]
    <2>4. q \in Nat /\ q # 0 /\ k \in Nat /\ Wilder(moves, n).of = s * q + k * Period
      BY <1>0, <2>1, <2>2
    <2> HIDE DEF q, k
    <2>5. /\ s * q + k * Period \in Nat
          /\ s * q + k * Period = 0 => s = 0 /\ k = 0
      BY <1>0, <1>2, <2>3, <2>4
    <2>6. \A i \in 1 .. n - 1 : i \in 1 .. Period \/ i = Period + 1
      BY <1>0, <2>1
    <2>7. QED
      BY <1>2, <2>4, <2>5, <2>6 DEF k
  <1>5. QED
    BY <1>3, <1>4

\* The RSI of a market that moved, and of the same market upside down.
LEMMA RSITurns ==
  ASSUME SignalsBalanced, NEW n \in {Period + 1, Period + 2},
         NEW f, \A i \in 1 .. n : f[i] \in Price, \E i \in 1 .. n : f[i] # f[1],
         NEW g, \A i \in 1 .. n : g[i] = Flip(f[i])
  PROVE  /\ AtLeast(calcRSI(g, n), Overbought) <=> AtMost(calcRSI(f, n), Oversold)
         /\ AtMost(calcRSI(g, n), Oversold) <=> AtLeast(calcRSI(f, n), Overbought)
         /\ ~(AtMost(calcRSI(f, n), Oversold) /\ AtLeast(calcRSI(f, n), Overbought))
  <1>0. n \in Nat /\ Period >= 2
    BY SignalsConstants DEF SignalsBalanced
  <1> DEFINE gain == Smoothed(f, 1, n)
             loss == Smoothed(f, -1, n)
  <1>1. Smoothed(g, 1, n) = loss /\ Smoothed(g, -1, n) = gain
    <2>1. Moves(g, 1, n) = Moves(f, -1, n)
      BY <1>0, MovesTurn
    <2>2. Moves(g, -1, n) = Moves(f, 1, n)
      <3>1. \A dir \in {1, -1} : Moves(g, dir, n) = Moves(f, -dir, n)
        BY <1>0, MovesTurn
      <3>2. -1 + 1 = 0 /\ -1 \in Int
        OBVIOUS
      <3>3. \A d \in Int : d + 1 = 0 => -d = 1
        OBVIOUS
      <3>4. PICK d \in Int : d = -1 /\ d + 1 = 0
        BY <3>2
      <3>5. -d = 1 /\ d \in {1, -1}
        BY <3>3, <3>4
      <3>6. Moves(g, d, n) = Moves(f, -d, n)
        BY <3>1, <3>5
      <3>7. QED
        BY <3>4, <3>5, <3>6
    <2>3. QED
      BY <2>1, <2>2 DEF Smoothed
  <1>2. gain \in Nat /\ loss \in Nat /\ ~(gain = 0 /\ loss = 0)
    <2>1. Moves(f, 1, n) \in [1 .. n - 1 -> Nat] /\ Moves(f, -1, n) \in [1 .. n - 1 -> Nat]
      BY <1>0, MovesAre
    <2>2. /\ gain \in Nat /\ (gain = 0 => \A i \in 1 .. n - 1 : Moves(f, 1, n)[i] = 0)
          /\ loss \in Nat /\ (loss = 0 => \A i \in 1 .. n - 1 : Moves(f, -1, n)[i] = 0)
      BY <1>0, <2>1, WilderShape DEF Smoothed
    <2>3. gain = 0 /\ loss = 0 => \A i \in 1 .. n : f[i] = f[1]
      BY <1>0, <2>2, NothingMoved
    <2>4. QED
      BY <2>2, <2>3
  <1>3. /\ calcRSI(f, n) = IF loss = 0 THEN [of |-> 100, to |-> 1]
                           ELSE [of |-> 100 * gain, to |-> gain + loss]
        /\ calcRSI(g, n) = IF gain = 0 THEN [of |-> 100, to |-> 1]
                           ELSE [of |-> 100 * loss, to |-> loss + gain]
    BY <1>1 DEF calcRSI
  <1> HIDE DEF gain, loss
  <1>4. \A x \in Int :
          /\ AtLeast(calcRSI(g, n), x)
               <=> IF gain = 0 THEN 100 >= x * 1 ELSE 100 * loss >= x * (loss + gain)
          /\ AtMost(calcRSI(g, n), x)
               <=> IF gain = 0 THEN 100 <= x * 1 ELSE 100 * loss <= x * (loss + gain)
          /\ AtLeast(calcRSI(f, n), x)
               <=> IF loss = 0 THEN 100 >= x * 1 ELSE 100 * gain >= x * (gain + loss)
          /\ AtMost(calcRSI(f, n), x)
               <=> IF loss = 0 THEN 100 <= x * 1 ELSE 100 * gain <= x * (gain + loss)
    BY <1>3 DEF AtLeast, AtMost
  <1>5. Oversold \in Int /\ Overbought \in Int
    BY SignalsConstants
  <1> DEFINE low == Oversold
             high == Overbought
  <1>6. low \in Int /\ high = 100 - low /\ low < high
    BY <1>5 DEF SignalsBalanced
  <1>7. /\ (IF gain = 0 THEN 100 >= high * 1 ELSE 100 * loss >= high * (loss + gain))
             <=> IF loss = 0 THEN 100 <= low * 1 ELSE 100 * gain <= low * (gain + loss)
        /\ (IF gain = 0 THEN 100 <= low * 1 ELSE 100 * loss <= low * (loss + gain))
             <=> IF loss = 0 THEN 100 >= high * 1 ELSE 100 * gain >= high * (gain + loss)
        /\ ~( /\ IF loss = 0 THEN 100 <= low * 1 ELSE 100 * gain <= low * (gain + loss)
              /\ IF loss = 0 THEN 100 >= high * 1 ELSE 100 * gain >= high * (gain + loss) )
    <2>1. \A a, b \in Nat, x, y \in Int :
            x + y = 100 => x * (a + b) + y * (a + b) = 100 * a + 100 * b
      OBVIOUS
    <2>2. PICK u \in Int, v \in Int :
            /\ u = low * (gain + loss) /\ v = high * (gain + loss)
            /\ v = high * (loss + gain) /\ u = low * (loss + gain)
            /\ u + v = 100 * gain + 100 * loss
      <3> HIDE DEF low, high
      <3>1. high \in Int /\ low + high = 100 /\ gain + loss = loss + gain /\ gain + loss \in Int
        BY <1>2, <1>6
      <3>2. low * (gain + loss) \in Int /\ high * (gain + loss) \in Int
        BY <1>6, <3>1
      <3>3. QED
        BY <1>2, <1>6, <2>1, <3>1, <3>2
    <2>3. gain + loss \in Nat /\ gain + loss > 0
      BY <1>2
    <2>4. u < v
      <3>1. \A x, y \in Int, t \in Nat : x < y /\ t > 0 => x * t < y * t
        OBVIOUS
      <3> HIDE DEF low, high
      <3>2. high \in Int
        BY <1>6
      <3>3. low * (gain + loss) < high * (gain + loss)
        BY <1>6, <2>3, <3>1, <3>2
      <3>4. QED
        BY <2>2, <3>3
    <2>5. /\ gain = 0 => u = low * loss /\ v = high * loss
          /\ loss = 0 => u = low * gain /\ v = high * gain
      BY <1>2, <2>2
    <2> HIDE DEF low, high
    <2>6. CASE gain # 0 /\ loss # 0
      BY <1>2, <2>2, <2>4, <2>6
    <2>7. CASE gain = 0
      <3>1. loss # 0 /\ loss \in Nat /\ high \in Int
        BY <1>2, <1>6, <2>7
      <3>2. \A t \in Nat, x \in Int : t # 0 => (0 <= x * t <=> 0 <= x) /\ (0 >= x * t <=> 0 >= x)
        OBVIOUS
      <3>3. (0 <= low * loss <=> 0 <= low) /\ (0 >= high * loss <=> 0 >= high)
        BY <1>6, <3>1, <3>2
      <3>4. 100 * gain = 0
        BY <2>7
      <3>5. (0 <= u <=> 0 <= low) /\ (0 >= v <=> 0 >= high)
        BY <2>5, <2>7, <3>3
      <3>6. QED
        BY <1>6, <2>2, <2>4, <2>7, <3>1, <3>4, <3>5
    <2>8. CASE loss = 0
      <3>1. gain # 0 /\ gain \in Nat /\ high \in Int
        BY <1>2, <1>6, <2>8
      <3>2. \A t \in Nat, x \in Int : t # 0 => (0 <= x * t <=> 0 <= x) /\ (0 >= x * t <=> 0 >= x)
        OBVIOUS
      <3>3. (0 <= low * gain <=> 0 <= low) /\ (0 >= high * gain <=> 0 >= high)
        BY <1>6, <3>1, <3>2
      <3>4. 100 * loss = 0
        BY <2>8
      <3>5. (0 <= u <=> 0 <= low) /\ (0 >= v <=> 0 >= high)
        BY <2>5, <2>8, <3>3
      <3>6. QED
        BY <1>6, <2>2, <2>4, <2>8, <3>1, <3>4, <3>5
    <2>9. QED
      BY <2>6, <2>7, <2>8
  <1>8. QED
    BY <1>4, <1>5, <1>7

LEMMA ClosesFlipped ==
  ASSUME NEW n \in Nat, NEW f \in [1 .. n -> Price]
  PROVE  LET g == [i \in DOMAIN f |-> Top + 1 - f[i]]
         IN  /\ Len(f) = n /\ Len(g) = n
             /\ \A i \in 1 .. n : g[i] = Flip(f[i]) /\ f[i] \in Price
  <1> DEFINE g == [i \in DOMAIN f |-> Top + 1 - f[i]]
  <1>1. DOMAIN f = 1 .. n /\ DOMAIN g = 1 .. n
    OBVIOUS
  <1>2. g \in [1 .. n -> Int]
    <2>1. ASSUME NEW i \in 1 .. n PROVE Top + 1 - f[i] \in Int
      <3>1. f[i] \in Int /\ Top \in Int
        BY FlipPrice, SignalsConstants
      <3>2. QED
        BY <3>1
    <2>2. QED
      BY <2>1
  <1>3. \A i \in 1 .. n : g[i] = Flip(f[i]) /\ f[i] \in Price
    BY DEF Flip
  <1>4. Len(f) = n
    OBVIOUS
  <1> HIDE DEF g
  <1>5. Len(g) = n
    BY <1>2
  <1>6. QED
    BY <1>3, <1>4, <1>5 DEF g

LEMMA CrossTurns ==
  ASSUME SignalsBalanced, NEW m \in Market("signal"), ~Lopsided("signal", m)
  PROVE  CrossSignal(MirrorMarket("signal", m)) = Other(CrossSignal(m))
  <1> DEFINE t == MirrorMarket("signal", m)
             f == m.closes
             g == t.closes
             n == Period + 2
  <1>0. Period \in Nat /\ n \in Nat /\ n - 1 = Period + 1 /\ n - 1 \in Nat
    BY SignalsConstants
  <1>1. f \in [1 .. Period + 2 -> Price] /\ m.loud \in BOOLEAN
    BY DEF Market
  <1>2. t.loud = m.loud /\ g = [i \in DOMAIN f |-> Top + 1 - f[i]]
    BY DEF MirrorMarket
  <1> HIDE DEF f, g
  <1>3. /\ Len(f) = n /\ Len(g) = n
        /\ \A i \in 1 .. n : g[i] = Flip(f[i]) /\ f[i] \in Price
    BY <1>0, <1>1, <1>2, ClosesFlipped
  <1>4. (\E i \in 1 .. n : f[i] # f[1]) /\ (\E i \in 1 .. n - 1 : f[i] # f[1])
    BY <1>3 DEF Lopsided, f
  <1>5. \A i \in 1 .. n - 1 : i \in 1 .. n
    BY <1>0
  <1> DEFINE High(x, k) == AtLeast(calcRSI(x, k), Overbought)
             Low(x, k) == AtMost(calcRSI(x, k), Oversold)
  <1>6. \A k \in {n - 1, n} :
          /\ High(g, k) <=> Low(f, k)
          /\ Low(g, k) <=> High(f, k)
          /\ ~(Low(f, k) /\ High(f, k))
    <2>1. /\ High(g, n) <=> Low(f, n)
          /\ Low(g, n) <=> High(f, n)
          /\ ~(Low(f, n) /\ High(f, n))
      BY <1>3, <1>4, RSITurns
    <2>2. /\ High(g, n - 1) <=> Low(f, n - 1)
          /\ Low(g, n - 1) <=> High(f, n - 1)
          /\ ~(Low(f, n - 1) /\ High(f, n - 1))
      BY <1>0, <1>3, <1>4, <1>5, RSITurns
    <2>3. QED
      BY <2>1, <2>2
  <1>7. /\ CrossSignal(m) = IF m.loud /\ High(f, n - 1) /\ ~High(f, n) THEN "SELL"
                            ELSE IF m.loud /\ Low(f, n - 1) /\ ~Low(f, n) THEN "BUY"
                            ELSE "NONE"
        /\ CrossSignal(t) = IF m.loud /\ High(g, n - 1) /\ ~High(g, n) THEN "SELL"
                            ELSE IF m.loud /\ Low(g, n - 1) /\ ~Low(g, n) THEN "BUY"
                            ELSE "NONE"
    BY <1>2, <1>3 DEF CrossSignal, f, g
  <1> HIDE DEF High, Low, t, n
  <1>8. CrossSignal(t) = Other(CrossSignal(m))
    BY <1>6, <1>7 DEF Other
  <1>9. QED
    BY <1>8 DEF t

Turned(pattern) ==
  CASE pattern = "Hammer" -> "ShootingStar" [] pattern = "ShootingStar" -> "Hammer"
    [] pattern = "EngulfBull" -> "EngulfBear" [] pattern = "EngulfBear" -> "EngulfBull"
    [] OTHER -> pattern

\* The shapes of a candle c, o, h, l after prevC, prevO, and of its mirror.
LEMMA CandleTurns ==
  ASSUME NEW o \in Price, NEW c \in Price, NEW h \in Price, NEW l \in Price
  PROVE  /\ Flip(l) - Larger(Flip(o), Flip(c)) = Smaller(o, c) - l
         /\ Smaller(Flip(o), Flip(c)) - Flip(h) = h - Larger(o, c)
         /\ AbsOf(c - o) \in Nat
         /\ h - Larger(o, c) \in Int /\ Smaller(o, c) - l \in Int
  <1>1. Top \in Int /\ o \in Int /\ c \in Int /\ h \in Int /\ l \in Int
    BY FlipPrice, SignalsConstants
  <1>2. QED
    BY <1>1 DEF Flip, AbsOf, Larger, Smaller

LEMMA BodyTurns ==
  ASSUME NEW o \in Price, NEW c \in Price
  PROVE  AbsOf(Flip(c) - Flip(o)) = AbsOf(c - o)
  <1>1. Top \in Int /\ o \in Int /\ c \in Int
    BY FlipPrice, SignalsConstants
  <1>2. QED
    BY <1>1 DEF Flip, AbsOf

LEMMA PatternTurns ==
  ASSUME SignalsBalanced, NEW m \in Market("doji"), ~Lopsided("doji", m)
  PROVE  detectPattern(MirrorMarket("doji", m)) = Turned(detectPattern(m))
  <1> DEFINE t == MirrorMarket("doji", m)
             n == Period + 1
             f == m.closes
             g == t.closes
             c == f[n]
             p == f[n - 1]
  <1>0. Period \in Nat /\ Period >= 2 /\ n \in Nat /\ n \in 1 .. n /\ n - 1 \in 1 .. n
    BY SignalsConstants DEF SignalsBalanced
  <1>1. /\ f \in [1 .. n -> Price] /\ m.o \in Price /\ m.h \in Price /\ m.l \in Price
        /\ m.prevO \in Price
    BY DEF Market
  <1>2. /\ g = [i \in DOMAIN f |-> Top + 1 - f[i]]
        /\ t.o = Flip(m.o) /\ t.prevO = Flip(m.prevO) /\ t.h = Flip(m.l) /\ t.l = Flip(m.h)
    BY DEF MirrorMarket, Flip
  <1> HIDE DEF f, g
  <1>3. /\ Len(f) = n /\ Len(g) = n
        /\ g[n] = Flip(c) /\ g[n - 1] = Flip(p) /\ c \in Price /\ p \in Price
    BY <1>0, <1>1, <1>2, ClosesFlipped
  <1>4. m.o # p /\ c # m.prevO
    BY <1>3 DEF Lopsided, f
  <1> HIDE DEF c, p, n, t
  <1> DEFINE body == AbsOf(c - m.o)
             was == AbsOf(p - m.prevO)
             up == m.h - Larger(m.o, c)
             down == Smaller(m.o, c) - m.l
             range == m.h - m.l
             Long(shadow) == body > 0 /\ 100 * shadow >= ShadowRatio * body
             Shape(high, low, bull, bear) ==
               IF range <= 0 THEN "None"
               ELSE IF 100 * body <= BodyRatio * range THEN "Doji"
               ELSE IF Long(low) /\ high < body THEN "Hammer"
               ELSE IF Long(high) /\ low < body THEN "ShootingStar"
               ELSE IF ~(was > 0 /\ body > was) THEN "None"
               ELSE IF bull THEN "EngulfBull"
               ELSE IF bear THEN "EngulfBear" ELSE "None"
             Bull == p < m.prevO /\ c > m.o /\ c > m.prevO /\ m.o <= p
             Bear == p > m.prevO /\ c < m.o /\ m.o > p /\ c <= m.prevO
  <1>5. detectPattern(m) = Shape(up, down, Bull, Bear)
    <2>1. m.closes = f /\ (m.h <= m.l <=> range <= 0) /\ (m.h > m.l <=> ~(range <= 0))
      <3>1. m.h \in Int /\ m.l \in Int
        BY <1>1, FlipPrice
      <3>2. QED
        BY <3>1 DEF f
    <2> HIDE DEF range
    <2>2. range = m.h - m.l /\ c = f[n] /\ p = f[n - 1]
      BY DEF range, c, p
    <2>3. QED
      BY <1>3, <2>1, <2>2 DEF detectPattern
  <1>6. detectPattern(t) = Shape(down, up, Bear, Bull)
    <2>1. /\ t.closes = g /\ Len(t.closes) = n
          /\ t.o = Flip(m.o) /\ t.prevO = Flip(m.prevO)
          /\ t.h = Flip(m.l) /\ t.l = Flip(m.h)
      BY <1>2, <1>3 DEF g
    <2>2. /\ t.closes[n] = Flip(c) /\ t.closes[n - 1] = Flip(p)
      BY <1>3, <2>1
    <2>3. /\ AbsOf(Flip(c) - Flip(m.o)) = body
          /\ AbsOf(Flip(p) - Flip(m.prevO)) = was
          /\ Flip(m.l) - Larger(Flip(m.o), Flip(c)) = down
          /\ Smaller(Flip(m.o), Flip(c)) - Flip(m.h) = up
          /\ Flip(m.l) - Flip(m.h) = range
      <3>1. /\ Flip(m.l) - Larger(Flip(m.o), Flip(c)) = Smaller(m.o, c) - m.l
            /\ Smaller(Flip(m.o), Flip(c)) - Flip(m.h) = m.h - Larger(m.o, c)
        <4>1. m.o \in Price /\ c \in Price /\ m.h \in Price /\ m.l \in Price
          BY <1>1, <1>3
        <4>2. \A w, x, y, z \in Price :
                /\ Flip(z) - Larger(Flip(w), Flip(x)) = Smaller(w, x) - z
                /\ Smaller(Flip(w), Flip(x)) - Flip(y) = y - Larger(w, x)
          BY CandleTurns
        <4> HIDE DEF body, was, up, down, range, Bull, Bear
        <4>3. Flip(m.l) - Larger(Flip(m.o), Flip(c)) = Smaller(m.o, c) - m.l
          BY <4>1, <4>2
        <4>4. Smaller(Flip(m.o), Flip(c)) - Flip(m.h) = m.h - Larger(m.o, c)
          BY <4>1, <4>2
        <4>5. QED
          BY <4>3, <4>4
      <3>2. /\ AbsOf(Flip(c) - Flip(m.o)) = AbsOf(c - m.o)
            /\ AbsOf(Flip(p) - Flip(m.prevO)) = AbsOf(p - m.prevO)
        BY <1>1, <1>3, BodyTurns
      <3>3. Flip(m.l) - Flip(m.h) = m.h - m.l
        BY <1>1, FlipPrice
      <3>4. QED
        BY <3>1, <3>2, <3>3
    <2>4. /\ Flip(m.l) <= Flip(m.h) <=> range <= 0
          /\ Flip(m.l) > Flip(m.h) <=> ~(range <= 0)
      <3>1. /\ m.h \in Int /\ m.l \in Int
            /\ Flip(m.l) <= Flip(m.h) <=> m.h <= m.l
            /\ Flip(m.h) < Flip(m.l) <=> m.l < m.h
        BY <1>1, FlipPrice
      <3>2. QED
        BY <3>1
    <2>5. /\ (/\ Flip(p) < Flip(m.prevO) /\ Flip(c) > Flip(m.o)
              /\ Flip(c) > Flip(m.prevO) /\ Flip(m.o) <= Flip(p)) <=> Bear
          /\ (/\ Flip(p) > Flip(m.prevO) /\ Flip(c) < Flip(m.o)
              /\ Flip(m.o) > Flip(p) /\ Flip(c) <= Flip(m.prevO)) <=> Bull
      <3>1. /\ Flip(p) < Flip(m.prevO) <=> m.prevO < p
            /\ Flip(m.prevO) < Flip(p) <=> p < m.prevO
            /\ Flip(m.o) < Flip(c) <=> c < m.o
            /\ Flip(c) < Flip(m.o) <=> m.o < c
            /\ Flip(m.prevO) < Flip(c) <=> c < m.prevO
            /\ Flip(c) <= Flip(m.prevO) <=> m.prevO <= c
            /\ Flip(m.o) <= Flip(p) <=> p <= m.o
            /\ Flip(p) < Flip(m.o) <=> m.o < p
            /\ p \in Int /\ c \in Int /\ m.o \in Int /\ m.prevO \in Int
        BY <1>1, <1>3, FlipPrice
      <3>2. \A x, y \in Int : (x > y <=> y < x) /\ (x <= y <=> x < y \/ x = y)
        OBVIOUS
      <3>3. /\ Flip(p) \in Int /\ Flip(c) \in Int /\ Flip(m.o) \in Int
            /\ Flip(m.prevO) \in Int
        BY <1>1, <1>3, FlipPrice
      <3>4. QED
        BY <1>4, <3>1, <3>2, <3>3
    <2> HIDE DEF body, was, up, down, range, Bull, Bear
    <2>6. QED
      BY <2>1, <2>2, <2>3, <2>4, <2>5 DEF detectPattern
  <1>7. ~(Long(down) /\ up < body /\ Long(up) /\ down < body)
    <2>1. body \in Nat /\ up \in Int /\ down \in Int
      BY <1>1, <1>3, CandleTurns
    <2> HIDE DEF body, up, down
    <2>2. \A b \in Nat, x, r \in Int : b > 0 /\ r >= 100 /\ 100 * x >= r * b => x >= b
      <3>1. \A b \in Nat, r \in Int : r >= 100 => r * b >= 100 * b
        OBVIOUS
      <3>2. \A b \in Nat, r \in Int : r * b \in Int
        OBVIOUS
      <3>3. QED
        BY <3>1, <3>2
    <2>3. ShadowRatio \in Int /\ ShadowRatio >= 100
      BY SignalsConstants DEF SignalsBalanced
    <2>4. Long(up) => up >= body
      BY <2>1, <2>2, <2>3
    <2>5. QED
      BY <2>1, <2>4
  <1>8. ~(Bull /\ Bear)
    <2>1. p \in Int /\ m.prevO \in Int
      BY <1>1, <1>3, FlipPrice
    <2>2. QED
      BY <2>1
  <1> HIDE DEF Long, Bull, Bear, body, was, range, up, down
  <1>9. Shape(down, up, Bear, Bull) = Turned(Shape(up, down, Bull, Bear))
    BY <1>7, <1>8, Zenon DEF Turned
  <1>10. QED
    BY <1>5, <1>6, <1>9 DEF t

LEMMA PatternSignalTurns ==
  ASSUME SignalsBalanced, NEW m \in Market("doji"), ~Lopsided("doji", m),
         NEW trend \in {"UP", "DOWN", "FLAT"},
         NEW turned, turned = CASE trend = "UP" -> "DOWN" [] trend = "DOWN" -> "UP"
                                [] OTHER -> "FLAT"
  PROVE  PatternSignal(MirrorMarket("doji", m), turned) = Other(PatternSignal(m, trend))
  <1> DEFINE t == MirrorMarket("doji", m)
             n == Period + 1
             f == m.closes
             g == t.closes
             was == dojiSignalFromPattern(detectPattern(m), trend)
             is == dojiSignalFromPattern(detectPattern(t), turned)
  <1>0. Period \in Nat /\ n \in Nat
    BY SignalsConstants
  <1>1. f \in [1 .. n -> Price] /\ m.loud \in BOOLEAN
    BY DEF Market
  <1>2. g = [i \in DOMAIN f |-> Top + 1 - f[i]] /\ t.loud = m.loud
    BY DEF MirrorMarket
  <1> HIDE DEF f, g
  <1>3. /\ Len(f) = n /\ Len(g) = n
        /\ \A i \in 1 .. n : g[i] = Flip(f[i]) /\ f[i] \in Price
    BY <1>0, <1>1, <1>2, ClosesFlipped
  <1>4. \E i \in 1 .. n : f[i] # f[1]
    BY <1>3 DEF Lopsided, f
  <1> DEFINE High(x) == AtLeast(calcRSI(x, n), Overbought)
             Low(x) == AtMost(calcRSI(x, n), Oversold)
  <1>5. (High(g) <=> Low(f)) /\ (Low(g) <=> High(f))
    BY <1>3, <1>4, RSITurns
  <1>6. is = Other(was) /\ was \in {"BUY", "SELL", "NONE"}
    <2> DEFINE p == detectPattern(m)
               q == detectPattern(t)
    <2>1. q = Turned(p)
      BY PatternTurns
    <2> HIDE DEF p, q
    <2>2. /\ (q \in {"Doji", "Hammer", "EngulfBull"}
                <=> p \in {"Doji", "ShootingStar", "EngulfBear"})
          /\ (q \in {"Doji", "ShootingStar", "EngulfBear"}
                <=> p \in {"Doji", "Hammer", "EngulfBull"})
      BY <2>1 DEF Turned
    <2>3. (turned = "UP" <=> trend = "DOWN") /\ (turned = "DOWN" <=> trend = "UP")
      OBVIOUS
    <2>4. dojiSignalFromPattern(q, turned) = Other(dojiSignalFromPattern(p, trend))
      BY <2>2, <2>3 DEF dojiSignalFromPattern, Other
    <2>5. dojiSignalFromPattern(p, trend) \in {"BUY", "SELL", "NONE"}
      BY DEF dojiSignalFromPattern
    <2>6. QED
      BY <2>4, <2>5 DEF p, q
  <1>7. PatternSignal(m, trend) =
          CASE ~m.loud -> "NONE"
            [] m.loud /\ was = "BUY" /\ ~Low(f) -> "NONE"
            [] m.loud /\ was = "SELL" /\ ~High(f) -> "NONE"
            [] OTHER -> was
    BY <1>3 DEF PatternSignal, f
  <1>8. PatternSignal(t, turned) =
          CASE ~m.loud -> "NONE"
            [] m.loud /\ is = "BUY" /\ ~Low(g) -> "NONE"
            [] m.loud /\ is = "SELL" /\ ~High(g) -> "NONE"
            [] OTHER -> is
    BY <1>2, <1>3 DEF PatternSignal, g
  <1> HIDE DEF t, is, was, High, Low
  <1>9. PatternSignal(t, turned) = Other(PatternSignal(m, trend))
    <2>1. (is = "BUY" <=> was = "SELL") /\ (is = "SELL" <=> was = "BUY")
          /\ (was = "NONE" => is = "NONE")
      BY <1>6 DEF Other
    <2>2. CASE m.loud
      BY <1>5, <1>6, <1>7, <1>8, <2>1, <2>2 DEF Other
    <2>3. CASE ~m.loud
      BY <1>7, <1>8, <2>3 DEF Other
    <2>4. QED
      BY <2>2, <2>3
  <1>10. QED
    BY <1>9 DEF t

LEMMA SignalsMirrors == SignalsBalanced /\ TypeOK => SignalsMirror
  <1> SUFFICES ASSUME SignalsBalanced, kind \in {"signal", "doji"},
                      NEW m \in Market(kind), ~Lopsided(kind, m)
               PROVE  LET other == MirrorMarket(kind, m)
                          turned == CASE detectTrend(m) = "UP" -> "DOWN"
                                      [] detectTrend(m) = "DOWN" -> "UP"
                                      [] OTHER -> "FLAT"
                      IN  IF kind = "signal" THEN CrossSignal(other) = Other(CrossSignal(m))
                          ELSE PatternSignal(other, turned)
                                 = Other(PatternSignal(m, detectTrend(m)))
    BY DEF SignalsMirror, TypeOK
  <1>1. CASE kind = "signal"
    BY <1>1, CrossTurns
  <1>2. CASE kind = "doji"
    <2>1. detectTrend(m) \in {"UP", "DOWN", "FLAT"}
      BY DEF detectTrend
    <2>2. QED
      BY <1>2, <2>1, PatternSignalTurns
  <1>3. QED
    BY <1>1, <1>2

-----------------------------------------------------------------------------
(***************************************************************************)
(* The whole: one component moves, the others rest.                        *)
(***************************************************************************)
SafetyInv ==
  /\ SignalsInv /\ ScalpInv /\ RoomInv /\ LiqInv /\ NewsInv /\ TrigInv /\ MonInv

LEMMA SafetyStarts == AllInit => SafetyInv
  BY SignalsStart, ScalpStart, RoomStart, LiqStart, NewsStart, TrigStart, MonStart
  DEF AllInit, SafetyInv

\* Each component takes a step of its own or none.
LEMMA SafetySteps ==
  [AllNext]_all =>
    /\ [Next]_vars /\ [Scalp!Next]_scalpVars /\ [Rooms!Next]_roomVars
    /\ [Liq!Next]_liqVars /\ [News!Next]_newsVars /\ [Trig!Next]_trigVars
    /\ [Mon!Next]_monVars
  BY DEF AllNext, all

LEMMA SafetyKeeps == SafetyInv /\ [AllNext]_all => SafetyInv'
  BY SafetySteps, SignalsKeeps, ScalpKeeps, RoomKeeps, LiqKeeps, NewsKeeps, TrigKeeps,
     MonKeeps DEF SafetyInv

LEMMA SafetyHolds == AllSpec => []SafetyInv
  BY SafetyStarts, SafetyKeeps, PTL DEF AllSpec

\* The state of every component keeps its shape.
THEOREM SafetyTyped == AllSpec => []TypesOK
  <1>1. SafetyInv => TypesOK
    BY ScalpShows, RoomShows, LiqShows, NewsShows, TrigShows, MonShows
    DEF SafetyInv, SignalsInv, TypesOK, RoomInv
  <1>2. QED
    BY <1>1, SafetyHolds, PTL

\* No event is answered twice within its cool-down
\* (api/news_sentiment_strategy.go, liq_cascade_strategy.go,
\* funding_arb_strategy.go, strategy_link.go, and the monitors' alerts).
THEOREM EventsSpaced == AllSpec => []SpacedTriggers
  <1>1. SafetyInv => SpacedTriggers
    BY TrigShows, MonShows DEF SafetyInv, SpacedTriggers
  <1>2. QED
    BY <1>1, SafetyHolds, PTL

\* The scalper knows its position while every call is answered, and the count
\* that caps a candle strategy covers what it holds (api/scalp_strategy.go,
\* signal_strategy.go, doji_strategy.go).
THEOREM PositionsKnown == AllSpec => []HoldingsKnown
  <1>1. SafetyInv => HoldingsKnown
    BY ScalpShows DEF SafetyInv, SignalsInv, HoldingsKnown
  <1>2. QED
    BY <1>1, SafetyHolds, PTL

\* With thresholds that are mirror images, as the defaults are, neither the
\* scalper nor the candle strategies lean to one side.
THEOREM SidesAlike == ScalpBalanced /\ SignalsBalanced => (AllSpec => []SidesMirror)
  <1> SUFFICES ASSUME ScalpBalanced, SignalsBalanced PROVE AllSpec => []SidesMirror
    OBVIOUS
  <1>1. SafetyInv => SidesMirror
    BY ScalpMirrors, SignalsMirrors DEF SafetyInv, SignalsInv, SidesMirror
  <1>2. QED
    BY <1>1, SafetyHolds, PTL

\* A room of the table has a live stream (api/ws_price_proxy.go), and the
\* liquidation hub runs, on the one open channel, while a browser watches
\* (api/ws_liquidation_stats.go).
THEOREM ViewersServed == AllSpec => []BrowsersServed
  <1>1. SafetyInv => BrowsersServed
    BY RoomShows, LiqShows DEF SafetyInv, BrowsersServed
  <1>2. QED
    BY <1>1, SafetyHolds, PTL

\* The days of the liquidation series agree with their hours
\* (api/ws_liquidation_stats.go), and the news snapshot with all that was
\* fetched (api/ws_news_hyper_proxy.go).
THEOREM SeriesTrue == AllSpec => []SeriesKept
  <1>1. SafetyInv => SeriesKept
    BY LiqShows, NewsShows DEF SafetyInv, SeriesKept
  <1>2. QED
    BY <1>1, SafetyHolds, PTL

=============================================================================
