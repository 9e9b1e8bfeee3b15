----------------------------- MODULE Feeds_proofs -----------------------------
(***************************************************************************)
(* The feeds and hubs of the server, for every set of symbols, readers,    *)
(* browsers, sources and addresses and every bound.                        *)
(*                                                                         *)
(* PriceCache: the feeds are numbered as they start, a feed that runs and  *)
(* was not told to stop is the one stored for its symbol, and a stored     *)
(* channel is open and has its feed.                                       *)
(*                                                                         *)
(* DataFallback: the polling loops have numbers of their own, and one that *)
(* was not told to stop is the loop of its degraded symbol.                *)
(*                                                                         *)
(* HyperSession: the state keeps its shape.                                *)
(***************************************************************************)
EXTENDS MCFeeds, FiniteSetTheorems, TLAPS

-----------------------------------------------------------------------------
(***************************************************************************)
(* The price cache.                                                        *)
(***************************************************************************)
\* Feeds are numbered from 1 in the order they start.
Numbered == \E k \in Nat : Started = 1 .. k

PriceInv == TypeOK /\ Numbered /\ NoOrphanFeed /\ StoredMeansServed

LEMMA PriceStart == Init => PriceInv
  <1> SUFFICES ASSUME Init PROVE PriceInv
    OBVIOUS
  <1> DEFINE e == <<>>
  <1>1. DOMAIN e = {} /\ e \in [{} -> Symbol] /\ e \in [{} -> Phases]
    OBVIOUS
  <1>2. topic = e /\ phase = e /\ Started = {}
    BY <1>1 DEF Init, Started
  <1> HIDE DEF e
  <1>3. TypeOK
    BY <1>1, <1>2 DEF Init, TypeOK, Ages, Steps, None
  <1>4. Numbered
    <2>1. 0 \in Nat /\ 1 .. 0 = {}
      OBVIOUS
    <2>2. QED
      BY <1>2, <2>1 DEF Numbered
  <1>5. NoOrphanFeed /\ StoredMeansServed
    BY <1>2 DEF NoOrphanFeed, StoredMeansServed, Init
  <1>6. QED
    BY <1>3, <1>4, <1>5 DEF PriceInv

\* The number of the next feed is no feed's yet.
LEMMA NextNumber ==
  ASSUME Numbered
  PROVE  LET n == Cardinality(Started) + 1
         IN  n \notin Started /\ n # None /\ \E k \in Nat : Started \cup {n} = 1 .. k
  <1>1. PICK k \in Nat : Started = 1 .. k
    BY DEF Numbered
  <1>2. Cardinality(Started) = k
    BY <1>1, FS_Interval
  <1>3. k + 1 \notin 1 .. k /\ k + 1 # 0 /\ (1 .. k) \cup {k + 1} = 1 .. (k + 1)
    OBVIOUS
  <1>4. QED
    BY <1>1, <1>2, <1>3 DEF None

\* The feed started for s, if there was none, is stored and runs.
LEMMA SubscribedKeeps ==
  ASSUME PriceInv, NEW s \in Symbol, Subscribed(s),
         UNCHANGED <<price, closed, conn, fills, stops>>,
         pc' \in [Reader -> Steps], asks' \in [Reader -> Symbol]
  PROVE  PriceInv'
  <1> USE DEF PriceInv
  <1>1. CASE chan[s] # None
    <2>1. UNCHANGED <<chan, topic, phase>>
      BY <1>1 DEF Subscribed
    <2>2. QED
      BY <2>1 DEF TypeOK, Numbered, NoOrphanFeed, StoredMeansServed, Started
  <1>2. CASE chan[s] = None
    <2> DEFINE n == Cardinality(Started) + 1
    <2>1. /\ n \in Feed
          /\ chan' = [chan EXCEPT ![s] = n]
          /\ topic' = [m \in Started \cup {n} |-> IF m = n THEN s ELSE topic[m]]
          /\ phase' = [m \in Started \cup {n} |-> IF m = n THEN "starting" ELSE phase[m]]
      BY <1>2 DEF Subscribed
    <2>2. n \notin Started /\ n # None /\ \E k \in Nat : Started \cup {n} = 1 .. k
      BY NextNumber
    <2> HIDE DEF n
    <2>3. Started' = Started \cup {n}
      BY <2>1 DEF Started
    <2>4. TypeOK'
      BY <2>1, <2>2, <2>3 DEF TypeOK, Phases
    <2>5. Numbered'
      BY <2>2, <2>3 DEF Numbered
    <2>6. NoOrphanFeed'
      <3> SUFFICES ASSUME NEW m \in Started', phase'[m] \in {"starting", "open"},
                          m \notin closed'
                   PROVE  chan'[topic'[m]] = m
        BY DEF NoOrphanFeed
      <3>1. CASE m = n
        BY <2>1, <2>3, <3>1 DEF TypeOK
      <3>2. CASE m # n
        <4>1. m \in Started /\ topic'[m] = topic[m] /\ phase'[m] = phase[m]
          BY <2>1, <2>3, <3>2
        <4>2. chan[topic[m]] = m
          BY <4>1 DEF NoOrphanFeed
        <4>3. m # None
          BY <4>1 DEF TypeOK, Feed, None
        <4>4. QED
          BY <1>2, <2>1, <4>1, <4>2, <4>3 DEF TypeOK
      <3>3. QED
        BY <3>1, <3>2
    <2>7. StoredMeansServed'
      <3> SUFFICES ASSUME NEW t \in Symbol, chan'[t] # None
                   PROVE  /\ chan'[t] \notin closed' /\ topic'[chan'[t]] = t
                          /\ phase'[chan'[t]] # "gone"
        BY DEF StoredMeansServed
      <3>1. CASE t = s
        BY <2>1, <2>2, <3>1 DEF TypeOK
      <3>2. CASE t # s
        <4>1. chan'[t] = chan[t] /\ chan[t] \in Started /\ chan[t] # n
          BY <2>1, <2>2, <3>2 DEF TypeOK
        <4>2. QED
          BY <2>1, <4>1 DEF StoredMeansServed
      <3>3. QED
        BY <3>1, <3>2
    <2>8. QED
      BY <2>4, <2>5, <2>6, <2>7
  <1>3. QED
    BY <1>1, <1>2

\* Stopping closes what was stored, and stores nothing.
LEMMA StopAllKeeps ==
  ASSUME PriceInv, NEW S \in SUBSET Symbol, \A s \in S : chan[s] # None, StopAll(S),
         price' \in [Symbol -> Ages], UNCHANGED <<topic, phase, conn, pc, asks, fills>>
  PROVE  PriceInv'
  <1> USE DEF PriceInv
  <1>1. /\ stops' = stops + 1
        /\ closed' = closed \cup {chan[s] : s \in S}
        /\ chan' = [s \in Symbol |-> IF s \in S THEN None ELSE chan[s]]
        /\ Started' = Started
    BY DEF StopAll, Started
  <1>2. TypeOK'
    BY <1>1 DEF TypeOK
  <1>3. Numbered'
    BY <1>1 DEF Numbered
  <1>4. NoOrphanFeed'
    <2> SUFFICES ASSUME NEW m \in Started, phase[m] \in {"starting", "open"},
                        m \notin closed'
                 PROVE  chan'[topic[m]] = m
      BY <1>1 DEF NoOrphanFeed
    <2>1. chan[topic[m]] = m /\ topic[m] \in Symbol
      BY <1>1 DEF NoOrphanFeed, TypeOK
    <2>2. topic[m] \notin S
      BY <1>1, <2>1
    <2>3. QED
      BY <1>1, <2>1, <2>2
  <1>5. StoredMeansServed'
    <2> SUFFICES ASSUME NEW t \in Symbol, chan'[t] # None
                 PROVE  /\ chan'[t] \notin closed' /\ topic[chan'[t]] = t
                        /\ phase[chan'[t]] # "gone"
      BY DEF StoredMeansServed
    <2>1. t \notin S /\ chan'[t] = chan[t]
      BY <1>1
    <2>2. chan[t] \notin closed /\ topic[chan[t]] = t /\ phase[chan[t]] # "gone"
      BY <2>1 DEF StoredMeansServed
    <2>3. \A s \in S : topic[chan[s]] = s
      BY DEF StoredMeansServed
    <2>4. QED
      BY <1>1, <2>1, <2>2, <2>3
  <1>6. QED
    BY <1>2, <1>3, <1>4, <1>5

\* A goroutine that moves on, without ending.
LEMMA PhaseKeeps ==
  ASSUME PriceInv, NEW n \in Started, NEW p \in Phases \ {"gone"},
         phase[n] # "gone",
         p = "open" => phase[n] = "starting",
         p = "starting" => FALSE,
         phase' = [phase EXCEPT ![n] = p], conn' \subseteq conn \cup {n},
         UNCHANGED <<price, chan, closed, topic, pc, asks, fills, stops>>
  PROVE  PriceInv'
  <1> USE DEF PriceInv
  <1>1. Started' = Started
    BY DEF Started
  <1>2. TypeOK'
    BY <1>1 DEF TypeOK
  <1>3. Numbered'
    BY <1>1 DEF Numbered
  <1>4. NoOrphanFeed'
    BY <1>1 DEF NoOrphanFeed, TypeOK
  <1>5. StoredMeansServed'
    BY <1>1 DEF StoredMeansServed, TypeOK
  <1>6. QED
    BY <1>2, <1>3, <1>4, <1>5

LEMMA FinishKeeps ==
  ASSUME PriceInv, NEW n \in Started, Finish(n) PROVE PriceInv'
  <1> USE DEF PriceInv
  <1>1. /\ phase[n] \notin {"starting", "open"} /\ chan' = Forgotten(n)
        /\ phase' = [phase EXCEPT ![n] = "gone"]
        /\ UNCHANGED <<price, closed, topic, conn, pc, asks, fills, stops>>
        /\ Started' = Started /\ topic[n] \in Symbol
    BY DEF Finish, Started, TypeOK
  <1>2. \A s \in Symbol : chan'[s] = chan[s] \/ (chan[s] = n /\ chan'[s] = None)
    BY <1>1 DEF Forgotten, TypeOK
  <1>3. chan'[topic[n]] # n
    BY <1>1 DEF Forgotten, TypeOK, None, Feed
  <1>4. chan' \in [Symbol -> Started \cup {None}]
    BY <1>1 DEF Forgotten, TypeOK
  <1>5. TypeOK'
    BY <1>1, <1>4 DEF TypeOK, Phases
  <1>6. Numbered'
    BY <1>1 DEF Numbered
  <1>7. NoOrphanFeed'
    BY <1>1, <1>2 DEF NoOrphanFeed, TypeOK
  <1>8. StoredMeansServed'
    BY <1>1, <1>2, <1>3 DEF StoredMeansServed, TypeOK
  <1>9. QED
    BY <1>5, <1>6, <1>7, <1>8

\* The prices and the readers move; the feeds stay as they are.
LEMMA ReadersKeep ==
  ASSUME PriceInv, price' \in [Symbol -> Ages], pc' \in [Reader -> Steps],
         asks' \in [Reader -> Symbol], fills' \in Nat,
         conn' \subseteq conn, UNCHANGED <<chan, closed, topic, phase, stops>>
  PROVE  PriceInv'
  BY DEF PriceInv, TypeOK, Numbered, NoOrphanFeed, StoredMeansServed, Started

\* Every step keeps the invariant.
LEMMA PriceKeeps == PriceInv /\ [Next]_vars => PriceInv'
  <1> SUFFICES ASSUME PriceInv, [Next]_vars PROVE PriceInv'
    OBVIOUS
  <1>0. TypeOK
    BY DEF PriceInv
  <1>1. ASSUME NEW s \in Symbol, Subscribe(s) PROVE PriceInv'
    BY <1>0, <1>1, SubscribedKeeps DEF Subscribe, TypeOK
  <1>2. ASSUME NEW s \in Symbol, Unsubscribe(s) PROVE PriceInv'
    <2>1. {s} \in SUBSET Symbol /\ (\A t \in {s} : chan[t] # None) /\ StopAll({s})
          /\ UNCHANGED <<topic, phase, conn, pc, asks, fills>>
      BY <1>2 DEF Unsubscribe
    <2>2. price' \in [Symbol -> Ages]
      BY <1>0, <1>2 DEF Unsubscribe, TypeOK, Ages
    <2>3. QED
      BY <2>1, <2>2, StopAllKeeps
  <1>3. ASSUME UnsubscribeAll PROVE PriceInv'
    <2> DEFINE S == {s \in Symbol : chan[s] # None}
    <2>1. S \in SUBSET Symbol /\ (\A t \in S : chan[t] # None) /\ StopAll(S)
          /\ UNCHANGED <<topic, phase, conn, pc, asks, fills>>
      BY <1>3 DEF UnsubscribeAll
    <2>2. price' \in [Symbol -> Ages]
      BY <1>3 DEF UnsubscribeAll, Ages
    <2> HIDE DEF S
    <2>3. QED
      BY <2>1, <2>2, StopAllKeeps
  <1>4. ASSUME NEW s \in Symbol, UpdatePrice(s) \/ TenSecondsPass(s) PROVE PriceInv'
    <2>1. price' \in [Symbol -> Ages] /\ fills' \in Nat
          /\ UNCHANGED <<chan, closed, topic, phase, conn, pc, asks, stops>>
      BY <1>0, <1>4 DEF UpdatePrice, TenSecondsPass, TypeOK, Ages, feeds
    <2>2. QED
      BY <1>0, <2>1, ReadersKeep DEF TypeOK
  <1>5. ASSUME NEW r \in Reader, NEW s \in Symbol, GetPrice(r, s) PROVE PriceInv'
    <2>1. pc' \in [Reader -> Steps] /\ asks' \in [Reader -> Symbol]
          /\ UNCHANGED <<price, chan, closed, topic, phase, conn, fills, stops>>
      BY <1>0, <1>5 DEF GetPrice, TypeOK, Steps, feeds
    <2>2. QED
      BY <1>0, <2>1, ReadersKeep DEF TypeOK
  <1>6. ASSUME NEW r \in Reader, PollFresh(r) \/ Timeout(r) PROVE PriceInv'
    <2>1. pc' \in [Reader -> Steps]
          /\ UNCHANGED <<price, chan, closed, topic, phase, conn, asks, fills, stops>>
      BY <1>0, <1>6 DEF PollFresh, Timeout, TypeOK, Steps, feeds
    <2>2. QED
      BY <1>0, <2>1, ReadersKeep DEF TypeOK
  <1>7. ASSUME NEW r \in Reader, GetPriceSubscribes(r) PROVE PriceInv'
    <2>1. asks[r] \in Symbol /\ Subscribed(asks[r]) /\ pc' \in [Reader -> Steps]
          /\ UNCHANGED <<price, closed, conn, asks, fills, stops>>
      BY <1>0, <1>7 DEF GetPriceSubscribes, TypeOK, Steps
    <2>2. QED
      BY <1>0, <2>1, SubscribedKeeps DEF TypeOK
  <1>8. ASSUME NEW n \in Started, Event(n) \/ ConnectionEnds(n) PROVE PriceInv'
    <2>1. price' \in [Symbol -> Ages] /\ conn' \subseteq conn
          /\ UNCHANGED <<chan, closed, topic, phase, pc, asks, fills, stops>>
      BY <1>0, <1>8 DEF Event, ConnectionEnds, TypeOK, Ages, feeds
    <2>2. QED
      BY <1>0, <2>1, ReadersKeep DEF TypeOK
  <1>9. ASSUME NEW n \in Started,
               StartFails(n) \/ StartSucceeds(n) \/ NoticeStop(n) \/ NoticeLoss(n)
        PROVE  PriceInv'
    <2>1. \E p \in Phases \ {"gone", "starting"} :
            /\ phase[n] # "gone" /\ (p = "open" => phase[n] = "starting")
            /\ phase' = [phase EXCEPT ![n] = p] /\ conn' \subseteq conn \cup {n}
      BY <1>9 DEF StartFails, StartSucceeds, NoticeStop, NoticeLoss, Phases
    <2>2. UNCHANGED <<price, chan, closed, topic, pc, asks, fills, stops>>
      BY <1>9 DEF StartFails, StartSucceeds, NoticeStop, NoticeLoss
    <2>3. QED
      BY <2>1, <2>2, PhaseKeeps
  <1>10. ASSUME NEW n \in Started, Finish(n) PROVE PriceInv'
    BY <1>10, FinishKeeps
  <1>11. ASSUME UNCHANGED vars PROVE PriceInv'
    <2>1. UNCHANGED <<price, chan, closed, topic, phase, conn, pc, asks, fills, stops>>
      BY <1>11 DEF vars, feeds
    <2>2. QED
      BY <1>0, <2>1, ReadersKeep DEF TypeOK
  <1>12. QED
    BY <1>1, <1>2, <1>3, <1>4, <1>5, <1>6, <1>7, <1>8, <1>9, <1>10, <1>11
    DEF Next, Goroutine, Waiting

-----------------------------------------------------------------------------
(***************************************************************************)
(* The fall-back to polling.                                               *)
(***************************************************************************)
\* Loops that run have numbers of their own, only their channels are closed,
\* and a channel that is stored is open and has its loop.
LoopsKnown ==
  /\ \A p, q \in poll_polls : p.id = q.id => p = q
  /\ \A i \in poll_told : \E p \in poll_polls : p.id = i
  /\ \A s \in Coin : poll_stopOf[s] # Fallback!None =>
       /\ poll_stopOf[s] \notin poll_told
       /\ \E p \in poll_polls : p.id = poll_stopOf[s] /\ p.sym = s

PollInv == Fallback!TypeOK /\ Fallback!PollsInHand /\ LoopsKnown

LEMMA PollStart == Fallback!Init => PollInv
  BY DEF Fallback!Init, PollInv, Fallback!TypeOK, Fallback!PollsInHand, LoopsKnown,
    Fallback!None

LEMMA DegradeKeeps ==
  ASSUME PollInv, NEW s \in Coin, Fallback!DegradeSymbol(s) PROVE PollInv'
  <1> USE DEF PollInv
  <1>1. CASE s \in poll_degraded
    BY <1>1 DEF Fallback!DegradeSymbol, Fallback!TypeOK, Fallback!PollsInHand, LoopsKnown
  <1>2. CASE s \notin poll_degraded
    <2>1. PICK i \in Fallback!Fresh : Fallback!StartPolling(s, i)
      BY <1>2 DEF Fallback!DegradeSymbol
    <2>2. /\ poll_degraded' = poll_degraded \cup {s}
          /\ poll_stopOf' = [poll_stopOf EXCEPT ![s] = i]
          /\ poll_polls' = poll_polls \cup {[id |-> i, sym |-> s]}
          /\ poll_due' \subseteq poll_due
          /\ UNCHANGED <<poll_heard, poll_told, poll_waking>>
      BY <1>2, <2>1 DEF Fallback!DegradeSymbol, Fallback!StartPolling
    <2>3. i \in Fallback!Poll /\ \A p \in poll_polls : p.id # i
      BY DEF Fallback!Fresh
    <2>4. i # Fallback!None /\ i \notin poll_told
      BY <2>3, FeedsAssumption
      DEF LoopsKnown, Fallback!Poll, Fallback!None, Fallback!PollAssumption
    <2>5. poll_stopOf[s] = Fallback!None
      BY <1>2 DEF Fallback!PollsInHand
    <2> DEFINE new == [id |-> i, sym |-> s]
    <2>6. new.id = i /\ new.sym = s /\ new \in [id: Fallback!Poll, sym: Coin]
      BY <2>3
    <2> HIDE DEF new
    <2>7. poll_polls' = poll_polls \cup {new}
      BY <2>2 DEF new
    <2>8. Fallback!TypeOK'
      BY <2>2, <2>3, <2>6, <2>7 DEF Fallback!TypeOK
    <2>9. Fallback!PollsInHand'
      <3>1. ASSUME NEW p \in poll_polls'
            PROVE  p.id \in poll_told' \/ poll_stopOf'[p.sym] = p.id
        <4>1. CASE p = new
          BY <2>2, <2>6, <4>1 DEF Fallback!TypeOK
        <4>2. CASE p \in poll_polls /\ p.sym = s
          <5>1. p.id # Fallback!None
            BY <4>2, FeedsAssumption
            DEF Fallback!TypeOK, Fallback!Poll, Fallback!None, Fallback!PollAssumption
          <5>2. QED
            BY <2>2, <2>5, <4>2, <5>1 DEF Fallback!PollsInHand
        <4>3. CASE p \in poll_polls /\ p.sym # s
          BY <2>2, <4>3 DEF Fallback!PollsInHand, Fallback!TypeOK
        <4>4. QED
          BY <2>7, <4>1, <4>2, <4>3
      <3>2. \A t \in Coin : t \in poll_degraded' <=> poll_stopOf'[t] # Fallback!None
        BY <2>2, <2>4 DEF Fallback!PollsInHand, Fallback!TypeOK
      <3>3. QED
        BY <3>1, <3>2 DEF Fallback!PollsInHand
    <2>10. LoopsKnown'
      <3>1. \A p, q \in poll_polls' : p.id = q.id => p = q
        BY <2>3, <2>6, <2>7 DEF LoopsKnown
      <3>2. \A j \in poll_told' : \E p \in poll_polls' : p.id = j
        BY <2>2, <2>7 DEF LoopsKnown
      <3>3. ASSUME NEW t \in Coin, poll_stopOf'[t] # Fallback!None
            PROVE  /\ poll_stopOf'[t] \notin poll_told'
                   /\ \E p \in poll_polls' : p.id = poll_stopOf'[t] /\ p.sym = t
        <4>1. CASE t = s
          BY <2>2, <2>4, <2>6, <2>7, <4>1 DEF Fallback!TypeOK
        <4>2. CASE t # s
          BY <2>2, <2>7, <3>3, <4>2 DEF Fallback!TypeOK, LoopsKnown
        <4>3. QED
          BY <4>1, <4>2
      <3>4. QED
        BY <3>1, <3>2, <3>3 DEF LoopsKnown
    <2>11. QED
      BY <2>8, <2>9, <2>10
  <1>3. QED
    BY <1>1, <1>2

LEMMA RecoverKeeps ==
  ASSUME PollInv, NEW s \in Coin, Fallback!RecoverSymbol(s) PROVE PollInv'
  <1> USE DEF PollInv
  <1>1. CASE s \notin poll_degraded
    BY <1>1 DEF Fallback!RecoverSymbol, Fallback!TypeOK, Fallback!PollsInHand, LoopsKnown
  <1>2. CASE s \in poll_degraded
    <2> DEFINE i == poll_stopOf[s]
    <2>1. i # Fallback!None /\ i \notin poll_told /\ i \in Fallback!Poll
      BY <1>2 DEF Fallback!PollsInHand, LoopsKnown, Fallback!TypeOK
    <2>2. /\ poll_degraded' = poll_degraded \ {s}
          /\ poll_told' = poll_told \cup {i}
          /\ poll_stopOf' = [poll_stopOf EXCEPT ![s] = Fallback!None]
          /\ poll_waking' = [poll_waking EXCEPT ![s] = 0]
          /\ UNCHANGED <<poll_heard, poll_due, poll_polls>>
      BY <1>2, <2>1 DEF Fallback!RecoverSymbol
    <2>3. \A t \in Coin : t # s => poll_stopOf[t] # i
      BY <2>1 DEF LoopsKnown
    <2>4. Fallback!TypeOK'
      BY <2>1, <2>2 DEF Fallback!TypeOK
    <2>5. Fallback!PollsInHand'
      BY <2>2 DEF Fallback!TypeOK, Fallback!PollsInHand
    <2>6. LoopsKnown'
      <3>1. \A p, q \in poll_polls' : p.id = q.id => p = q
        BY <2>2 DEF LoopsKnown
      <3>2. \A j \in poll_told' : \E p \in poll_polls' : p.id = j
        BY <2>1, <2>2 DEF LoopsKnown
      <3>3. \A t \in Coin : poll_stopOf'[t] # Fallback!None =>
              /\ poll_stopOf'[t] \notin poll_told'
              /\ \E p \in poll_polls' : p.id = poll_stopOf'[t] /\ p.sym = t
        BY <2>2, <2>3 DEF Fallback!TypeOK, LoopsKnown
      <3>4. QED
        BY <3>1, <3>2, <3>3 DEF LoopsKnown
    <2>7. QED
      BY <2>4, <2>5, <2>6
  <1>3. QED
    BY <1>1, <1>2

LEMMA PollEndsKeeps == ASSUME PollInv, Fallback!PollEnds PROVE PollInv'
  <1> USE DEF PollInv
  <1>1. PICK p \in poll_polls :
          /\ p.id \in poll_told
          /\ poll_polls' = poll_polls \ {p} /\ poll_told' = poll_told \ {p.id}
    BY DEF Fallback!PollEnds
  <1>2. UNCHANGED <<poll_heard, poll_due, poll_degraded, poll_stopOf, poll_waking>>
    BY DEF Fallback!PollEnds
  <1>3. \A q \in poll_polls' : q.id # p.id /\ q \in poll_polls
    BY <1>1 DEF LoopsKnown
  <1>4. Fallback!TypeOK'
    BY <1>1, <1>2 DEF Fallback!TypeOK
  <1>5. Fallback!PollsInHand'
    BY <1>1, <1>2, <1>3 DEF Fallback!PollsInHand
  <1>6. LoopsKnown'
    <2>1. \A j \in poll_told' : \E q \in poll_polls' : q.id = j
      BY <1>1 DEF LoopsKnown
    <2>2. \A s \in Coin : poll_stopOf'[s] # Fallback!None =>
            /\ poll_stopOf'[s] \notin poll_told'
            /\ \E q \in poll_polls' : q.id = poll_stopOf'[s] /\ q.sym = s
      BY <1>1, <1>2 DEF LoopsKnown
    <2>3. QED
      BY <1>3, <2>1, <2>2 DEF LoopsKnown
  <1>7. QED
    BY <1>4, <1>5, <1>6

\* Every step keeps the invariant.
LEMMA PollKeeps == PollInv /\ [Fallback!Next]_pollVars => PollInv'
  <1> SUFFICES ASSUME PollInv, [Fallback!Next]_pollVars PROVE PollInv'
    OBVIOUS
  <1> USE DEF PollInv
  <1>1. ASSUME Fallback!TypeOK', UNCHANGED <<poll_degraded, poll_stopOf, poll_polls, poll_told>>
        PROVE  PollInv'
    BY <1>1 DEF Fallback!PollsInHand, LoopsKnown
  <1>2. ASSUME NEW s \in Coin, Fallback!RecordWsData(s) \/ Fallback!Overdue(s)
        PROVE  PollInv'
    <2>1. poll_waking' \in [Coin -> 0 .. 1]
      BY <1>2 DEF Fallback!RecordWsData, Fallback!Overdue, Fallback!TypeOK
    <2>2. poll_heard' \in [Coin -> {"never", "recent", "overdue"}]
      BY <1>2 DEF Fallback!RecordWsData, Fallback!Overdue, Fallback!TypeOK
    <2>3. UNCHANGED <<poll_due, poll_degraded, poll_stopOf, poll_polls, poll_told>>
      BY <1>2 DEF Fallback!RecordWsData, Fallback!Overdue
    <2>4. Fallback!TypeOK'
      BY <2>1, <2>2, <2>3 DEF Fallback!TypeOK
    <2>5. QED
      BY <1>1, <2>3, <2>4
  <1>3. ASSUME Fallback!MonitorRound PROVE PollInv'
    <2>1. Fallback!TypeOK'
      BY <1>3 DEF Fallback!MonitorRound, Fallback!TypeOK
    <2>2. QED
      BY <1>1, <1>3, <2>1 DEF Fallback!MonitorRound
  <1>4. ASSUME UNCHANGED pollVars PROVE PollInv'
    BY <1>1, <1>4 DEF pollVars, Fallback!TypeOK
  <1>5. QED
    BY <1>2, <1>3, <1>4, DegradeKeeps, RecoverKeeps, PollEndsKeeps DEF Fallback!Next

-----------------------------------------------------------------------------
(***************************************************************************)
(* The sessions that watch an address.                                     *)
(***************************************************************************)
LEMMA SessionStart == Hyper!Init => Hyper!TypeOK
  BY FeedsAssumption DEF Hyper!Init, Hyper!TypeOK, Hyper!Conn, Hyper!Pumps,
    Hyper!ConnAssumption

\* Every step of a session keeps the shape of its state.
LEMMA SessionKeeps == Hyper!TypeOK /\ [Hyper!Next]_hyperVars => Hyper!TypeOK'
  <1> SUFFICES ASSUME Hyper!TypeOK, [Hyper!Next]_hyperVars PROVE Hyper!TypeOK'
    OBVIOUS
  <1>1. ASSUME NEW c \in Tab, Hyper!Start(c) PROVE Hyper!TypeOK'
    <2>1. PICK a \in Address : /\ hyper_watches' = [hyper_watches EXCEPT ![c] = a]
                              /\ hyper_clients' = [hyper_clients EXCEPT ![a] = @ \cup {c}]
      BY <1>1 DEF Hyper!Start
    <2>2. /\ hyper_watches' \in [Tab -> Address]
          /\ hyper_clients' \in [Address -> SUBSET Tab]
      BY <2>1 DEF Hyper!TypeOK
    <2>3. /\ hyper_at' \in [Tab -> {"none", "top", "read", "done"}]
          /\ hyper_alive' \in [Tab -> SUBSET Hyper!Pumps]
          /\ hyper_request' \in [Tab -> BOOLEAN] /\ hyper_wanted' \in [Tab -> BOOLEAN]
      BY <1>1 DEF Hyper!Start, Hyper!TypeOK
    <2>4. UNCHANGED <<hyper_closed, hyper_conn, hyper_open, hyper_helpers, hyper_stopped>>
      BY <1>1 DEF Hyper!Start
    <2>5. QED
      BY <2>2, <2>3, <2>4 DEF Hyper!TypeOK
  <1>2. ASSUME NEW c \in Tab, Hyper!PumpFails(c) PROVE Hyper!TypeOK'
    <2>1. hyper_alive' \in [Tab -> SUBSET Hyper!Pumps] /\ hyper_closed' \subseteq Tab
      BY <1>2 DEF Hyper!PumpFails, Hyper!TypeOK
    <2>2. QED
      BY <1>2, <2>1 DEF Hyper!PumpFails, Hyper!TypeOK
  <1>3. ASSUME NEW c \in Tab, Hyper!Refresh(c) \/ Hyper!Snapshot(c) PROVE Hyper!TypeOK'
    <2>1. /\ hyper_alive' \in [Tab -> SUBSET Hyper!Pumps]
          /\ hyper_request' \in [Tab -> BOOLEAN] /\ hyper_wanted' \in [Tab -> BOOLEAN]
      BY <1>3 DEF Hyper!Refresh, Hyper!Snapshot, Hyper!TypeOK
    <2>2. UNCHANGED <<hyper_watches, hyper_closed, hyper_clients, hyper_at, hyper_conn,
                      hyper_open, hyper_helpers, hyper_stopped>>
      BY <1>3 DEF Hyper!Refresh, Hyper!Snapshot
    <2>3. QED
      BY <2>1, <2>2 DEF Hyper!TypeOK
  <1>4. ASSUME NEW c \in Tab, Hyper!Return(c) PROVE Hyper!TypeOK'
    <2>1. /\ hyper_at' \in [Tab -> {"none", "top", "read", "done"}]
          /\ hyper_clients' \in [Address -> SUBSET Tab]
      BY <1>4 DEF Hyper!Return, Hyper!TypeOK
    <2>2. QED
      BY <1>4, <2>1 DEF Hyper!Return, Hyper!TypeOK
  <1>5. ASSUME NEW c \in Tab, Hyper!Dial(c) PROVE Hyper!TypeOK'
    <2>1. hyper_conn[c] + 1 \in Hyper!Conn
      BY <1>5, FeedsAssumption DEF Hyper!Dial, Hyper!TypeOK, Hyper!Conn, Hyper!ConnAssumption
    <2>2. hyper_conn' = [hyper_conn EXCEPT ![c] = hyper_conn[c] + 1]
      BY <1>5 DEF Hyper!Dial
    <2>3. hyper_conn' \in [Tab -> Hyper!Conn] /\ hyper_conn'[c] \in Hyper!Conn
      BY <2>1, <2>2 DEF Hyper!TypeOK
    <2> DEFINE k == hyper_conn'[c]
    <2> HIDE DEF k
    <2>4. hyper_open' = hyper_open \cup {<<c, k>>}
          /\ hyper_helpers' = hyper_helpers \cup {<<"ping", c, k>>, <<"watch", c, k>>}
          /\ hyper_at' \in [Tab -> {"none", "top", "read", "done"}]
      BY <1>5 DEF Hyper!Dial, k, Hyper!TypeOK
    <2>5. /\ hyper_open' \subseteq Tab \X Hyper!Conn
          /\ hyper_helpers' \subseteq {"ping", "watch"} \X Tab \X Hyper!Conn
      BY <2>3, <2>4 DEF Hyper!TypeOK, k
    <2>6. QED
      BY <1>5, <2>3, <2>4, <2>5 DEF Hyper!Dial, Hyper!TypeOK
  <1>6. ASSUME NEW c \in Tab, Hyper!UpstreamLost(c) \/ Hyper!ReadFails(c)
        PROVE  Hyper!TypeOK'
    <2>1. /\ hyper_at' \in [Tab -> {"none", "top", "read", "done"}]
          /\ hyper_open' \subseteq hyper_open /\ hyper_helpers' \subseteq hyper_helpers
          /\ hyper_stopped' \subseteq hyper_stopped \cup {<<c, hyper_conn[c]>>}
      BY <1>6 DEF Hyper!UpstreamLost, Hyper!ReadFails, Hyper!TypeOK
    <2>2. UNCHANGED <<hyper_watches, hyper_alive, hyper_closed, hyper_clients, hyper_conn,
                      hyper_request, hyper_wanted>>
      BY <1>6 DEF Hyper!UpstreamLost, Hyper!ReadFails
    <2>3. QED
      BY <2>1, <2>2 DEF Hyper!TypeOK
  <1>7. ASSUME NEW c \in Tab, Hyper!HelperEnds(c) PROVE Hyper!TypeOK'
    <2>1. hyper_helpers' \subseteq hyper_helpers /\ hyper_open' \subseteq hyper_open
      BY <1>7 DEF Hyper!HelperEnds
    <2>2. QED
      BY <1>7, <2>1 DEF Hyper!HelperEnds, Hyper!TypeOK
  <1>8. ASSUME UNCHANGED hyperVars PROVE Hyper!TypeOK'
    BY <1>8 DEF hyperVars, Hyper!TypeOK
  <1>9. QED
    BY <1>1, <1>2, <1>3, <1>4, <1>5, <1>6, <1>7, <1>8 DEF Hyper!Next

-----------------------------------------------------------------------------
(***************************************************************************)
(* The composition.                                                        *)
(***************************************************************************)
\* A step of the whole is a step of each component or leaves it alone.
LEMMA FeedSteps ==
  [AllNext]_all => /\ [Next]_vars /\ [Fallback!Next]_pollVars
                   /\ [Hyper!Next]_hyperVars
  <1> SUFFICES ASSUME [AllNext]_all
               PROVE  /\ [Next]_vars /\ [Fallback!Next]_pollVars
                      /\ [Hyper!Next]_hyperVars
    OBVIOUS
  <1>1. CASE AllNext
    BY <1>1 DEF AllNext
  <1>2. CASE UNCHANGED all
    BY <1>2 DEF all
  <1>3. QED
    BY <1>1, <1>2

FeedsInv == PriceInv /\ PollInv /\ Hyper!TypeOK

LEMMA FeedsKept == AllSpec => []FeedsInv
  <1>1. AllInit => FeedsInv
    BY PriceStart, PollStart, SessionStart DEF AllInit, FeedsInv
  <1>2. FeedsInv /\ [AllNext]_all => FeedsInv'
    BY PriceKeeps, PollKeeps, SessionKeeps, FeedSteps DEF FeedsInv
  <1>3. QED
    BY <1>1, <1>2, PTL DEF AllSpec

\* Whatever fails to start, loses its connection, is stopped or is asked for
\* again: a feed that runs untold is the one stored for its symbol, a stored
\* channel is open and has its feed (api/price_cache.go), and a polling loop
\* that runs untold is that of its degraded symbol (api/data_fallback.go).
THEOREM FeedsInHand == AllSpec => []RunningIsKnown
  <1>1. FeedsInv => RunningIsKnown
    BY DEF FeedsInv, PriceInv, PollInv, RunningIsKnown
  <1>2. QED
    BY <1>1, FeedsKept, PTL

\* The state of the price cache, of the fall-back and of the sessions keeps
\* its shape.
THEOREM FeedsTyped == AllSpec => []TypesOK
  <1>1. FeedsInv => TypesOK
    BY DEF FeedsInv, PriceInv, PollInv, TypesOK
  <1>2. QED
    BY <1>1, FeedsKept, PTL

=============================================================================
