------------------------------ MODULE BookSync ------------------------------
(***************************************************************************)
(* The goroutine of one order-book room (startBookStream of                *)
(* src/api/ws_price_proxy.go): it keeps a copy of the exchange's book from *)
(* a snapshot and a stream of differences, and broadcasts the top of it    *)
(* after every difference.  The snapshot and the stream are not            *)
(* synchronised: the first difference applied must bridge the snapshot's   *)
(* update, every later one must follow the last, and whatever breaks the   *)
(* chain (a lost connection, a full queue, a gap) makes the goroutine      *)
(* begin again.                                                            *)
(*                                                                         *)
(* The exchange's k-th update sets the quantity at one price; its content  *)
(* is the constant Update, so an event of the stream is known from the     *)
(* updates it spans.                                                       *)
(***************************************************************************)
EXTENDS Integers, Sequences, FiniteSets, SequencesExt

CONSTANTS MaxId,       \* bound: updates of the exchange's book
          Update,      \* [1..MaxId -> [side, price, qty]]
          Price,       \* the prices of the book
          Levels,      \* levels of the room's message
          Step,        \* price step the message aggregates to, 0 for none
          QueueCap,    \* capacity of eventCh (4096)
          MaxSpan,     \* bound: updates in one event of the stream
          Lag,         \* bound: how far the snapshot may be behind
          MaxTrouble,  \* bound: failed requests and lost connections
          Nothing      \* no message yet

Side == {"bids", "asks"}

\* The text "0.000".  The code takes "0" and "0.0" for zero and nothing else.
LongZero == -1

ASSUME BookAssumption ==
  /\ MaxId \in Nat /\ QueueCap \in Nat \ {0} /\ MaxSpan \in Nat \ {0}
  /\ Levels \in Nat \ {0} /\ Step \in Nat /\ Lag \in Nat /\ MaxTrouble \in Nat
  /\ Price \subseteq Nat \ {0} /\ IsFiniteSet(Price)
  /\ Update \in [1..MaxId -> [side: Side, price: Price, qty: Nat \cup {LongZero}]]

VARIABLES exch,     \* the exchange's last update
          conn,     \* the stream: "none", "open" or "lost" (doneC is closed)
          pipe,     \* events the exchange has sent and the callback not taken
          queue,    \* eventCh
          dropped,  \* droppedCh holds its one token
          ob,       \* localOrderBook: the last update in it, and its levels
          shown,    \* room.lastBook, with the update it stands for
          pc,       \* where startBookStream is
          stopped,  \* room.stopC is closed
          trouble   \* failures so far

vars == <<exch, conn, pipe, queue, dropped, ob, shown, pc, stopped, trouble>>

-----------------------------------------------------------------------------
(* The exchange's book.  A level that is absent has quantity 0.            *)

EmptyBook == [s \in Side |-> [p \in Price |-> 0]]

Amount(q) == IF q = LongZero THEN 0 ELSE q

BookAt[k \in 0..MaxId] ==
  IF k = 0 THEN EmptyBook
  ELSE [BookAt[k - 1] EXCEPT ![Update[k].side][Update[k].price] = Amount(Update[k].qty)]

\* An event spans the updates from first to last and names, for each price
\* they touched, the quantity after the last of them.
Event(first, last) == [first |-> first, last |-> last, prev |-> first - 1]

Touching(e, s, p) ==
  {k \in e.first..e.last : Update[k].side = s /\ Update[k].price = p}

Latest(S) == CHOOSE k \in S : \A j \in S : j <= k

-----------------------------------------------------------------------------
(* The local book.                                                         *)

\* newLocalOrderBook keeps the snapshot's levels that are not zero.
NewLocalOrderBook(k) == [id |-> k, levels |-> BookAt[k]]

\* applyEvent stores each quantity the event names; "0" deletes the level,
\* LongZero is stored like any other text.
ApplyEvent(book, e) ==
  [id     |-> e.last,
   levels |-> [s \in Side |-> [p \in Price |->
                 IF Touching(e, s, p) = {} THEN book.levels[s][p]
                 ELSE Update[Latest(Touching(e, s, p))].qty]]]

\* Bids are rounded down to the step, asks up.
Bucket(s, p) ==
  IF Step = 0 THEN p
  ELSE IF s = "bids" THEN (p \div Step) * Step
  ELSE ((p + Step - 1) \div Step) * Step

Better(s, p, q) == IF s = "bids" THEN p > q ELSE p < q

\* The elements of B, the best first.
SortedLevels(s, B) ==
  CHOOSE f \in [1..Cardinality(B) -> B] :
    \A i, j \in 1..Cardinality(B) : i < j => Better(s, f[i], f[j])

\* topLevels and aggregateLevels: the best buckets with their sums.
TopLevels(side, s) ==
  LET live   == {p \in Price : Amount(side[p]) > 0}
      sum(b) == SumFunctionOnSet(side, {p \in live : Bucket(s, p) = b})
      sorted == SortedLevels(s, {Bucket(s, p) : p \in live})
      kept   == IF Len(sorted) > Levels THEN Levels ELSE Len(sorted)
  IN  [i \in 1..kept |-> [p |-> sorted[i], q |-> sum(sorted[i])]]

ToBookMsg(levels) == [s \in Side |-> TopLevels(levels[s], s)]

Broadcast(book) == shown' = [id |-> book.id, msg |-> ToBookMsg(book.levels)]

-----------------------------------------------------------------------------
(* startBookStream.                                                        *)

Goto(to) == pc' = to

\* stopStream, or the end of a connection the goroutine gives up.
Close ==
  /\ conn' = "none"
  /\ pipe' = <<>>
  /\ queue' = <<>>
  /\ dropped' = FALSE

Streaming == <<conn, pipe, queue, dropped>>

Resync == Close /\ Goto("wait") /\ UNCHANGED <<ob, shown>>

\* The head of the loop looks at stopC before it connects.
LeaveAtHead ==
  /\ pc = "connect" /\ stopped
  /\ Goto("ended")
  /\ UNCHANGED <<exch, Streaming, ob, shown, stopped, trouble>>

Connect ==
  /\ pc = "connect" /\ ~stopped
  /\ Goto("fetch")
  /\ conn' = "open" /\ pipe' = <<>> /\ queue' = <<>> /\ dropped' = FALSE
  /\ UNCHANGED <<exch, ob, shown, stopped, trouble>>

ConnectFails ==
  /\ pc = "connect" /\ ~stopped
  /\ trouble < MaxTrouble /\ trouble' = trouble + 1
  /\ Goto("wait")
  /\ UNCHANGED <<exch, Streaming, ob, shown, stopped>>

\* The exchange answers with a book it has or had; stopC is not looked at.
FetchSnapshot ==
  /\ pc = "fetch"
  /\ \E k \in 0..exch :
        /\ exch - k <= Lag
        /\ ob' = NewLocalOrderBook(k)
  /\ Goto("bridge")
  /\ UNCHANGED <<exch, Streaming, shown, stopped, trouble>>

FetchFails ==
  /\ pc = "fetch"
  /\ trouble < MaxTrouble /\ trouble' = trouble + 1
  /\ Resync
  /\ UNCHANGED <<exch, stopped>>

\* A bug the runs must notice: the second loop's select has no branch for stopC.
QuitBridge ==
  /\ pc = "bridge" /\ stopped
  /\ Close /\ Goto("ended")
  /\ UNCHANGED <<exch, ob, shown, stopped, trouble>>

\* The branches the selects of both loops share.
Quit ==
  /\ pc \in {"bridge", "follow"} /\ stopped
  /\ Close /\ Goto("ended")
  /\ UNCHANGED <<exch, ob, shown, stopped, trouble>>

NoticeLoss ==
  /\ pc \in {"bridge", "follow"} /\ conn = "lost"
  /\ Resync
  /\ UNCHANGED <<exch, stopped, trouble>>

NoticeOverflow ==
  /\ pc \in {"bridge", "follow"} /\ dropped
  /\ Resync
  /\ UNCHANGED <<exch, stopped, trouble>>

\* No event to bridge with for ten seconds.
BridgeTimeout ==
  /\ pc = "bridge" /\ queue = <<>> /\ conn = "open"
  /\ Resync
  /\ UNCHANGED <<exch, stopped, trouble>>

\* What becomes of an event: it is out of date, it breaks the chain, or it
\* continues it.
Outdated(e) == e.last < ob.id

\* A bug the runs must notice: once following, the chain is not looked at.
BreaksAtBridge(e) == pc = "bridge" /\ e.first > ob.id

Breaks(e) ==
  IF pc = "bridge" THEN e.first > ob.id ELSE e.prev # ob.id

Discard(e) ==
  /\ Outdated(e)
  /\ queue' = Tail(queue)
  /\ UNCHANGED <<conn, pipe, dropped, ob, shown, pc>>

BeginAgain(e) == ~Outdated(e) /\ Breaks(e) /\ Resync

Apply(e) ==
  /\ ~Outdated(e) /\ ~Breaks(e)
  /\ queue' = Tail(queue)
  /\ ob' = ApplyEvent(ob, e)
  /\ Broadcast(ob')
  /\ Goto("follow")
  /\ UNCHANGED <<conn, pipe, dropped>>

TakeEvent ==
  /\ pc \in {"bridge", "follow"} /\ queue # <<>>
  /\ LET e == Head(queue) IN Discard(e) \/ BeginAgain(e) \/ Apply(e)
  /\ UNCHANGED <<exch, stopped, trouble>>

\* The back-off ends, or the stop does not wait for it.
EndWait ==
  /\ pc = "wait"
  /\ \/ Goto("connect")
     \/ stopped /\ Goto("ended")
  /\ UNCHANGED <<exch, Streaming, ob, shown, stopped, trouble>>

Loop == \/ LeaveAtHead \/ Connect \/ ConnectFails
        \/ FetchSnapshot \/ FetchFails
        \/ Quit \/ NoticeLoss \/ NoticeOverflow \/ BridgeTimeout \/ TakeEvent
        \/ EndWait

-----------------------------------------------------------------------------
(* The exchange, the callback of the stream, and the room.                 *)

\* Some updates happen and go out as one event.
Trade ==
  /\ \E n \in 1..MaxSpan :
        /\ exch + n <= MaxId
        /\ exch' = exch + n
        /\ pipe' = IF conn = "open"
                   THEN Append(pipe, Event(exch + 1, exch + n)) ELSE pipe
  /\ UNCHANGED <<conn, queue, dropped, ob, shown, pc, stopped, trouble>>

\* A bug the runs must notice: an event that does not fit is dropped without a word.
DeliverSilently ==
  /\ pipe # <<>>
  /\ pipe' = Tail(pipe)
  /\ queue' = IF Len(queue) < QueueCap THEN Append(queue, Head(pipe)) ELSE queue
  /\ UNCHANGED <<exch, conn, dropped, ob, shown, pc, stopped, trouble>>

\* A bug the runs must notice: the queue has no bound.
DeliverAll ==
  /\ pipe # <<>>
  /\ pipe' = Tail(pipe)
  /\ queue' = Append(queue, Head(pipe))
  /\ UNCHANGED <<exch, conn, dropped, ob, shown, pc, stopped, trouble>>

\* The callback queues the event, or leaves word that it could not.
Deliver ==
  /\ pipe # <<>>
  /\ pipe' = Tail(pipe)
  /\ IF Len(queue) < QueueCap
     THEN queue' = Append(queue, Head(pipe)) /\ UNCHANGED dropped
     ELSE dropped' = TRUE /\ UNCHANGED queue
  /\ UNCHANGED <<exch, conn, ob, shown, pc, stopped, trouble>>

\* The connection breaks: what was on its way is lost, doneC is closed.
Lose ==
  /\ conn = "open"
  /\ trouble < MaxTrouble /\ trouble' = trouble + 1
  /\ conn' = "lost" /\ pipe' = <<>>
  /\ UNCHANGED <<exch, queue, dropped, ob, shown, pc, stopped>>

\* stopRoom closes the room's stopC.
StopRoom ==
  /\ ~stopped
  /\ stopped' = TRUE
  /\ UNCHANGED <<exch, Streaming, ob, shown, pc, trouble>>

Init ==
  /\ exch = 0 /\ conn = "none" /\ pipe = <<>> /\ queue = <<>> /\ dropped = FALSE
  /\ ob = NewLocalOrderBook(0) /\ shown = Nothing
  /\ pc = "connect" /\ stopped = FALSE /\ trouble = 0

Next == Loop \/ Trade \/ Deliver \/ Lose \/ StopRoom

Spec == Init /\ [][Next]_vars

\* The goroutine runs and a connection delivers what it carries; nothing
\* makes the exchange trade or the room stop.
FairSpec == Spec /\ WF_vars(Loop) /\ WF_vars(Deliver)

-----------------------------------------------------------------------------
(* Properties.                                                             *)

Events == {e \in [first: 1..MaxId, last: 1..MaxId, prev: 0..MaxId] :
             e.first <= e.last /\ e.prev = e.first - 1}

\* The shape of the state.
TypeOK ==
  /\ exch \in 0..MaxId
  /\ conn \in {"none", "open", "lost"}
  /\ \A e \in Range(pipe) \cup Range(queue) : e \in Events /\ e.last <= exch
  /\ Len(queue) <= QueueCap
  /\ ob.id \in 0..exch
  /\ ob.levels \in [Side -> [Price -> Nat \cup {LongZero}]]
  /\ shown = Nothing \/ shown.id \in 0..exch
  /\ pc \in {"connect", "fetch", "bridge", "follow", "wait", "ended"}
  /\ dropped \in BOOLEAN /\ stopped \in BOOLEAN
  /\ trouble \in 0..MaxTrouble

\* What a client should see after k updates, said without the code's loops:
\* the entry at rank i is the bucket with i - 1 live buckets before it, and
\* its quantity is the sum over the prices that round to it.
Rounds(s, p, b) ==
  IF Step = 0 THEN p = b
  ELSE IF s = "bids" THEN b <= p /\ p < b + Step /\ b % Step = 0
  ELSE b - Step < p /\ p <= b /\ b % Step = 0

ViewSide(book, s) ==
  LET live    == {p \in Price : book[s][p] > 0}
      grid    == 0..(Latest(Price) + Step)
      buckets == {b \in grid : \E p \in live : Rounds(s, p, b)}
      ahead(b) == Cardinality({c \in buckets : Better(s, c, b)})
      at(i)   == CHOOSE b \in buckets : ahead(b) = i - 1
      total(b) == SumFunctionOnSet(book[s], {p \in live : Rounds(s, p, b)})
  IN  [i \in {j \in 1..Levels : j <= Cardinality(buckets)} |->
         [p |-> at(i), q |-> total(at(i))]]

View == [k \in 0..MaxId |-> [s \in Side |-> ViewSide(BookAt[k], s)]]

Feed == INSTANCE BookFeed WITH exch <- exch, shown <- shown, View <- View

\* BookSync implements BookFeed: whatever connections break, queues overflow
\* and snapshots lag, each message a client gets is the exchange's book after
\* some update, and later messages are of later updates.
ShowsExchangeBooks == Feed!Spec

\* While the goroutine follows a live stream it cannot stay behind for ever:
\* it reaches the exchange's last update or begins again.  An event that did
\* not fit in the queue is the danger, for if nothing follows it there is no
\* gap to notice.
FollowsCatchUp ==
  (pc = "follow" /\ ob.id < exch) ~> (ob.id = exch \/ pc # "follow")

\* A stopped room's goroutine ends, whatever it is waiting for.
StopEnds == stopped ~> (pc = "ended")
=============================================================================
