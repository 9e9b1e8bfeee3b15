------------------------------ MODULE PriceCache ------------------------------
(***************************************************************************)
(* The price cache (api/price_cache.go): one WebSocket feed per symbol, a  *)
(* table of last prices, and the readers that wait for a fresh one.        *)
(*                                                                         *)
(* A feed is a subscribePrice goroutine, known by its stop channel.  The   *)
(* library's read loop (futures.WsMarkPriceServe) is the feed's connection; *)
(* it ends on its own when the network does, and after stopWsC is closed,  *)
(* and may deliver one more event meanwhile.                               *)
(*                                                                         *)
(* Prices are reduced to their age: fresh (under 10 seconds) or stale.     *)
(***************************************************************************)
EXTENDS Naturals, FiniteSets

CONSTANTS
  Symbol,     \* trading pairs
  Reader,     \* goroutines that call GetPrice: monitors, strategies, handlers
  MaxFeed,    \* bound: feeds started
  MaxFill,    \* bound: calls of UpdatePrice (REST backfill)
  MaxStop     \* bound: calls of Unsubscribe and UnsubscribeAll

ASSUME FeedAssumption == MaxFeed \in Nat /\ MaxFill \in Nat /\ MaxStop \in Nat

Feed == 1 .. MaxFeed
None == 0

VARIABLES
  price,    \* prices[s]: "none", "fresh" or "stale"
  chan,     \* stopChannels[s]: the feed whose channel is stored, or None
  closed,   \* feeds whose stop channel is closed
  topic,    \* the symbol of each feed started so far
  phase,    \* where each feed's goroutine is
  conn,     \* feeds whose connection may still deliver events
  pc, asks, \* readers: where each is in GetPrice, and for which symbol
  fills, stops  \* counters behind the bounds

feeds == <<closed, topic, phase, conn>>
vars  == <<price, chan, feeds, pc, asks, fills, stops>>

Ages   == {"none", "fresh", "stale"}
Phases == {"starting", "open", "failed", "lost", "stopped", "gone"}
Started == DOMAIN topic
Steps  == {"idle", "subscribe", "wait"}

(***************************************************************************)
(* Bugs the runs must notice.                                              *)
(***************************************************************************)
\* removeStopChannelOwned that deletes whatever channel is stored.
ForgottenAny(n) == [chan EXCEPT ![topic[n]] = None]

\* A failed start that is not rolled back.
StartFailsKeeps(n) ==
  /\ phase[n] = "starting"
  /\ phase' = [phase EXCEPT ![n] = "gone"]
  /\ UNCHANGED <<price, chan, closed, topic, conn, pc, asks, fills, stops>>

\* subscribePrice that waits for the connection only.
NoticeStopLate(n) ==
  /\ phase[n] = "open" /\ n \in closed /\ n \notin conn
  /\ phase' = [phase EXCEPT ![n] = "stopped"]
  /\ UNCHANGED <<price, chan, closed, topic, conn, pc, asks, fills, stops>>

(***************************************************************************)
(* Subscribe: under stopMu, at most one stored channel per symbol.         *)
(***************************************************************************)
Subscribed(s) ==
  IF chan[s] # None THEN UNCHANGED <<chan, topic, phase>>
  ELSE LET n == Cardinality(Started) + 1 IN
       /\ n \in Feed
       /\ chan' = [chan EXCEPT ![s] = n]
       /\ topic' = [m \in Started \cup {n} |-> IF m = n THEN s ELSE topic[m]]
       /\ phase' = [m \in Started \cup {n} |->
                      IF m = n THEN "starting" ELSE phase[m]]

\* Called directly, by a registration or a strategy.
Subscribe(s) ==
  /\ chan[s] = None
  /\ Subscribed(s)
  /\ UNCHANGED <<price, closed, conn, pc, asks, fills, stops>>

(***************************************************************************)
(* subscribePrice, the goroutine of feed n.                                *)
(***************************************************************************)
StartFails(n) ==
  /\ phase[n] = "starting"
  /\ phase' = [phase EXCEPT ![n] = "failed"]
  /\ UNCHANGED <<price, chan, closed, topic, conn, pc, asks, fills, stops>>

StartSucceeds(n) ==
  /\ phase[n] = "starting"
  /\ phase' = [phase EXCEPT ![n] = "open"]
  /\ conn' = conn \cup {n}
  /\ UNCHANGED <<price, chan, closed, topic, pc, asks, fills, stops>>

\* The select: the stop channel, or doneC of a connection that ended.
NoticeStop(n) ==
  /\ phase[n] = "open" /\ n \in closed
  /\ phase' = [phase EXCEPT ![n] = "stopped"]
  /\ UNCHANGED <<price, chan, closed, topic, conn, pc, asks, fills, stops>>

NoticeLoss(n) ==
  /\ phase[n] = "open" /\ n \notin conn
  /\ phase' = [phase EXCEPT ![n] = "lost"]
  /\ UNCHANGED <<price, chan, closed, topic, conn, pc, asks, fills, stops>>

\* removeStopChannelOwned: only the feed's own channel is deleted.
Forgotten(n) ==
  IF chan[topic[n]] = n THEN [chan EXCEPT ![topic[n]] = None] ELSE chan

Finish(n) ==
  /\ phase[n] \in {"failed", "lost", "stopped"}
  /\ chan' = Forgotten(n)
  /\ phase' = [phase EXCEPT ![n] = "gone"]
  /\ UNCHANGED <<price, closed, topic, conn, pc, asks, fills, stops>>

(***************************************************************************)
(* The library's read loop, and time.                                      *)
(***************************************************************************)
Event(n) ==
  /\ n \in conn
  /\ price' = [price EXCEPT ![topic[n]] = "fresh"]
  /\ UNCHANGED <<chan, feeds, pc, asks, fills, stops>>

ConnectionEnds(n) ==
  /\ n \in conn
  /\ conn' = conn \ {n}
  /\ UNCHANGED <<price, chan, closed, topic, phase, pc, asks, fills, stops>>

TenSecondsPass(s) ==
  /\ price[s] = "fresh"
  /\ price' = [price EXCEPT ![s] = "stale"]
  /\ UNCHANGED <<chan, feeds, pc, asks, fills, stops>>

\* UpdatePrice: a price fetched over REST is filled in, subscribed or not.
UpdatePrice(s) ==
  /\ fills < MaxFill /\ fills' = fills + 1
  /\ price' = [price EXCEPT ![s] = "fresh"]
  /\ UNCHANGED <<chan, feeds, pc, asks, stops>>

(***************************************************************************)
(* GetPrice: a fresh price is returned at once; a missing one is           *)
(* subscribed to; then the reader polls for at most 5 seconds.             *)
(***************************************************************************)
GetPrice(r, s) ==
  /\ pc[r] = "idle"
  /\ price[s] # "fresh"
  /\ pc' = [pc EXCEPT ![r] = IF price[s] = "none" THEN "subscribe" ELSE "wait"]
  /\ asks' = [asks EXCEPT ![r] = s]
  /\ UNCHANGED <<price, chan, feeds, fills, stops>>

GetPriceSubscribes(r) ==
  /\ pc[r] = "subscribe"
  /\ Subscribed(asks[r])
  /\ pc' = [pc EXCEPT ![r] = "wait"]
  /\ UNCHANGED <<price, closed, conn, asks, fills, stops>>

PollFresh(r) ==
  /\ pc[r] = "wait" /\ price[asks[r]] = "fresh"
  /\ pc' = [pc EXCEPT ![r] = "idle"]
  /\ UNCHANGED <<price, chan, feeds, asks, fills, stops>>

Timeout(r) ==
  /\ pc[r] = "wait"
  /\ pc' = [pc EXCEPT ![r] = "idle"]
  /\ UNCHANGED <<price, chan, feeds, asks, fills, stops>>

(***************************************************************************)
(* Unsubscribe and UnsubscribeAll, under stopMu.                           *)
(***************************************************************************)
StopAll(S) ==
  /\ stops < MaxStop /\ stops' = stops + 1
  /\ closed' = closed \cup {chan[s] : s \in S}
  /\ chan' = [s \in Symbol |-> IF s \in S THEN None ELSE chan[s]]

\* (Bug.)  Closing the channel of a symbol that has none.
UnsubscribeUnchecked(s) ==
  /\ StopAll({s})
  /\ price' = [price EXCEPT ![s] = "none"]
  /\ UNCHANGED <<topic, phase, conn, pc, asks, fills>>

Unsubscribe(s) ==
  /\ chan[s] # None
  /\ StopAll({s})
  /\ price' = [price EXCEPT ![s] = "none"]
  /\ UNCHANGED <<topic, phase, conn, pc, asks, fills>>

UnsubscribeAll ==
  /\ \E s \in Symbol : chan[s] # None
  /\ StopAll({s \in Symbol : chan[s] # None})
  /\ price' = [s \in Symbol |-> "none"]
  /\ UNCHANGED <<topic, phase, conn, pc, asks, fills>>

-----------------------------------------------------------------------------
Init ==
  /\ price = [s \in Symbol |-> "none"]
  /\ chan = [s \in Symbol |-> None]
  /\ closed = {} /\ conn = {}
  /\ topic = <<>> /\ phase = <<>>
  /\ pc = [r \in Reader |-> "idle"]
  /\ asks \in [Reader -> Symbol]
  /\ fills = 0 /\ stops = 0

Goroutine(n) ==
  StartFails(n) \/ StartSucceeds(n) \/ NoticeStop(n) \/ NoticeLoss(n) \/ Finish(n)
Waiting(r) == GetPriceSubscribes(r) \/ PollFresh(r) \/ Timeout(r)

Next ==
  \/ \E s \in Symbol :
       \/ Subscribe(s) \/ Unsubscribe(s) \/ UpdatePrice(s) \/ TenSecondsPass(s)
       \/ \E r \in Reader : GetPrice(r, s)
  \/ \E n \in Started : Goroutine(n) \/ Event(n) \/ ConnectionEnds(n)
  \/ \E r \in Reader : Waiting(r)
  \/ UnsubscribeAll

Spec == Init /\ [][Next]_vars

\* Goroutines run; nothing obliges a connection to fail or to deliver.
FairSpec == Spec /\ \A n \in Feed : WF_vars(n \in Started /\ Goroutine(n))

-----------------------------------------------------------------------------
(***************************************************************************)
(* Properties                                                              *)
(***************************************************************************)
TypeOK ==
  /\ price \in [Symbol -> Ages]
  /\ chan \in [Symbol -> Started \cup {None}]
  /\ closed \subseteq Started /\ conn \subseteq Started
  /\ Started \subseteq Feed
  /\ topic \in [Started -> Symbol]
  /\ phase \in [Started -> Phases]
  /\ pc \in [Reader -> Steps] /\ asks \in [Reader -> Symbol]
  /\ fills \in Nat /\ stops \in Nat

\* A feed that is starting or open and was not told to stop is the one stored
\* for its symbol: there is never a second feed of a symbol, nor one that
\* nobody can stop any more.
NoOrphanFeed ==
  \A n \in Started :
    (phase[n] \in {"starting", "open"} /\ n \notin closed) => chan[topic[n]] = n

\* A stored channel is open (closing it again would panic) and belongs to a
\* goroutine that is still there: a symbol is never "already subscribed" with
\* nobody serving it.
StoredMeansServed ==
  \A s \in Symbol : chan[s] # None =>
    /\ chan[s] \notin closed
    /\ topic[chan[s]] = s
    /\ phase[chan[s]] # "gone"

\* Every feed told to stop goes away.
StoppedFeedsEnd ==
  \A n \in Feed : (n \in closed) ~> (n \in Started /\ phase[n] = "gone")

\* "If the price is missing or stale, it subscribes automatically": a reader
\* does not start to wait for a symbol without a subscription.
WaitsOnlyWhenSubscribed ==
  [][\A r \in Reader :
       (pc[r] # "wait" /\ pc'[r] = "wait") => chan'[asks'[r]] # None]_vars
=============================================================================
