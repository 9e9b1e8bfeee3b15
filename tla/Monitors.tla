------------------------------ MODULE Monitors -------------------------------
(* Loops that look at the market every so often and act on what they see:   *)
(* the funding-rate monitor, which may order (api/funding_rate.go), the     *)
(* Aave monitor, which sends alerts (api/aave_monitor.go), and the          *)
(* allocator, which publishes weights (api/strategy_allocator.go).  kind    *)
(* says which one runs.  All keep one global state; Start and Stop hold its *)
(* mutex, a round takes it only to publish.                                 *)
(*                                                                          *)
(* A loop of the first two is stopped through its own context, which also   *)
(* cuts its requests short.  The allocator's looks at the global stop       *)
(* channel each time it waits, so one that was busy through a stop and a    *)
(* start waits on the new channel.  A Start is a number, which stands for   *)
(* its configuration, its context and its channel.                          *)
EXTENDS Naturals, Sequences, FiniteSets

CONSTANTS
  Item,       \* what an alert can be about
  MaxStart,   \* Starts that take effect
  MaxTime,    \* the clock
  Cool,       \* AlertCooldownSec, in ticks of the clock
  MaxNotify,  \* aaveMaxNotifyPerRound
  MaxTrade    \* orders of the funding monitor

\* What the constants are to be.
CoolAssumption  == Cool \in Nat /\ MaxNotify \in Nat /\ IsFiniteSet(Item)
BoundAssumption == {MaxStart, MaxTime, MaxTrade} \subseteq Nat /\ MaxTime > 0

VARIABLES
  kind, active,
  cur,      \* the last Start
  told,     \* Starts whose context is cancelled or whose channel is closed
  pc,       \* loop -> where it is
  listens,  \* loop -> the Start whose signal it waits for
  cfg,      \* loop -> the configuration its round uses
  hand,     \* loop -> alerts of the round still to be acted on
  at,       \* loop -> the time its alerts are sent as of
  quota,    \* loop -> alerts it may still send in the round
  shown,    \* the published snapshot: whose configuration, and LastError
  last,     \* lastAlert, key -> time (0: none)
  sent,     \* alerts sent: key, time and the Start they were sent under
  trades,   \* goroutines of autoFundingTrade
  now

vars == <<kind, active, cur, told, pc, listens, cfg, hand, at, quota, shown,
          last, sent, trades, now>>

Loop == 1 .. MaxStart
Key == Item \cup {"aave_api_error"}
Cut(i) == kind # "alloc" /\ i \in told   \* its requests fail

Init ==
  /\ kind \in {"funding", "aave", "alloc"} /\ active = FALSE /\ cur = 0
  /\ told = {} /\ pc = [i \in Loop |-> "none"] /\ listens = [i \in Loop |-> i]
  /\ cfg = [i \in Loop |-> i] /\ hand = [i \in Loop |-> {}]
  /\ at = [i \in Loop |-> 0] /\ quota = [i \in Loop |-> 0]
  /\ shown = [cfg |-> 0, error |-> FALSE] /\ last = [k \in Key |-> 0]
  /\ sent = <<>> /\ trades = <<>> /\ now = 1

Advance ==
  /\ now < MaxTime /\ now' = now + 1
  /\ UNCHANGED <<kind, active, cur, told, pc, listens, cfg, hand, at, quota,
                 shown, last, sent, trades>>

-------------------------------------------------------------------------------
(* The handlers.                                                            *)

\* A Start of a running monitor replaces its loop; of a running allocator it
\* does nothing.  The Aave monitor forgets what it has alerted.
StartMonitor ==
  /\ cur < MaxStart /\ (kind = "alloc" => ~active)
  /\ cur' = cur + 1 /\ active' = TRUE
  /\ told' = IF active THEN told \cup {cur} ELSE told
  /\ pc' = [pc EXCEPT ![cur + 1] = "begin"]
  /\ IF kind = "aave" THEN /\ last' = [k \in Key |-> 0]
                           /\ shown' = [cfg |-> cur + 1, error |-> FALSE]
     ELSE UNCHANGED <<last, shown>>
  /\ UNCHANGED <<kind, listens, cfg, hand, at, quota, sent, trades, now>>

StopMonitor ==
  /\ active /\ active' = FALSE /\ told' = told \cup {cur}
  /\ UNCHANGED <<kind, cur, pc, listens, cfg, hand, at, quota, shown, last,
                 sent, trades, now>>

-------------------------------------------------------------------------------
(* A loop's round.                                                          *)

\* It waits: on its context, or on the channel that is the global one now.
Wait(i) ==
  /\ pc' = [pc EXCEPT ![i] = "wait"] /\ hand' = [hand EXCEPT ![i] = {}]
  /\ at' = [at EXCEPT ![i] = 0] /\ quota' = [quota EXCEPT ![i] = 0]
  /\ listens' = [listens EXCEPT ![i] = IF kind = "alloc" THEN cur ELSE i]

\* The select: when both are ready, either may be taken.
Tick(i) ==
  /\ pc[i] = "wait" /\ pc' = [pc EXCEPT ![i] = "begin"]
  /\ UNCHANGED <<kind, active, cur, told, listens, cfg, hand, at, quota, shown,
                 last, sent, trades, now>>

LoopEnds(i) ==
  /\ pc[i] = "wait" /\ listens[i] \in told
  /\ pc' = [pc EXCEPT ![i] = "gone"]
  /\ UNCHANGED <<kind, active, cur, told, listens, cfg, hand, at, quota, shown,
                 last, sent, trades, now>>

\* The allocator reads its configuration at the head of the round.
Begin(i) ==
  /\ pc[i] = "begin" /\ pc' = [pc EXCEPT ![i] = "fetch"]
  /\ cfg' = [cfg EXCEPT ![i] = IF kind = "alloc" THEN cur ELSE i]
  /\ UNCHANGED <<kind, active, cur, told, listens, hand, at, quota, shown,
                 last, sent, trades, now>>

Coming == { p \in Loop \X Item : p[2] \in hand[p[1]] }

\* What the round found; stored trades for the allocator, requests otherwise.
Fetch(i) ==
  /\ pc[i] = "fetch" /\ ~Cut(i)
  /\ \E alerts \in SUBSET Item :
       /\ kind = "alloc" => alerts = {}
       /\ kind = "funding" => Len(trades) + Cardinality(Coming) + Cardinality(alerts) <= MaxTrade
       /\ hand' = [hand EXCEPT ![i] = alerts]
  /\ pc' = [pc EXCEPT ![i] = "publish"]
  /\ UNCHANGED <<kind, active, cur, told, listens, cfg, at, quota, shown, last,
                 sent, trades, now>>

\* The funding monitor gives the round up, the Aave monitor reports the
\* failure, be it that its own context was cancelled.
FetchFails(i) ==
  /\ pc[i] = "fetch" /\ kind # "alloc"
  /\ IF kind = "funding" THEN Wait(i)
     ELSE /\ hand' = [hand EXCEPT ![i] = {"aave_api_error"}]
          /\ pc' = [pc EXCEPT ![i] = "publish"] /\ UNCHANGED <<listens, at, quota>>
  /\ UNCHANGED <<kind, active, cur, told, cfg, shown, last, sent, trades, now>>

Publish(i) ==
  /\ pc[i] = "publish"
  /\ shown' = [cfg |-> cfg[i], error |-> "aave_api_error" \in hand[i]]
  /\ pc' = [pc EXCEPT ![i] = "act"]
  /\ at' = [at EXCEPT ![i] = now] /\ quota' = [quota EXCEPT ![i] = MaxNotify]
  /\ UNCHANGED <<kind, active, cur, told, listens, cfg, hand, last, sent,
                 trades, now>>

\* Look and mark are one step under the mutex.
ShouldSend(i, k) == last[k] # 0 => at[i] >= last[k] + Cool

SendAlert(i, k) ==
  /\ pc[i] = "act" /\ kind = "aave" /\ k \in hand[i] /\ quota[i] > 0
  /\ hand' = [hand EXCEPT ![i] = @ \ {k}]
  /\ IF ShouldSend(i, k)
     THEN /\ last' = [last EXCEPT ![k] = at[i]]
          /\ quota' = [quota EXCEPT ![i] = @ - 1]
          /\ sent' = Append(sent, [key |-> k, at |-> at[i], start |-> cur])
     ELSE UNCHANGED <<last, quota, sent>>
  /\ UNCHANGED <<kind, active, cur, told, pc, listens, cfg, at, shown, trades,
                 now>>

\* go autoFundingTrade for each alert: no cool-down, whatever is held already.
GoTrade(i, x) ==
  /\ pc[i] = "act" /\ kind = "funding" /\ x \in hand[i]
  /\ hand' = [hand EXCEPT ![i] = @ \ {x}]
  /\ trades' = Append(trades, [loop |-> i, item |-> x, step |-> "size"])
  /\ UNCHANGED <<kind, active, cur, told, pc, listens, cfg, at, quota, shown,
                 last, sent, now>>

RoundEnds(i) ==
  /\ pc[i] = "act" /\ (hand[i] = {} \/ (kind = "aave" /\ quota[i] = 0))
  /\ Wait(i)
  /\ UNCHANGED <<kind, active, cur, told, cfg, shown, last, sent, trades, now>>

-------------------------------------------------------------------------------
(* The goroutine of an order.                                               *)

Outcome(n, step) ==
  /\ trades' = [trades EXCEPT ![n].step = step]
  /\ UNCHANGED <<kind, active, cur, told, pc, listens, cfg, hand, at, quota,
                 shown, last, sent, now>>

\* Leverage and quantity are asked for under the loop's context, which has to
\* be alive; the order over the WebSocket is sent whatever became of it.
TradeStep(n) ==
  \/ trades[n].step = "size" /\ ~Cut(trades[n].loop) /\ Outcome(n, "send")
  \/ trades[n].step = "send" /\ Outcome(n, "placed")
  \/ trades[n].step \in {"size", "send"} /\ Outcome(n, "failed")

LoopStep(i) == \/ Tick(i) \/ LoopEnds(i) \/ Begin(i) \/ Fetch(i) \/ FetchFails(i)
               \/ Publish(i) \/ RoundEnds(i)
               \/ \E k \in Key : SendAlert(i, k)
               \/ \E x \in Item : GoTrade(i, x)

Next == \/ Advance \/ StartMonitor \/ StopMonitor
        \/ \E i \in Loop : LoopStep(i)
        \/ \E n \in DOMAIN trades : TradeStep(n)

\* A loop goes on; at a select whose stop is ready again and again it is taken
\* some time, and not every request fails.
Fairness == \A i \in Loop : /\ WF_vars(LoopStep(i)) /\ SF_vars(LoopEnds(i))
                            /\ SF_vars(Fetch(i))

FairSpec == Init /\ [][Next]_vars /\ Fairness

-------------------------------------------------------------------------------
\* The shape of the state: a loop is there for each Start so far, and what it
\* holds belongs to its kind.
TypeOK ==
  /\ cur \in 0 .. MaxStart /\ told \subseteq 1 .. cur /\ now \in 1 .. MaxTime
  /\ \A i \in Loop : /\ (pc[i] = "none") <=> (i > cur)
                      /\ listens[i] \in Loop /\ cfg[i] \in Loop
                      /\ hand[i] \subseteq Key /\ quota[i] \in 0 .. MaxNotify
  /\ shown.cfg \in 0 .. cur /\ last \in [Key -> 0 .. MaxTime]
  /\ sent # <<>> => kind = "aave"
  /\ trades # <<>> => kind = "funding" /\ Len(trades) <= MaxTrade

\* An alert is not repeated under one Start before its cool-down has passed,
\* by the times its rounds acted at; the loop that a Start replaced sends from
\* the same memory (shouldSendAlert in api/aave_monitor.go).
AlertsSpaced ==
  \A m, n \in DOMAIN sent :
    m < n /\ sent[m].key = sent[n].key /\ sent[m].start = sent[n].start
      => sent[n].at >= sent[m].at + Cool

\* Once a monitor is stopped for good, each of its loops ends, the ones that
\* were busy through earlier stops included (StopFundingMonitor,
\* StopAaveMonitor, StopAllocator).
StoppedLoopsEnd ==
  <>[]~active => <>[](\A i \in Loop : pc[i] \in {"none", "gone"})

\* Once a monitor is left running, what it shows is in the end computed from
\* the configuration it was last started with, whatever a replaced loop
\* published meanwhile.
CurrentConfigShown == <>[]active => <>[](shown.cfg = cur)

\* Refuted for the allocator: one loop that no stop has reached, at most
\* (api/strategy_allocator.go:96 looks at the global channel).
OneLoop ==
  Cardinality({ i \in Loop : /\ pc[i] \notin {"none", "gone"}
                             /\ listens[i] \notin told }) <= 1

\* Refuted for the Aave monitor: the failure shown is the running loop's own
\* (runAaveMonitorRound of a cancelled loop, api/aave_monitor.go:390).
ErrorsAreItsOwn == shown.error /\ active => shown.cfg = cur

\* Refuted for the funding monitor: a rate that stays extreme is traded once
\* (api/funding_rate.go:226 orders at each check).
OneOrderPerAlert ==
  \A m, n \in DOMAIN trades :
    trades[m].step = "placed" /\ trades[n].step = "placed"
      /\ trades[m].item = trades[n].item => m = n
===============================================================================
