-------------------------------- MODULE Scalp --------------------------------
(***************************************************************************)
(* The one-minute strategy (src/api/scalp_strategy.go) on one symbol.  A   *)
(* task decides once a minute from indicators, closes what it holds before *)
(* it turns, and believes what it last did: Direction is never compared    *)
(* with the account.  A stopped task finishes the check it is in.          *)
(***************************************************************************)
EXTENDS Integers, FiniteSets

CONSTANTS MaxTask,        \* bound: tasks started
          MaxDailyTrades, \* cfg.MaxDailyTrades
          LossLimit,      \* cfg.MaxDailyLoss, in steps of PnL
          Overbought, Oversold,  \* cfg.RSIOverbought, cfg.RSIOversold
          Rsi,            \* values of the RSI
          MaxHeld,        \* bound: entries held on a side
          MaxTrouble      \* bound: calls that fail, restarts

\* What the constants are to be.
RuleAssumption  == /\ Rsi \subseteq Int /\ Overbought \in Int /\ Oversold \in Int
                   /\ MaxDailyTrades \in Nat /\ LossLimit \in Int
BoundAssumption == {MaxTask, MaxHeld, MaxTrouble} \subseteq Nat

Task == 1..MaxTask
Side == {"LONG", "SHORT"}
Other(d) == IF d = "LONG" THEN "SHORT" ELSE "LONG"

VARIABLES current,   \* scalpTasks[symbol], 0 for none
          running,   \* the strategy's row says it is to be recovered
          task,      \* [Task -> state]
          held,      \* external: entries held on each side
          guarded,   \* sides whose local TPSL conditions are registered
          failed     \* calls whose answer was an error, overlaps and restarts

vars == <<current, running, task, held, guarded, failed>>

NoTask == [active |-> FALSE, pc |-> "gone", dir |-> "FLAT", plan |-> "HOLD",
           trades |-> 0, pnl |-> 0, today |-> TRUE, cooling |-> FALSE]

-----------------------------------------------------------------------------
(* scalpDecide.                                                            *)

\* What the indicators say.  cross: the fast EMA against the slow one, now and
\* a minute ago; price: against the trend EMA; near: the Bollinger bands the
\* price is near (both, when they are close); macd: the histogram's sign;
\* funding: beyond the threshold in which direction.
Fact == [cross: {"golden", "above", "below", "death"}, price: {-1, 0, 1}, rsi: Rsi,
         volume: BOOLEAN, macd: {-1, 0, 1}, nearLower: BOOLEAN,
         nearUpper: BOOLEAN,
         trend4h: {"BULL", "BEAR", "NEUTRAL"}, funding: {-1, 0, 1}]

FastAbove(f) == f.cross \in {"golden", "above"}

Buys(f) ==
  /\ FastAbove(f) /\ f.price > 0 /\ f.volume /\ f.trend4h # "BEAR" /\ f.funding <= 0
  /\ \/ f.cross = "golden" /\ f.rsi < Overbought /\ f.macd > 0
     \/ f.rsi < 40 /\ (f.nearLower \/ f.macd > 0)

\* A bug the runs must notice: no look at the 4-hour trend on the way down.
SellsUphill(f) ==
  /\ ~FastAbove(f) /\ f.price < 0 /\ f.volume /\ f.funding >= 0
  /\ \/ f.cross = "death" /\ f.rsi > Oversold /\ f.macd < 0
     \/ f.rsi > 60 /\ (f.nearUpper \/ f.macd < 0)

Sells(f) ==
  /\ ~FastAbove(f) /\ f.price < 0 /\ f.volume /\ f.trend4h # "BULL" /\ f.funding >= 0
  /\ \/ f.cross = "death" /\ f.rsi > Oversold /\ f.macd < 0
     \/ f.rsi > 60 /\ (f.nearUpper \/ f.macd < 0)

Closes(f) ==
  \/ f.cross \in {"golden", "death"}
  \/ f.rsi >= Overbought + 5 \/ f.rsi <= Oversold - 5
  \/ f.nearUpper /\ f.macd < 0
  \/ f.nearLower /\ f.macd > 0

Decide(f) == IF Buys(f) THEN "BUY" ELSE IF Sells(f) THEN "SELL"
             ELSE IF Closes(f) THEN "CLOSE" ELSE "HOLD"

Signal == {"BUY", "SELL", "CLOSE", "HOLD"}

-----------------------------------------------------------------------------
(* Starting and stopping.                                                  *)

Begin(g) ==
  /\ task' = [task EXCEPT ![g] = [NoTask EXCEPT !.active = TRUE, !.pc = "rest"]]
  /\ current' = g

\* A loop that has not ended though its task is stopped counts as trouble.
StartScalp ==
  /\ current # 0 => ~task[current].active
  /\ \E g \in Task : g = current + 1 /\ Begin(g)
  /\ running' = TRUE
  /\ failed' = IF current = 0 THEN failed ELSE failed + 1
  /\ failed' <= MaxTrouble
  /\ UNCHANGED <<held, guarded>>

StopScalp ==
  /\ current # 0 /\ task[current].active
  /\ task' = [task EXCEPT ![current].active = FALSE]
  /\ running' = FALSE
  /\ UNCHANGED <<current, held, guarded, failed>>

\* The process ends; RecoverStrategies starts a running strategy again, FLAT.
Crash ==
  /\ current # 0 /\ failed < MaxTrouble /\ failed' = failed + 1
  /\ IF running
     THEN \E g \in Task :
            /\ g = current + 1 /\ current' = g
            /\ task' = [t \in Task |->
                 IF t = g THEN [NoTask EXCEPT !.active = TRUE, !.pc = "rest"] ELSE NoTask]
     ELSE current' = current /\ task' = [t \in Task |-> NoTask]
  /\ UNCHANGED <<running, held, guarded>>

\* The select sees stopC closed.
LoopEnds(g) ==
  /\ task[g].pc = "rest" /\ ~task[g].active
  /\ task' = [task EXCEPT ![g].pc = "gone"]
  /\ UNCHANGED <<current, running, held, guarded, failed>>

-----------------------------------------------------------------------------
(* scalpCheck.                                                             *)

\* The day's counters, the limits, the cool-down; then the risk check, the
\* liquidation filter and the klines, any of which may end the check.
ScalpCheck(g) ==
  LET t == task[g]
      d == IF t.today THEN t ELSE [t EXCEPT !.trades = 0, !.pnl = 0, !.today = TRUE]
      passes == d.pnl > -LossLimit /\ d.trades < MaxDailyTrades /\ ~d.cooling
  IN  /\ t.pc = "rest"
      /\ \E pc \in {"rest"} \cup (IF passes THEN {"decide"} ELSE {}) :
           task' = [task EXCEPT ![g] = [d EXCEPT !.pc = pc]]
      /\ UNCHANGED <<current, running, held, guarded, failed>>

\* A bug the runs must notice: a task adds to what it holds.
ActAdds(g) ==
  /\ task[g].pc = "decide"
  /\ \E s \in Signal :
       LET dir  == task[g].dir
           want == IF s = "BUY" THEN "LONG" ELSE "SHORT"
       IN task' = [task EXCEPT ![g].plan = s, ![g].pc =
            CASE s = "HOLD" -> "rest"
              [] s = "CLOSE" -> IF dir = "FLAT" THEN "rest" ELSE "close"
              [] OTHER -> IF dir = Other(want) THEN "close" ELSE "open"]
  /\ UNCHANGED <<current, running, held, guarded, failed>>

\* The signal against Direction.
Act(g) ==
  /\ task[g].pc = "decide"
  /\ \E s \in Signal :
       LET dir  == task[g].dir
           want == IF s = "BUY" THEN "LONG" ELSE "SHORT"
       IN task' = [task EXCEPT ![g].plan = s, ![g].pc =
            CASE s = "HOLD" -> "rest"
              [] s = "CLOSE" -> IF dir = "FLAT" THEN "rest" ELSE "close"
              [] OTHER -> IF dir = want THEN "rest"
                          ELSE IF dir = "FLAT" THEN "open" ELSE "close"]
  /\ UNCHANGED <<current, running, held, guarded, failed>>

AfterClose(g) == IF task[g].plan = "CLOSE" THEN "rest" ELSE "open"

\* scalpClosePosition, done: the whole side is sold, every local condition of
\* the symbol is cancelled, the profit of the moment is booked.
ClosePosition(g) ==
  LET dir == task[g].dir IN
  /\ task[g].pc = "close" /\ held[dir] > 0
  /\ held' = [held EXCEPT ![dir] = 0]
  /\ guarded' = {}
  /\ \E pnl \in {-1, 1} :
       task' = [task EXCEPT ![g] = [task[g] EXCEPT !.dir = "FLAT", !.pnl = @ + pnl,
                                                   !.cooling = TRUE, !.pc = AfterClose(g)]]
  /\ UNCHANGED <<current, running, failed>>

\* ... or failed: nothing is held, or the call fails, done or not.  The check
\* goes on: a reversal opens the other side all the same.
CloseFails(g) ==
  LET dir == task[g].dir IN
  /\ task[g].pc = "close"
  /\ \/ held[dir] = 0 /\ UNCHANGED <<held, failed>>
     \/ /\ held[dir] > 0 /\ failed < MaxTrouble /\ failed' = failed + 1
        /\ \/ UNCHANGED held
           \/ held' = [held EXCEPT ![dir] = 0]
  /\ task' = [task EXCEPT ![g].pc = AfterClose(g)]
  /\ UNCHANGED <<current, running, guarded>>

Entry(g) == IF task[g].plan = "BUY" THEN "LONG" ELSE "SHORT"

Enter(d) ==
  /\ held[d] < MaxHeld
  /\ held' = [held EXCEPT ![d] = @ + 1]
  /\ guarded' = guarded \cup {d}

\* scalpOpenPosition, done.  The order is a limit order: it may not be filled.
OpenPosition(g) ==
  LET d == Entry(g) IN
  /\ task[g].pc = "open"
  /\ Enter(d) \/ UNCHANGED <<held, guarded>>
  /\ task' = [task EXCEPT ![g] = [task[g] EXCEPT !.dir = d, !.trades = @ + 1,
                                                 !.cooling = TRUE, !.pc = "rest"]]
  /\ UNCHANGED <<current, running, failed>>

\* ... or failed, done or not.
OpenFails(g) ==
  /\ task[g].pc = "open"
  /\ failed < MaxTrouble /\ failed' = failed + 1
  /\ Enter(Entry(g)) \/ UNCHANGED <<held, guarded>>
  /\ task' = [task EXCEPT ![g].pc = "rest"]
  /\ UNCHANGED <<current, running>>

-----------------------------------------------------------------------------
(* The world: the clock, and a local TPSL condition that closes a side.    *)

CooledDown(g) ==
  /\ task[g].cooling /\ task' = [task EXCEPT ![g].cooling = FALSE]
  /\ UNCHANGED <<current, running, held, guarded, failed>>

DayPasses ==
  /\ \E g \in Task : task[g].today
  /\ task' = [g \in Task |-> [task[g] EXCEPT !.today = FALSE]]
  /\ UNCHANGED <<current, running, held, guarded, failed>>

StoppedOut(d) ==
  /\ held[d] > 0 /\ d \in guarded
  /\ held' = [held EXCEPT ![d] = 0]
  /\ guarded' = guarded \ {d}
  /\ UNCHANGED <<current, running, task, failed>>

-----------------------------------------------------------------------------

Init ==
  /\ current = 0 /\ running = FALSE /\ task = [g \in Task |-> NoTask]
  /\ held = [d \in Side |-> 0] /\ guarded = {} /\ failed = 0

Step(g) == \/ LoopEnds(g) \/ ScalpCheck(g) \/ Act(g) \/ ClosePosition(g)
           \/ CloseFails(g) \/ OpenPosition(g) \/ OpenFails(g)

Next ==
  \/ StartScalp \/ StopScalp \/ Crash \/ DayPasses
  \/ \E g \in Task : Step(g) \/ CooledDown(g)
  \/ \E d \in Side : StoppedOut(d)

Spec == Init /\ [][Next]_vars

-----------------------------------------------------------------------------
(* Properties.                                                             *)

\* The shape of the state.
TypeOK ==
  /\ current \in {0} \cup Task /\ running \in BOOLEAN
  /\ task \in [Task -> [active: BOOLEAN, pc: {"gone", "rest", "decide", "close", "open"},
                        dir: Side \cup {"FLAT"}, plan: Signal, trades: 0..MaxDailyTrades,
                        pnl: Int, today: BOOLEAN, cooling: BOOLEAN]]
  /\ held \in [Side -> 0..MaxHeld] /\ guarded \subseteq Side
  /\ failed \in 0..MaxTrouble

\* While every call is answered and nothing restarts, a task is right about
\* itself: what is held is one entry, on the side it believes it is on, with
\* its stop registered; turning round never leaves the old side open, nor
\* cancels the stop of the new one.
DirectionTrue ==
  failed = 0 =>
    \A d \in Side :
      held[d] > 0 => held[d] = 1 /\ current # 0 /\ task[current].dir = d /\ d \in guarded

\* The rules for falling prices are those for rising prices in a mirror.
Mirror(f) ==
  [f EXCEPT !.cross = CASE @ = "golden" -> "death" [] @ = "death" -> "golden"
                        [] @ = "above" -> "below" [] @ = "below" -> "above",
            !.price = -@, !.rsi = 100 - @, !.macd = -@, !.nearLower = f.nearUpper, !.nearUpper = f.nearLower,
            !.trend4h = CASE @ = "BULL" -> "BEAR" [] @ = "BEAR" -> "BULL" [] OTHER -> @,
            !.funding = -@]

Reversed(s) == CASE s = "BUY" -> "SELL" [] s = "SELL" -> "BUY" [] OTHER -> s

DecisionsMirror ==
  (current = 0 /\ running = FALSE) => \A f \in Fact : Decide(Mirror(f)) = Reversed(Decide(f))

\* "A position is closed before it is reversed; at any time only one direction
\* is held" (src/api/scalp_strategy.go:20).
OneDirection == \E d \in Side : held[d] = 0
=============================================================================
