------------------------------- MODULE Signals -------------------------------
(***************************************************************************)
(* The two candle strategies: RSI with volume (api/signal_strategy.go) and *)
(* candle patterns (api/doji_strategy.go).  They share their frame: a      *)
(* loop that checks once per candle, a count of open trades that caps new  *)
(* ones, an order with a stop loss and a take profit that somebody else    *)
(* (the local monitor, the exchange) carries out.  kind says which of the  *)
(* two runs; a new Start makes a new state with a loop of its own, and the *)
(* loop of the stopped state ends only when it next waits.                 *)
(*                                                                         *)
(* Prices are 1 .. Top.  A market is what one check is given: closes, and  *)
(* for the pattern strategy the opens and the shadows of the last two      *)
(* closed candles; loud says that the volume confirms.                     *)
(***************************************************************************)
EXTENDS Integers, FiniteSets, Sequences, Functions

CONSTANTS
    Top,            \* prices are 1 .. Top
    Period,         \* RSI period
    Oversold, Overbought, ExitLow, ExitHigh,    \* RSI levels, in percent
    BodyRatio, ShadowRatio, TrendStrength,      \* in percent
    MaxPositions,   \* the cap on the count of open trades
    MaxStart        \* bound: starts of the strategy

ASSUME RuleAssumption ==
    /\ Top \in Nat /\ Period \in Nat \ {0}
    /\ {Oversold, Overbought, ExitLow, ExitHigh} \subseteq Int
    /\ {BodyRatio, ShadowRatio, TrendStrength} \subseteq Int
ASSUME CapAssumption == MaxPositions \in Nat /\ MaxStart \in Nat

VARIABLES
    kind,           \* "signal" or "doji"
    cur, active,    \* the newest state of the task table, and its Active
    loop,           \* for each start, where its loop is
    open,           \* OpenTrades of each start's state
    held,           \* sides held at the exchange
    unclear,        \* some order was executed whose answer was an error
    last,           \* what the check in hand decided
    ignored         \* a signal was dropped at the cap while a side was free

vars == <<kind, cur, active, loop, open, held, unclear, last, ignored>>

Side == {"BUY", "SELL"}
None == [signal |-> "NONE", exits |-> {}]
Start == 1 .. MaxStart
Price == 1 .. Top

AbsOf(x) == IF x < 0 THEN -x ELSE x
Larger(x, y) == IF x > y THEN x ELSE y
Smaller(x, y) == IF x < y THEN x ELSE y
Other(s) == CASE s = "BUY" -> "SELL" [] s = "SELL" -> "BUY" [] OTHER -> s

------------------------------------------------------------------------------
(* The indicators.                                                         *)

\* The rises (dir = 1) or the falls (dir = -1) between the first n closes.
Moves(closes, dir, n) ==
    [i \in 1 .. n - 1 |-> Larger(0, dir * (closes[i + 1] - closes[i]))]

\* Wilder's smoothing of n - 1 moves, a fraction: first their mean over a
\* period, then each new move weighs as one of a period.
Wilder(moves, n) ==
    LET avg[i \in Period .. n - 1] ==
            IF i = Period
            THEN [of |-> SumFunctionOnSet(moves, 1 .. Period), to |-> Period]
            ELSE [of |-> avg[i - 1].of * (Period - 1) + moves[i] * avg[i - 1].to,
                  to |-> avg[i - 1].to * Period]
    IN  avg[n - 1]

\* What the closes rose or fell; the denominator is the same for both.
Smoothed(closes, dir, n) == Wilder(Moves(closes, dir, n), n).of

\* A bug the runs must notice: without falls the RSI is a neutral 50.
calcRSINeutral(closes, n) ==
    LET gain == Smoothed(closes, 1, n)
        loss == Smoothed(closes, -1, n)
    IN  IF loss = 0 THEN [of |-> 50, to |-> 1]
        ELSE [of |-> 100 * gain, to |-> gain + loss]

\* RSI of the first n closes as a fraction; without falls it is 100, even
\* when nothing moved at all.
calcRSI(closes, n) ==
    LET gain == Smoothed(closes, 1, n)
        loss == Smoothed(closes, -1, n)
    IN  IF loss = 0 THEN [of |-> 100, to |-> 1]
        ELSE [of |-> 100 * gain, to |-> gain + loss]

AtMost(r, x) == r.of <= x * r.to
AtLeast(r, x) == r.of >= x * r.to

\* The signal of the RSI strategy: the RSI leaves a zone, with volume.  The
\* second test overrides the first.
CrossSignal(m) ==
    LET n == Len(m.closes)
        now == calcRSI(m.closes, n)
        before == calcRSI(m.closes, n - 1)
    IN  IF m.loud /\ AtLeast(before, Overbought) /\ ~AtLeast(now, Overbought)
        THEN "SELL"
        ELSE IF m.loud /\ AtMost(before, Oversold) /\ ~AtMost(now, Oversold)
        THEN "BUY"
        ELSE "NONE"

\* The sides the RSI closes, whoever opened them.
Exits(m) ==
    LET now == calcRSI(m.closes, Len(m.closes))
    IN  { s \in Side : \/ s = "BUY" /\ AtLeast(now, ExitHigh)
                       \/ s = "SELL" /\ AtMost(now, ExitLow) }

detectPattern(m) ==
    LET c == m.closes[Len(m.closes)]
        prevC == m.closes[Len(m.closes) - 1]
        body == AbsOf(c - m.o)
        prevBody == AbsOf(prevC - m.prevO)
        upper == m.h - Larger(m.o, c)
        lower == Smaller(m.o, c) - m.l
        long(shadow) == body > 0 /\ 100 * shadow >= ShadowRatio * body
    IN  CASE m.h <= m.l -> "None"
          [] m.h > m.l /\ 100 * body <= BodyRatio * (m.h - m.l) -> "Doji"
          [] OTHER ->
             IF long(lower) /\ upper < body THEN "Hammer"
             ELSE IF long(upper) /\ lower < body THEN "ShootingStar"
             ELSE IF ~(prevBody > 0 /\ body > prevBody) THEN "None"
             ELSE IF prevC < m.prevO /\ c > m.o /\ c > m.prevO /\ m.o <= prevC
             THEN "EngulfBull"
             ELSE IF prevC > m.prevO /\ c < m.o /\ m.o > prevC /\ c <= m.prevO
             THEN "EngulfBear"
             ELSE "None"

\* The direction of the closes, in percent of the first one.
detectTrend(m) ==
    LET start == m.closes[1]
        change == 100 * (m.closes[Len(m.closes)] - start)
    IN  IF change >= TrendStrength * start THEN "UP"
        ELSE IF change <= -TrendStrength * start THEN "DOWN" ELSE "FLAT"

dojiSignalFromPattern(pattern, trend) ==
    IF trend = "DOWN" /\ pattern \in {"Doji", "Hammer", "EngulfBull"} THEN "BUY"
    ELSE IF trend = "UP" /\ pattern \in {"Doji", "ShootingStar", "EngulfBear"}
    THEN "SELL" ELSE "NONE"

\* The signal of the pattern strategy with its RSI and volume filters.
PatternSignal(m, trend) ==
    LET signal == dojiSignalFromPattern(detectPattern(m), trend)
        rsi == calcRSI(m.closes, Len(m.closes))
    IN  CASE ~m.loud -> "NONE"
          [] m.loud /\ signal = "BUY" /\ ~AtMost(rsi, Oversold) -> "NONE"
          [] m.loud /\ signal = "SELL" /\ ~AtLeast(rsi, Overbought) -> "NONE"
          [] OTHER -> signal

\* The markets a check can be given: one more close than the smoothing needs
\* for the RSI strategy (it looks at two RSI values), and whole candles for
\* the pattern strategy.
Market(k) ==
    IF k = "signal"
    THEN [closes : [1 .. Period + 2 -> Price], loud : BOOLEAN]
    ELSE { m \in [closes : [1 .. Period + 1 -> Price], loud : BOOLEAN,
                  prevO : Price, o : Price, h : Price, l : Price] :
             LET c == m.closes[Period + 1]
             IN  m.h >= Larger(m.o, c) /\ m.l <= Smaller(m.o, c) }

\* What one check decides: a signal, and the sides to close before.
Decide(k, m) ==
    IF k = "signal" THEN [signal |-> CrossSignal(m), exits |-> Exits(m)]
    ELSE [signal |-> PatternSignal(m, detectTrend(m)), exits |-> {}]

\* Every decision some market leads to.
Decisions == [k \in {"signal", "doji"} |->
                { Decide(k, m) : m \in Market(k) } \ {None}]

------------------------------------------------------------------------------
(* The frame.                                                              *)

Init == /\ kind \in {"signal", "doji"}
        /\ cur = 0 /\ active = FALSE
        /\ loop = [i \in Start |-> "none"]
        /\ open = [i \in Start |-> 0]
        /\ held = {} /\ unclear = FALSE /\ last = [i \in Start |-> None]
        /\ ignored = FALSE

\* StartSignalStrategy, StartDojiStrategy: a fresh state, its count at zero.
StartStrategy ==
    /\ ~active /\ cur < MaxStart
    /\ cur' = cur + 1 /\ active' = TRUE
    /\ loop' = [loop EXCEPT ![cur + 1] = "wait"]
    /\ UNCHANGED <<kind, open, held, unclear, last, ignored>>

StopStrategy ==
    /\ active
    /\ active' = FALSE
    /\ UNCHANGED <<kind, cur, loop, open, held, unclear, last, ignored>>

\* The loop of a stopped state takes its closed channel.
LoopEnds(i) ==
    /\ loop[i] = "wait" /\ ~(active /\ i = cur)
    /\ loop' = [loop EXCEPT ![i] = "ended"]
    /\ UNCHANGED <<kind, cur, active, open, held, unclear, last, ignored>>

\* signalCheck, dojiCheck up to the first request after the candles: the
\* signal is decided from one market.  (A failed fetch changes nothing.)
Check(i) ==
    /\ loop[i] = "wait"
    /\ \E d \in Decisions[kind] :
         /\ last' = [last EXCEPT ![i] = [d EXCEPT !.exits = @ \cap held]]
         /\ loop' = [loop EXCEPT ![i] =
                       IF d.exits # {} THEN "exit" ELSE "limit"]
    /\ UNCHANGED <<kind, cur, active, open, held, unclear, ignored>>

\* A bug the runs must notice: a close that failed is counted as well.
CloseCountsFailure(i, s) ==
    /\ loop[i] = "exit" /\ s \in last[i].exits
    /\ last' = [last EXCEPT ![i].exits = @ \ {s}]
    /\ held' \in {held, held \ {s}}
    /\ open' = [open EXCEPT ![i] = Larger(0, @ - 1)]
    /\ UNCHANGED <<kind, cur, active, loop, unclear, ignored>>

\* signalCheckExit: one side after the other is closed.  A position that is
\* gone, or an exchange that refuses, is an error and is passed over.
CloseOne(i, s) ==
    /\ loop[i] = "exit" /\ s \in last[i].exits
    /\ last' = [last EXCEPT ![i].exits = @ \ {s}]
    /\ \/ UNCHANGED <<open, held>>
       \/ /\ s \in held
          /\ held' = held \ {s}
          /\ open' = [open EXCEPT ![i] = Larger(0, @ - 1)]
    /\ UNCHANGED <<kind, cur, active, loop, unclear, ignored>>

ExitsDone(i) ==
    /\ loop[i] = "exit" /\ last[i].exits = {}
    /\ loop' = [loop EXCEPT ![i] =
                  IF last[i].signal = "NONE" THEN "wait" ELSE "limit"]
    /\ last' = IF last[i].signal = "NONE" THEN [last EXCEPT ![i] = None] ELSE last
    /\ UNCHANGED <<kind, cur, active, open, held, unclear, ignored>>

\* The cap, then CheckRisk: the signal is dropped, or an order is sent.
Limit(i) ==
    /\ loop[i] = "limit"
    /\ \/ /\ loop' = [loop EXCEPT ![i] = "wait"]     \* at the cap, or risk says no
          /\ last' = [last EXCEPT ![i] = None]
          /\ ignored' = (ignored \/ (open[i] >= MaxPositions
                                     /\ Cardinality(held) < MaxPositions))
       \/ /\ open[i] < MaxPositions
          /\ loop' = [loop EXCEPT ![i] = "order"]
          /\ UNCHANGED <<last, ignored>>
    /\ UNCHANGED <<kind, cur, active, open, held, unclear>>

\* signalOpenPosition, dojiOpenPosition: executed and counted, refused, or
\* executed although the answer is an error.
Order(i) ==
    /\ loop[i] = "order"
    /\ \/ /\ held' = held \cup {last[i].signal}
          /\ open' = [open EXCEPT ![i] = @ + 1]
          /\ UNCHANGED unclear
       \/ UNCHANGED <<held, open, unclear>>
       \/ /\ held' = held \cup {last[i].signal}
          /\ unclear' = TRUE
          /\ UNCHANGED open
    /\ loop' = [loop EXCEPT ![i] = "wait"]
    /\ last' = [last EXCEPT ![i] = None]
    /\ UNCHANGED <<kind, cur, active, ignored>>

\* A stop loss or a take profit closes a side; no count hears of it.
TakenOut(s) ==
    /\ s \in held
    /\ held' = held \ {s}
    /\ UNCHANGED <<kind, cur, active, loop, open, unclear, last, ignored>>

Next == \/ StartStrategy \/ StopStrategy
        \/ \E i \in Start : \/ LoopEnds(i) \/ Check(i) \/ ExitsDone(i)
                            \/ Limit(i) \/ Order(i)
                            \/ \E s \in Side : CloseOne(i, s)
        \/ \E s \in Side : TakenOut(s)

Spec == Init /\ [][Next]_vars

------------------------------------------------------------------------------
\* The tables hold what the strategies can put there.
TypeOK == /\ kind \in {"signal", "doji"} /\ cur \in 0 .. MaxStart
          /\ active \in BOOLEAN /\ unclear \in BOOLEAN /\ ignored \in BOOLEAN
          /\ loop \in [Start -> {"none", "wait", "exit", "limit", "order", "ended"}]
          /\ open \in [Start -> 0 .. MaxPositions] /\ held \subseteq Side
          /\ last \in [Start -> [signal : Side \cup {"NONE"}, exits : SUBSET Side]]

\* The count that caps new trades never falls below the sides really held, as
\* long as there was one start and every answer said what happened: a wrong
\* decrement would let the strategy hold more than MaxPositions.
CountCoversHeld == cur = 1 /\ ~unclear => Cardinality(held) <= open[1]

MirrorMarket(k, m) ==
    LET flip(p) == Top + 1 - p
        closes == [i \in DOMAIN m.closes |-> flip(m.closes[i])]
    IN  IF k = "signal" THEN [closes |-> closes, loud |-> m.loud]
        ELSE [closes |-> closes, loud |-> m.loud, prevO |-> flip(m.prevO),
              o |-> flip(m.o), h |-> flip(m.l), l |-> flip(m.h)]

\* Where the two sides are told apart on purpose or by accident: a market
\* that did not move has RSI 100, and an engulfing body may touch the other
\* at one end only, not at the same end on both sides.
Lopsided(k, m) ==
    LET n == Len(m.closes)
        still(k2) == \A i \in 1 .. k2 : m.closes[i] = m.closes[1]
    IN  \/ still(n) \/ still(n - 1)
        \/ k = "doji" /\ (m.o = m.closes[n - 1] \/ m.closes[n] = m.prevO)

\* Buying and selling mirror each other: the upside-down market makes the
\* same check decide the other side (for the pattern strategy with the trend
\* turned, which is a percentage and so not symmetric).  A sign or a
\* comparison wrong on one side shows nowhere else.
SignalsMirror ==
    cur = 0 =>
      \A m \in Market(kind) :
        LET other == MirrorMarket(kind, m)
            turned == CASE detectTrend(m) = "UP" -> "DOWN"
                        [] detectTrend(m) = "DOWN" -> "UP"
                        [] OTHER -> "FLAT"
        IN  Lopsided(kind, m) \/
            IF kind = "signal" THEN CrossSignal(other) = Other(CrossSignal(m))
            ELSE PatternSignal(other, turned) = Other(PatternSignal(m, detectTrend(m)))

\* What MaxPositions is documented to be, the most positions held at one time
\* (最大同时持仓数): a signal is dropped at the cap only while that many sides
\* are held.  The code does not keep this: nothing counts down when a stop
\* loss or a take profit closes a position.
DroppedOnlyWhenFull == ~ignored
==============================================================================
