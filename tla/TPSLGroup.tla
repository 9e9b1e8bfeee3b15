------------------------------ MODULE TPSLGroup ------------------------------
(***************************************************************************)
(* What the take profits and the stop loss of one order do to its position *)
(* (api/local_tpsl.go, reduceOrderViaWs of api/ws_order.go): prices,       *)
(* quantities, partial take profit, trailing stop, ladder.  LocalTPSL has  *)
(* the stores and the threads; here there is one group, the monitor, the   *)
(* exchange and the user.                                                  *)
(*                                                                         *)
(* Quantities are units of QtyRules; prices are whole ticks.               *)
(***************************************************************************)
EXTENDS QtyRules, Integers, Sequences, SequencesExt

CONSTANTS
  MinQty,       \* LOT_SIZE minQty in units, 0 if absent
  MinNotional,  \* MIN_NOTIONAL in USDT, 0 if absent
  Orders,     \* the orders a behaviour may start with (see OrderAssumption)
  Entry,      \* entry price
  Distance,   \* distance of the stop loss from it
  Callback,   \* callback rate of the trailing stop, per mille (0.5% = 5)
  Prices,     \* prices the market visits
  MaxMove,    \* bound: price moves
  MaxFail,    \* bound: registrations of a trailing stop that fail
  MaxManual   \* bound: manual reductions

\* An order: QuoteQuantity and Leverage, RiskReward and Percent of its
\* take-profit levels, whether they came as tpLevels, which must add up to 100
\* percent, and the account's mode.
ASSUME OrderAssumption ==
  \A o \in Orders :
    /\ o.usdt \in Nat /\ o.leverage \in Nat \ {0}
    /\ o.rewards \in Seq(Nat) /\ o.percents \in Seq(Nat)
    /\ Len(o.rewards) = Len(o.percents) /\ Len(o.rewards) > 0
    /\ o.ladder \in BOOLEAN
    /\ IF o.ladder THEN SumFunction(o.percents) = 100 ELSE Len(o.rewards) = 1
    /\ o.hedge \in BOOLEAN
ASSUME RuleAssumption   == MinQty \in Nat /\ MinNotional \in Nat
ASSUME PriceAssumption  == Entry \in Nat \ {0} /\ Distance \in 1 .. Entry /\ Prices \subseteq Nat
ASSUME RateAssumption   == Callback \in 1 .. 999
ASSUME BoundAssumption  == MaxMove \in Nat /\ MaxFail \in Nat /\ MaxManual \in Nat

Levels == UNION {DOMAIN o.rewards : o \in Orders}
SL     == <<"SL", 0>>
TS     == <<"TS", 0>>
Conds  == {<<"TP", i>> : i \in Levels} \cup {SL, TS}

VARIABLES
  plan,     \* the order
  bought,   \* its quantity
  long,     \* the order's side
  price,    \* the cached price
  pos,      \* the position, positive in the order's direction
  status,   \* Status of each condition; "none": not registered
  qty,      \* Quantity of each condition
  extreme,  \* TrailingHighestPrice, 0 until a price was seen
  orders,   \* reduce orders resting on the exchange
  step, hit, \* the monitor: where it is, and the condition it triggered
  sold,     \* history: quantity of the orders accepted
  moves, fails, manuals

vars == <<plan, bought, long, price, pos, status, qty, extreme, orders, step, hit, sold,
          moves, fails, manuals>>

TPs == {<<"TP", i>> : i \in DOMAIN plan.rewards}

\* (Bug.)  An opening quantity rounded up to the minimum.
OpenQuantityRaised(o) ==
  LET raw == RoundToStep(o.usdt * o.leverage * 10 ^ Precision, Entry)
  IN  IF raw < MinQty THEN MinQty ELSE raw

\* calculateQuantityFromUSDT; 0 stands for its errors.  The checks come
\* before the quantity is printed.
OpenQuantity(o) ==
  LET raw == RoundToStep(o.usdt * o.leverage * 10 ^ Precision, Entry)
  IN  IF raw < MinQty \/ raw * Entry < MinNotional * 10 ^ Precision THEN 0
      ELSE Formatted(raw)

TriggerPrice(c) ==
  LET d == IF c = SL THEN 0 - Distance ELSE Distance * plan.rewards[c[2]]
  IN  IF long THEN Entry + d ELSE Entry - d

\* (Bug.)  A last level that sells everything.
LevelQtyLastTakesAll(c) ==
  IF c[2] = Len(plan.rewards) THEN bought ELSE Share(bought, plan.percents[c[2]])

\* Quantity of a take-profit level; the stop loss has the order's.
LevelQty(c) == IF plan.ladder THEN Share(bought, plan.percents[c[2]]) ELSE bought

\* (Bug.)  The operands of the subtraction swapped.
RemainSwapped == Formatted(RoundToStep(bought, 2)) - bought

Half   == Formatted(RoundToStep(bought, 2))
Remain == Formatted(RoundToStep(bought - RoundToStep(bought, 2), 1))
Active(C) == {c \in C : status[c] = "ACTIVE"}

\* p is at least as good for the position as q.
Favours(p, q) == IF long THEN p >= q ELSE p <= q

(***************************************************************************)
(* Bugs the runs must notice.                                              *)
(***************************************************************************)
\* updateTrailingStop that follows the price both ways.
FollowedAlways(p) == p

\* A trailing stop registered for the whole quantity.
RegisterWhole(ok) ==
  /\ step = "register"
  /\ ok
  /\ status' = [status EXCEPT ![TS] = "ACTIVE"]
  /\ qty' = [qty EXCEPT ![TS] = bought]
  /\ extreme' = price
  /\ step' = "link"
  /\ UNCHANGED <<plan, bought, long, price, pos, orders, hit, sold, moves, fails, manuals>>

\* The linked cancellation before the trailing stop is registered.
AfterHitLinks(c, whole) == "link"

\* A ladder whose stop loss goes with its first take profit.
CancelledWithFirst(c) == IF c \in TPs THEN {SL} ELSE TPs

(***************************************************************************)
(* shouldTrigger, after updateTrailingStop.                                *)
(***************************************************************************)
\* The trailing extremum after price p.
Followed(p) == IF extreme = 0 \/ Favours(p, extreme) THEN p ELSE extreme

\* The trailing stop's price for extremum e is e * (1 -+ rate / 100).
Retreated(p, e) ==
  IF long THEN p * 1000 <= e * (1000 - Callback)
          ELSE p * 1000 >= e * (1000 + Callback)

ShouldTrigger(c) ==
  CASE c \in TPs -> Favours(price, TriggerPrice(c))
    [] c = SL    -> Favours(TriggerPrice(c), price)
    [] c = TS    -> Retreated(price, Followed(price))

(***************************************************************************)
(* reduceOrderViaWs: a limit order at the current price.  The WebSocket    *)
(* request is not reduce-only, the REST fallback is.  In hedge mode the    *)
(* position side makes every closing order reduce-only.                    *)
(***************************************************************************)
\* A single take profit is partial, unless the symbol's rules cannot be read.
Partial(c, whole) == c \in TPs /\ ~plan.ladder /\ ~whole
SendQty(c, whole) == IF Partial(c, whole) THEN Half ELSE qty[c]

\* The exchange takes a quantity of zero for an error: the condition stays.
Accepted(c, ro, q) ==
  /\ q > 0
  /\ (ro \/ plan.hedge) => pos > 0
  /\ orders' = orders \cup {[cond |-> c, qty |-> q, ro |-> ro \/ plan.hedge]}
  /\ sold' = sold + q

\* A visit of the monitor to an ACTIVE condition, at the price of this tick.
Visit(c) ==
  /\ step = "idle" /\ status[c] = "ACTIVE"
  /\ extreme' = IF c = TS THEN Followed(price) ELSE extreme

\* The trailing stop only follows.
Follow ==
  /\ Visit(TS) /\ ~ShouldTrigger(TS)
  /\ UNCHANGED <<plan, bought, long, price, pos, status, qty, orders, step, hit, sold, moves,
                 fails, manuals>>

\* Where a trigger goes on once the condition is TRIGGERED.
AfterHit(c, whole) == IF Partial(c, whole) THEN "register" ELSE "link"

Trigger(c, ro, whole) ==
  /\ Visit(c) /\ ShouldTrigger(c)
  /\ Accepted(c, ro, SendQty(c, whole))
  /\ status' = [status EXCEPT ![c] = "TRIGGERED"]
  /\ step' = AfterHit(c, whole)
  /\ hit' = c
  /\ UNCHANGED <<plan, bought, long, price, pos, qty, moves, fails, manuals>>

\* A reduce-only order with nothing to reduce: the group is cancelled.
TriggerClosed(c, ro, whole) ==
  /\ Visit(c) /\ ShouldTrigger(c)
  /\ (ro \/ plan.hedge) /\ pos <= 0 /\ SendQty(c, whole) > 0
  /\ status' = [d \in Conds |->
       IF d = c \/ (status[d] = "ACTIVE" /\ (d = TS) = (c = TS))
       THEN "CANCELLED" ELSE status[d]]
  /\ UNCHANGED <<plan, bought, long, price, pos, qty, orders, step, hit, sold, moves, fails,
                 manuals>>

\* RegisterTrailingStop for the half that was not sold; its error is logged.
Register(ok) ==
  /\ step = "register"
  /\ IF ok
     THEN /\ status' = [status EXCEPT ![TS] = "ACTIVE"]
          /\ qty' = [qty EXCEPT ![TS] = Remain]
          /\ extreme' \in {0, price}
          /\ UNCHANGED fails
     ELSE /\ fails < MaxFail /\ fails' = fails + 1
          /\ UNCHANGED <<status, qty, extreme>>
  /\ step' = "link"
  /\ UNCHANGED <<plan, bought, long, price, pos, orders, hit, sold, moves, manuals>>

\* handleLinkedCancellation after c; a trailing stop is a group of its own.
Cancelled(c) ==
  CASE c = SL    -> TPs
    [] c \in TPs -> IF Active(TPs) = {} THEN {SL} ELSE {}
    [] c = TS    -> {}

Link ==
  /\ step = "link"
  /\ status' = [d \in Conds |->
       IF d \in Cancelled(hit) /\ status[d] = "ACTIVE" THEN "CANCELLED"
       ELSE status[d]]
  /\ step' = "idle"
  /\ UNCHANGED <<plan, bought, long, price, pos, qty, extreme, orders, hit, sold, moves,
                 fails, manuals>>

(***************************************************************************)
(* The market, the exchange and the user.                                  *)
(***************************************************************************)
Move(p) ==
  /\ moves < MaxMove /\ moves' = moves + 1
  /\ p # price /\ price' = p
  /\ UNCHANGED <<plan, bought, long, pos, status, qty, extreme, orders, step, hit, sold,
                 fails, manuals>>

\* A reduce-only order reduces what there is, another one crosses zero.
Fill(o) ==
  /\ o \in orders
  /\ orders' = orders \ {o}
  /\ pos' = IF o.ro THEN (IF pos > o.qty THEN pos - o.qty
                          ELSE IF pos > 0 THEN 0 ELSE pos)
            ELSE pos - o.qty
  /\ UNCHANGED <<plan, bought, long, price, status, qty, extreme, step, hit, sold, moves,
                 fails, manuals>>

\* The user closes q by hand; the conditions stay as they are.
ReduceByHand(q) ==
  /\ manuals < MaxManual /\ manuals' = manuals + 1
  /\ q <= pos /\ pos' = pos - q
  /\ UNCHANGED <<plan, bought, long, price, status, qty, extreme, orders, step, hit, sold,
                 moves, fails>>

-----------------------------------------------------------------------------
\* The order is filled and RegisterLocalTPSLFromOrder is done.
Init ==
  /\ long \in BOOLEAN
  /\ plan \in Orders
  /\ bought = OpenQuantity(plan) /\ bought > 0
  /\ price = Entry
  /\ pos = bought
  /\ status = [c \in Conds |-> IF c \in TPs \cup {SL} THEN "ACTIVE" ELSE "none"]
  /\ qty = [c \in Conds |->
       IF c \in TPs THEN LevelQty(c) ELSE IF c = SL THEN bought ELSE 0]
  /\ extreme = 0
  /\ orders = {}
  /\ step = "idle" /\ hit = SL
  /\ sold = 0 /\ moves = 0 /\ fails = 0 /\ manuals = 0

Next ==
  \/ \E c \in Conds, ro, whole \in BOOLEAN :
       Trigger(c, ro, whole) \/ TriggerClosed(c, ro, whole)
  \/ Follow \/ Link
  \/ \E ok \in BOOLEAN : Register(ok)
  \/ \E p \in Prices : Move(p)
  \/ \E o \in orders : Fill(o)
  \/ \E k \in 1 .. bought \div Step : ReduceByHand(k * Step)

Spec == Init /\ [][Next]_vars

-----------------------------------------------------------------------------
(***************************************************************************)
(* Properties                                                              *)
(***************************************************************************)
TypeOK ==
  /\ plan \in Orders /\ bought \in Nat
  /\ long \in BOOLEAN /\ price \in Nat /\ pos \in Int
  /\ status \in [Conds -> {"none", "ACTIVE", "TRIGGERED", "CANCELLED"}]
  /\ qty \in [Conds -> Nat] /\ extreme \in Nat
  /\ orders \subseteq [cond : Conds, qty : Nat \ {0}, ro : BOOLEAN]
  /\ step \in {"idle", "register", "link"} /\ hit \in Conds
  /\ sold \in Nat /\ moves \in Nat /\ fails \in Nat /\ manuals \in Nat

Resting == SumFunction([o \in orders |-> o.qty])
Parts   == [i \in DOMAIN plan.rewards |-> LevelQty(<<"TP", i>>)]
Dust    == IF plan.ladder THEN bought - SumFunction(Parts) ELSE 0

\* What is open is covered, at every step of every trigger: by an armed stop,
\* by orders on their way, or it is the dust a ladder's rounding leaves.
StopCoversPosition ==
  pos <= SumFunctionOnSet(qty, Active({SL, TS})) + Resting + Dust

CoveredUnlessRegistrationFails == fails = 0 => StopCoversPosition

\* The conditions of a single take profit never sell more than was bought,
\* whichever of them fire, at whatever prices.
NeverSellsMoreThanBought == ~plan.ladder => sold <= bought

\* An opening order meets every filter of the exchange, costs no more than
\* margin times leverage, and not a whole step less.
OpeningFits ==
  LET budget == plan.usdt * plan.leverage * 10 ^ Precision IN
  /\ bought % Step = 0 /\ bought >= MinQty
  /\ bought * Entry >= MinNotional * 10 ^ Precision
  /\ bought * Entry <= budget /\ budget < (bought + Step) * Entry

\* The levels of a ladder sell no more than the order bought, and what the
\* rounding leaves is less than a step per level.
LadderFits ==
  plan.ladder => 0 <= Dust /\ Dust < Step * Len(plan.rewards)

\* The sizes of an order and of its conditions fit (calculateQuantityFromUSDT,
\* placeTPSLOrders in api/order.go).
SizesFit == OpeningFits /\ LadderFits

\* A trailing stop only moves in the position's favour.
TrailingNeverLoosens ==
  [][(status[TS] = "ACTIVE" /\ extreme # 0) => Favours(extreme', extreme)]_vars

\* A reduce order reduces or closes: the position is never turned round.
NeverReverses == pos >= 0
=============================================================================
