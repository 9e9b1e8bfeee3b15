----------------------------- MODULE PaperEngine -----------------------------
(***************************************************************************)
(* The simulated exchange of the dry-run mode (api/paper_trading.go): a    *)
(* balance, one position per symbol, and trades matched at the cached      *)
(* price.  Callers (HTTP handlers, strategies, the local monitor) run      *)
(* concurrently; each function holds paperEngine.mu, except that opening   *)
(* against an opposite position releases it to close that position first.  *)
(*                                                                         *)
(* Money is counted in 1/Scale USDT and a position keeps its notional,     *)
(* EntryPrice * Quantity, so that averages and margins stay whole numbers. *)
(***************************************************************************)
EXTENDS Integers, FiniteSets, Functions

CONSTANTS
  Symbol, Caller,
  Price, Qty, Leverage,  \* the cached prices, order sizes and leverages
  Initial,               \* the virtual balance at the start, in USDT
  Scale,                 \* units per USDT
  FeeUnit,               \* fee of a trade of quantity 1 at price 1, in units
  MaxTrade,              \* bound: trades
  MaxReset               \* bound: resets of the account

SetAssumption   == /\ Price \cup Qty \cup Leverage \subseteq Nat \ {0}
                   /\ IsFiniteSet(Symbol)
MoneyAssumption == Initial \in Nat /\ Scale \in Nat \ {0} /\ FeeUnit \in Nat
BoundAssumption == MaxTrade \in Nat /\ MaxReset \in Nat

Sides  == {"LONG", "SHORT"}
NoPos  == [side |-> "none", qty |-> 0, notional |-> 0, leverage |-> 1]
NoWork == [symbol |-> "none"]

VARIABLES
  balance,   \* available balance
  pos,       \* positions[s], or NoPos
  pc, work,  \* callers: where each is in an order that reverses, and its order
  trades,    \* number of trades recorded
  result,    \* history: profits of all trades less the fees of the openings
  resets

vars == <<balance, pos, pc, work, trades, result, resets>>

Fee(p, q)    == p * q * FeeUnit
Value(p, q)  == p * q * Scale
HasPos(s)    == pos[s].side # "none"
Opposite(x)  == CHOOSE y \in Sides : y # x

\* Margin of quantity q out of position x: EntryPrice * q / Leverage.
MarginOf(x, q) == (x.notional * q) \div (x.qty * x.leverage)
Cost(o) == Value(o.price, o.qty) \div o.leverage + Fee(o.price, o.qty)

Gain(x, p, q) ==
  IF x.side = "LONG" THEN Value(p, q) - (x.notional * q) \div x.qty
                     ELSE (x.notional * q) \div x.qty - Value(p, q)

Opened(o) == [side |-> o.side, qty |-> o.qty, notional |-> Value(o.price, o.qty),
              leverage |-> o.leverage]
Merged(x, o) == [x EXCEPT !.qty = @ + o.qty,
                          !.notional = @ + Value(o.price, o.qty),
                          !.leverage = o.leverage]

(***************************************************************************)
(* Bugs the runs must notice.                                              *)
(***************************************************************************)
\* A partial close that leaves the notional of the opening.
ReducedQtyOnly(x, q) == [x EXCEPT !.qty = @ - q]

\* A full close that keeps the position, with quantity 0.
LeftEmpty(x, q) == ReducedQtyOnly(x, q)

(***************************************************************************)
(* PaperReducePosition; quantity 0 and more than is held mean everything.  *)
(***************************************************************************)
Reduced(x, q) ==
  [x EXCEPT !.qty = @ - q, !.notional = @ - (@ * q) \div x.qty]

Left(x, q) == IF q = x.qty THEN NoPos ELSE Reduced(x, q)

Closes(s, side) == HasPos(s) /\ pos[s].side = side

ReduceAt(s, q0, p) ==
  LET x   == pos[s]
      q   == IF q0 = 0 \/ q0 >= x.qty THEN x.qty ELSE q0
      pnl == Gain(x, p, q) - Fee(p, q)
  IN  /\ trades < MaxTrade /\ trades' = trades + 1
      /\ balance' = balance + MarginOf(x, q) + pnl
      /\ pos' = [pos EXCEPT ![s] = Left(x, q)]
      /\ result' = result + pnl

Reduce(t, s, side, q, p) ==
  /\ pc[t] = "idle"
  /\ Closes(s, side)
  /\ ReduceAt(s, q, p)
  /\ UNCHANGED <<pc, work, resets>>

(***************************************************************************)
(* PaperPlaceOrder.                                                        *)
(***************************************************************************)
Pay(o) ==
  /\ trades < MaxTrade /\ trades' = trades + 1
  /\ balance' = balance - Cost(o)
  /\ result' = result - Fee(o.price, o.qty)

\* No position, or one of the same side, which is merged at the average price
\* and takes the new order's leverage.
Open(t, o) ==
  /\ pc[t] = "idle"
  /\ balance >= Cost(o)
  /\ HasPos(o.symbol) => pos[o.symbol].side = o.side
  /\ Pay(o)
  /\ pos' = [pos EXCEPT ![o.symbol] = IF HasPos(o.symbol) THEN Merged(@, o)
                                                        ELSE Opened(o)]
  /\ UNCHANGED <<pc, work, resets>>

\* An opposite position: the lock is released and the old position closed ...
StartReverse(t, o) ==
  /\ pc[t] = "idle"
  /\ balance >= Cost(o)
  /\ Closes(o.symbol, Opposite(o.side))
  /\ pc' = [pc EXCEPT ![t] = "close"]
  /\ work' = [work EXCEPT ![t] = [o EXCEPT !.old = pos[o.symbol].qty]]
  /\ UNCHANGED <<balance, pos, trades, result, resets>>

\* ... by a call that takes the lock again.  The old position's fields are
\* read without the lock: its quantity may be what it was or what it is now.
CloseOpposite(t) ==
  LET o == work[t] IN
  /\ pc[t] = "close"
  /\ IF Closes(o.symbol, Opposite(o.side))
     THEN /\ \E q \in {o.old, pos[o.symbol].qty} : ReduceAt(o.symbol, q, o.price)
          /\ pc' = [pc EXCEPT ![t] = "reopen"]
          /\ UNCHANGED work
     ELSE /\ pc' = [pc EXCEPT ![t] = "idle"]
          /\ work' = [work EXCEPT ![t] = NoWork]
          /\ UNCHANGED <<balance, pos, trades, result>>
  /\ UNCHANGED resets

\* The new position is stored over whatever is there now, and paid for from
\* whatever the balance is now.
Reopen(t) ==
  LET o == work[t] IN
  /\ pc[t] = "reopen"
  /\ Pay(o)
  /\ pos' = [pos EXCEPT ![o.symbol] = Opened(o)]
  /\ pc' = [pc EXCEPT ![t] = "idle"]
  /\ work' = [work EXCEPT ![t] = NoWork]
  /\ UNCHANGED resets

ResetPaper ==
  /\ resets < MaxReset /\ resets' = resets + 1
  /\ balance' = Initial * Scale
  /\ pos' = [s \in Symbol |-> NoPos]
  /\ trades' = 0
  /\ result' = 0
  /\ UNCHANGED <<pc, work>>

-----------------------------------------------------------------------------
Init ==
  /\ balance = Initial * Scale
  /\ pos = [s \in Symbol |-> NoPos]
  /\ pc = [t \in Caller |-> "idle"]
  /\ work = [t \in Caller |-> NoWork]
  /\ trades = 0 /\ result = 0 /\ resets = 0

Order == [symbol : Symbol, side : Sides, qty : Qty, price : Price,
          leverage : Leverage, old : {0}]

Next ==
  \/ \E t \in Caller :
       \/ \E o \in Order : Open(t, o) \/ StartReverse(t, o)
       \/ \E s \in Symbol, x \in Sides, q \in Qty \cup {0}, p \in Price :
            Reduce(t, s, x, q, p)
       \/ CloseOpposite(t) \/ Reopen(t)
  \/ ResetPaper

Spec == Init /\ [][Next]_vars

-----------------------------------------------------------------------------
(***************************************************************************)
(* Properties                                                              *)
(***************************************************************************)
TypeOK ==
  /\ balance \in Int /\ result \in Int /\ trades \in Nat /\ resets \in Nat
  /\ \A s \in Symbol :
       \/ pos[s] = NoPos
       \/ /\ pos[s].side \in Sides
          /\ pos[s].qty \in Nat \ {0} /\ pos[s].notional \in Nat \ {0}
          /\ pos[s].leverage \in Leverage
  /\ pc \in [Caller -> {"idle", "close", "reopen"}]

\* What is held as margin of all positions, at the present leverages.
MarginOn(s) == IF HasPos(s) THEN MarginOf(pos[s], pos[s].qty) ELSE 0
Margins == SumFunctionOnSet([s \in Symbol |-> MarginOn(s)], Symbol)

\* No money appears or vanishes: the balance and the margins are the initial
\* balance and the profits and fees of the recorded trades.
AccountBalances == balance + Margins = Initial * Scale + result

\* "Opposite position: ... return an error, require a manual close first": an
\* order against an opposite position has no effect.
OppositeIsRefused ==
  [][\A t \in Caller : ~(pc[t] = "idle" /\ pc'[t] = "close")]_vars
=============================================================================
