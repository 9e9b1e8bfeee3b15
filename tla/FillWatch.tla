------------------------------ MODULE FillWatch ------------------------------
(***************************************************************************)
(* A call that reduces, closes or reverses a position (ReducePositionViaWs,*)
(* ClosePositionViaWs, reduceOrderViaWs of api/ws_order.go; ReversePosition*)
(* of api/order.go) and the goroutine that sees to it that its order is    *)
(* filled (ensureOrderFilled).  Around them: the exchange, which fills     *)
(* limit orders in parts and when it likes, and the user.                  *)
(*                                                                         *)
(* The account is in one-way mode and holds a long position; quantities    *)
(* are units of QtyRules, traded in multiples of Step.  The watcher        *)
(* cancels before it re-places, so the request never has two live orders   *)
(* and `order` is the last one.                                            *)
(***************************************************************************)
EXTENDS QtyRules, Integers

CONSTANTS
  Held,       \* sizes of the position at the start
  Percents,   \* percentages a reduction may ask for
  Amounts,    \* quantities a reduction, or the opening half of a reversal, may ask for
  MaxRetries, \* maxRetries, 3 at both call sites
  MaxError,   \* bound: requests to the exchange that fail
  MaxManual   \* bound: what the user does by hand

HeldAssumption    == \A h \in Held : h \in Nat \ {0} /\ h % Step = 0
RequestAssumption == Percents \subseteq 1 .. 100 /\ Amounts \subseteq Nat \ {0}
WatchAssumption   == MaxRetries \in Nat
BoundAssumption   == MaxError \in Nat /\ MaxManual \in Nat

VARIABLES
  req,      \* the call
  seen,     \* the position it found
  qty,      \* the quantity it asks to reduce
  pos,      \* position on the exchange
  order,    \* the last order of the request: status, what is left, reduce-only
  step,     \* the caller, then the watcher
  attempt,
  opened,   \* the reverse order was executed
  sold,     \* history: quantity this request's orders executed
  errors, manuals

vars == <<req, seen, qty, pos, order, step, attempt, opened, sold, errors, manuals>>

\* The quantity as a number, as a percentage, everything, or everything and
\* then open units the other way; executeClose (api/hyper_follow.go) ends
\* the context of its call as it returns.
Requests ==
  [kind : {"quantity"}, n : Amounts, ends : {FALSE}]
    \cup [kind : {"percent"}, n : Percents, ends : {FALSE}]
    \cup [kind : {"close"}, n : {0}, ends : BOOLEAN]
    \cup [kind : {"reverse"}, n : Amounts, ends : {FALSE}]

Steps    == {"find", "send", "sleep", "cancel", "place", "done"}
Live     == order.status \in {"NEW", "PARTIALLY_FILLED"}
Statuses == {"none", "NEW", "PARTIALLY_FILLED", "FILLED", "CANCELED", "EXPIRED"}
NoOrder  == [status |-> "none", left |-> 0, ro |-> TRUE]

Fails  == errors < MaxError /\ errors' = errors + 1
Least(a, b) == IF a < b THEN a ELSE b

\* The order of the first try, or a later one, rests on the book.
Resting(ro) == [status |-> "NEW", left |-> qty, ro |-> ro]

(***************************************************************************)
(* Bugs the runs must notice.                                              *)
(***************************************************************************)
\* The last try compared with > instead of >=.
LastTryLate == attempt > MaxRetries

\* A later order without reduceOnly.
ReplacementPlain == Resting(FALSE)

\* A query that takes a partial fill for a final state.
UnfilledOnlyNew == order.status = "NEW"

(***************************************************************************)
(* The call: the position, the quantity, the order.                        *)
(***************************************************************************)
Asked(held) ==
  CASE req.kind = "quantity"           -> Formatted(RoundToStep(req.n, 1))
    [] req.kind = "percent"            -> Share(held, req.n)
    [] req.kind \in {"close", "reverse"} -> Formatted(RoundToStep(held, 1))

Find ==
  /\ step = "find"
  /\ IF pos > 0 THEN /\ seen' = pos
                     /\ qty' = Asked(pos)
                     /\ step' = "send"
                ELSE step' = "done" /\ UNCHANGED <<seen, qty>>
  /\ UNCHANGED <<req, pos, order, attempt, opened, sold, errors, manuals>>

\* The WebSocket order lacks reduceOnly, the REST one has it.
Send(ro) ==
  /\ step = "send" /\ qty > 0 /\ (ro => pos > 0)
  /\ order' = Resting(ro)
  /\ step' = "sleep"
  /\ UNCHANGED <<req, seen, qty, pos, attempt, opened, sold, errors, manuals>>

\* A quantity that rounds to nothing, a reduce-only order without a position,
\* or no connection: the caller gets an error.
Refuse ==
  /\ step = "send"
  /\ \/ (qty = 0 \/ pos <= 0) /\ UNCHANGED errors
     \/ Fails
  /\ step' = "done"
  /\ UNCHANGED <<req, seen, qty, pos, order, attempt, opened, sold, manuals>>

\* The second half of ReversePosition, at market, as soon as the closing
\* order was accepted.
OpenReverse ==
  /\ req.kind = "reverse" /\ order # NoOrder /\ ~opened
  /\ opened' = TRUE
  /\ pos' = pos - req.n
  /\ UNCHANGED <<req, seen, qty, order, step, attempt, sold, errors, manuals>>

(***************************************************************************)
(* The watcher: every five seconds query, cancel, re-place; at the last    *)
(* attempt a market order.  Any error ends it.                             *)
(***************************************************************************)
Unfilled == order.status \in {"NEW", "PARTIALLY_FILLED"}

Query ==
  /\ step = "sleep" /\ ~req.ends
  /\ step' = IF Unfilled THEN "cancel" ELSE "done"
  /\ UNCHANGED <<req, seen, qty, pos, order, attempt, opened, sold, errors, manuals>>

\* The query fails: the network, or the caller's context is gone.
QueryFails ==
  /\ step = "sleep"
  /\ \/ req.ends /\ UNCHANGED errors
     \/ Fails
  /\ step' = "done"
  /\ UNCHANGED <<req, seen, qty, pos, order, attempt, opened, sold, manuals>>

Cancel ==
  /\ step = "cancel"
  /\ IF Live THEN /\ order' = [order EXCEPT !.status = "CANCELED"]
                  /\ step' = "place"
             ELSE step' = "done" /\ UNCHANGED order
  /\ UNCHANGED <<req, seen, qty, pos, attempt, opened, sold, errors, manuals>>

\* A request that fails may still have reached the exchange.
CancelFails ==
  /\ step = "cancel"
  /\ Fails
  /\ \/ Live /\ order' = [order EXCEPT !.status = "CANCELED"]
     \/ UNCHANGED order
  /\ step' = "done"
  /\ UNCHANGED <<req, seen, qty, pos, attempt, opened, sold, manuals>>

LastTry == attempt >= MaxRetries

\* The whole quantity again, reduce-only; refused when nothing is left.
Replacement == Resting(TRUE)

Replace ==
  /\ step = "place" /\ ~LastTry
  /\ attempt' = attempt + 1
  /\ \/ /\ pos > 0
        /\ order' = Replacement
        /\ step' = IF attempt < MaxRetries THEN "sleep" ELSE "done"
     \/ pos <= 0 /\ step' = "done" /\ UNCHANGED order
  /\ UNCHANGED <<req, seen, qty, pos, opened, sold, errors, manuals>>

PlaceMarket ==
  /\ step = "place" /\ LastTry
  /\ LET q == IF pos > 0 THEN Least(qty, pos) ELSE 0 IN
     /\ pos' = pos - q
     /\ sold' = sold + q
     /\ order' = IF q > 0 THEN [order EXCEPT !.status = "FILLED", !.left = 0]
                          ELSE order
  /\ step' = "done"
  /\ UNCHANGED <<req, seen, qty, attempt, opened, errors, manuals>>

\* The price, or the order, fails.
PlaceFails ==
  /\ step = "place"
  /\ Fails
  /\ \/ pos > 0 /\ ~LastTry /\ order' = Replacement
     \/ UNCHANGED order
  /\ step' = "done"
  /\ UNCHANGED <<req, seen, qty, pos, attempt, opened, sold, manuals>>

(***************************************************************************)
(* The exchange and the user.                                              *)
(***************************************************************************)
Fill(q) ==
  /\ Live /\ q <= order.left
  /\ order.ro => q <= pos
  /\ order' = [order EXCEPT !.left = @ - q,
                 !.status = IF q = order.left THEN "FILLED" ELSE "PARTIALLY_FILLED"]
  /\ pos' = pos - q
  /\ sold' = sold + q
  /\ UNCHANGED <<req, seen, qty, step, attempt, opened, errors, manuals>>

\* A reduce-only order without a position expires.
Expire ==
  /\ Live /\ order.ro /\ pos <= 0
  /\ order' = [order EXCEPT !.status = "EXPIRED"]
  /\ UNCHANGED <<req, seen, qty, pos, step, attempt, opened, sold, errors, manuals>>

ByHand ==
  /\ manuals < MaxManual /\ manuals' = manuals + 1
  /\ \/ pos > 0 /\ (\E k \in 1 .. pos \div Step : pos' = pos - k * Step) /\ UNCHANGED order
     \/ Live /\ order' = [order EXCEPT !.status = "CANCELED"] /\ UNCHANGED pos
  /\ UNCHANGED <<req, seen, qty, step, attempt, opened, sold, errors>>

-----------------------------------------------------------------------------
Init ==
  /\ req \in Requests
  /\ pos \in Held /\ seen = 0 /\ qty = 0
  /\ order = NoOrder
  /\ step = "find" /\ attempt = 0
  /\ opened = FALSE /\ sold = 0
  /\ errors = 0 /\ manuals = 0

Placing == Find \/ (\E ro \in BOOLEAN : Send(ro)) \/ Refuse

Watch == Query \/ QueryFails \/ Cancel \/ CancelFails \/ Replace \/ PlaceMarket
           \/ PlaceFails

Next ==
  \/ Placing \/ OpenReverse \/ Watch
  \/ \E k \in 1 .. order.left \div Step : Fill(k * Step)
  \/ Expire \/ ByHand

Spec == Init /\ [][Next]_vars

\* The call is made and its goroutines run; nobody has to fill an order.
FairSpec == Spec /\ WF_vars(Placing) /\ WF_vars(Watch)

-----------------------------------------------------------------------------
(***************************************************************************)
(* Properties                                                              *)
(***************************************************************************)
TypeOK ==
  /\ req \in Requests /\ seen \in Nat /\ qty \in Nat
  /\ pos \in Int
  /\ order \in [status : Statuses, left : 0 .. qty, ro : BOOLEAN]
  /\ step \in Steps /\ attempt \in 0 .. MaxRetries
  /\ opened \in BOOLEAN /\ sold \in Nat
  /\ errors \in Nat /\ manuals \in Nat
  /\ order.status = "FILLED" => order.left = 0

\* A share of the position is rounded by less than a step and never up; a
\* close, or 100 percent, is the whole position.
ReductionFits ==
  (step # "find" /\ seen > 0) =>
    /\ req.kind = "percent" =>
         /\ 100 * qty <= req.n * seen
         /\ req.n * seen < 100 * (qty + Step)
    /\ (req.kind = "close" \/ (req.kind = "percent" /\ req.n = 100)) => qty = seen

\* The watcher leaves no order on the book that it could have seen to: an
\* order is abandoned only after a request, or the caller's context, failed.
AbandonedOnlyAfterError == (step = "done" /\ Live) => errors > 0 \/ req.ends

\* However the fills, the cancellations and the orders that replace each
\* other interleave, they do not carry the position past zero.
NeverTurnedRound ==
  (manuals = 0 /\ ~opened /\ qty <= seen) => pos >= 0

\* Requests that fail, hands on the exchange and reversals apart, the call
\* sells the whole quantity although nobody has to trade against a limit order.
Disturbed ==
  errors > 0 \/ manuals > 0 \/ req.ends \/ req.kind = "reverse" \/ qty > seen
ReductionCompletes == <>(Disturbed \/ (seen > 0 /\ sold >= qty))

\* "Quantity to reduce" (or the percentage asked for): a request sells no more.
ReducesWhatWasAsked == sold <= qty

\* "Reverse: close the position, then open the opposite one": when all is
\* done the position has the new side and size.
ReversedInTheEnd ==
  (step = "done" /\ opened /\ ~Live /\ errors = 0 /\ manuals = 0) => pos = 0 - req.n
=============================================================================
