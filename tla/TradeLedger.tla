----------------------------- MODULE TradeLedger -----------------------------
(***************************************************************************)
(* The trade table (api/db.go) and its two writers: the goroutine that     *)
(* records an order after it was placed (persistTradeRecordAsync in        *)
(* api/ws_order.go) and the user data stream (api/user_stream.go), which   *)
(* brings the table and the day's profit up to date with every fill the    *)
(* exchange reports.  Neither locks the table; order_id is not unique.     *)
(*                                                                         *)
(* One symbol and side.  An order is an "open" one, a "counter" one placed *)
(* the same way that closes (a grid's sell), or a "reduce" one, which      *)
(* nobody records.  It fills in one or two steps or is cancelled after the *)
(* first; every fill that closes realizes a profit of 1.                   *)
(***************************************************************************)
EXTENDS Integers, FiniteSets, Sequences, Functions

CONSTANTS
    MaxOrder,       \* bound: orders
    MaxFault        \* bound: failed statements and lost connections

BoundAssumption == MaxOrder \in Nat /\ MaxFault \in Nat

Order == 1 .. MaxOrder

VARIABLES
    kind,           \* of each order placed so far
    fills,          \* fill steps done by each order
    over,           \* orders that are filled or cancelled
    pos,            \* position at the exchange, in fills
    up,             \* the stream is connected
    events,         \* its events on the way
    recs,           \* the table, by primary key
    saver,          \* the goroutine of each order
    stream,         \* the handler: where it is, its event and its copy
    daily,          \* profit given to risk control
    faults

vars == <<kind, fills, over, pos, up, events, recs, saver, stream, daily, faults>>

Rec == [order : Order, status : {"OPEN", "CLOSED", "CANCELED"}, pnl : Nat]
Placed == DOMAIN kind

Init == /\ kind = <<>> /\ fills = [o \in Order |-> 0] /\ over = {} /\ pos = 0
        /\ up = TRUE /\ events = <<>> /\ recs = <<>>
        /\ saver = [o \in Order |-> "none"]
        /\ stream = [at |-> "idle"] /\ daily = 0 /\ faults = 0

Fault == faults < MaxFault /\ faults' = faults + 1

\* GetTradeByOrderID: the first record of an order; 0 without one.
Find(o) == LET of == { r \in DOMAIN recs : recs[r].order = o }
           IN  IF of = {} THEN 0 ELSE CHOOSE r \in of : \A q \in of : r <= q

\* The newest record that is open; 0 without one.
LatestOpen == LET open == { r \in DOMAIN recs : recs[r].status = "OPEN" }
              IN  IF open = {} THEN 0 ELSE CHOOSE r \in open : \A q \in open : r >= q

------------------------------------------------------------------------------
(* The exchange.                                                           *)

Report(o, status, pnl) ==
    events' = IF up THEN Append(events, [order |-> o, status |-> status, pnl |-> pnl])
              ELSE events

\* An order fills a step: the last one makes it FILLED.
Fills(o) ==
    /\ o \in Placed \ over
    /\ kind[o] # "open" => pos > 0
    /\ pos' = IF kind[o] = "open" THEN pos + 1 ELSE pos - 1
    /\ fills' = [fills EXCEPT ![o] = @ + 1]
    /\ \/ /\ over' = over \cup {o}
          /\ Report(o, "FILLED", IF kind[o] = "open" THEN 0 ELSE 1)
       \/ /\ fills[o] = 0 /\ UNCHANGED over
          /\ Report(o, "PARTIALLY_FILLED", IF kind[o] = "open" THEN 0 ELSE 1)
    /\ UNCHANGED <<kind, up, recs, saver, stream, daily, faults>>

Cancelled(o) ==
    /\ o \in Placed \ over
    /\ over' = over \cup {o}
    /\ Report(o, "CANCELED", 0)
    /\ UNCHANGED <<kind, fills, pos, up, recs, saver, stream, daily, faults>>

\* The stream breaks: what happens until it is back is not reported later.
StreamBreaks ==
    /\ up /\ Fault
    /\ up' = FALSE
    /\ UNCHANGED <<kind, fills, over, pos, events, recs, saver, stream, daily>>

\* userStreamLoop connects again, for ever.
StreamReturns ==
    /\ ~up /\ up' = TRUE
    /\ UNCHANGED <<kind, fills, over, pos, events, recs, saver, stream, daily, faults>>

------------------------------------------------------------------------------
(* Orders and their records.                                               *)

\* An accepted order: PlaceOrderViaWs starts the goroutine that records it,
\* unless its stop could not be registered; reductions are not recorded.
Place(k) ==
    /\ Len(kind) < MaxOrder
    /\ kind' = Append(kind, k)
    /\ \E to \in {"look", "done"} :
         /\ k = "reduce" => to = "done"
         /\ saver' = [saver EXCEPT ![Len(kind) + 1] = to]
    /\ UNCHANGED <<fills, over, pos, up, events, recs, stream, daily, faults>>

\* mergeTradeRecord: a status that ends a record is kept against OPEN; a
\* profit of 0 does not overwrite one.
Merged(old, new) ==
    [old EXCEPT !.status = IF new.status # "OPEN" \/ old.status = "OPEN"
                           THEN new.status ELSE old.status,
                !.pnl = IF new.pnl # 0 THEN new.pnl ELSE old.pnl]

Fresh(o) == [order |-> o, status |-> "OPEN", pnl |-> 0]

\* SaveTradeRecord looks for the order's record ...
SaverLooks(o) ==
    /\ saver[o] = "look"
    /\ saver' = [saver EXCEPT ![o] = IF Find(o) = 0 THEN "create" ELSE "merge"]
    /\ UNCHANGED <<kind, fills, over, pos, up, events, recs, stream, daily, faults>>

\* A bug the runs must notice: the new record is written over the old one.
SaverOverwrites(o) ==
    /\ saver[o] \in {"create", "merge"}
    /\ \/ /\ recs' = IF saver[o] = "create" THEN Append(recs, Fresh(o))
                     ELSE [recs EXCEPT ![Find(o)] = Fresh(o)]
          /\ UNCHANGED faults
       \/ Fault /\ UNCHANGED recs
    /\ saver' = [saver EXCEPT ![o] = "done"]
    /\ UNCHANGED <<kind, fills, over, pos, up, events, stream, daily>>

\* ... and creates it, or writes the one it found together with its own.  A
\* failure is logged.
SaverWrites(o) ==
    /\ saver[o] \in {"create", "merge"}
    /\ \/ /\ recs' = IF saver[o] = "create" THEN Append(recs, Fresh(o))
                     ELSE [recs EXCEPT ![Find(o)] = Merged(@, Fresh(o))]
          /\ UNCHANGED faults
       \/ Fault /\ UNCHANGED recs
    /\ saver' = [saver EXCEPT ![o] = "done"]
    /\ UNCHANGED <<kind, fills, over, pos, up, events, stream, daily>>

------------------------------------------------------------------------------
(* The stream's handler, one event after the other.                        *)

Idle == [at |-> "idle"]
Closes(ev) == ev.status = "FILLED" /\ (kind[ev.order] = "reduce" \/ ev.pnl # 0)

\* handleOrderUpdate: the order's own record, a closing order without one, or
\* a realized profit for the record that is open.
handleOrderUpdate ==
    /\ stream.at = "idle" /\ events # <<>>
    /\ events' = Tail(events)
    /\ LET ev == Head(events)
           r == Find(ev.order)
           goes(at, row) == [at |-> at, ev |-> ev, row |-> row,
                             copy |-> IF row = 0 THEN Fresh(ev.order) ELSE recs[row]]
       IN  stream' = IF r # 0 THEN goes("update", r)
                     ELSE IF Closes(ev) THEN goes("check", 0)
                     ELSE IF ev.pnl # 0 /\ LatestOpen # 0 THEN goes("add", LatestOpen)
                     ELSE Idle
    /\ UNCHANGED <<kind, fills, over, pos, up, recs, saver, daily, faults>>

\* updateTradeFromOrder: the whole record is written back with the event's
\* profit in place of its own, and CANCELED if the order is.
updateTradeFromOrder ==
    /\ stream.at = "update"
    /\ LET ev == stream.ev
           new == [stream.copy EXCEPT
                     !.pnl = IF ev.pnl # 0 THEN ev.pnl ELSE @,
                     !.status = IF ev.status = "CANCELED" THEN "CANCELED" ELSE @]
       IN  \/ recs' = [recs EXCEPT ![stream.row] = new] /\ UNCHANGED faults
           \/ Fault /\ UNCHANGED recs
    /\ stream' = Idle
    /\ UNCHANGED <<kind, fills, over, pos, up, events, saver, daily>>

\* createCloseTradeRecordFromUpdate: nothing if the order has a record by now,
\* then SaveTradeRecord, which looks once more ...
CloseChecks ==
    /\ stream.at \in {"check", "look"}
    /\ stream' = IF Find(stream.ev.order) = 0
                 THEN [stream EXCEPT !.at = IF @ = "check" THEN "look" ELSE "create"]
                 ELSE IF stream.at = "check" THEN Idle
                 ELSE [stream EXCEPT !.at = "create", !.row = Find(stream.ev.order)]
    /\ UNCHANGED <<kind, fills, over, pos, up, events, recs, saver, daily, faults>>

\* A bug the runs must notice: after a whole position the day is forgotten.
CloseWritesOrMarks ==
    /\ stream.at = "create"
    /\ LET ev == stream.ev
           new == [order |-> ev.order, status |-> "CLOSED", pnl |-> ev.pnl]
       IN  \/ /\ recs' = IF stream.row = 0 THEN Append(recs, new)
                         ELSE [recs EXCEPT ![stream.row] = Merged(@, new)]
              /\ \/ stream' = Idle /\ daily' = daily + ev.pnl
                 \/ stream' = [stream EXCEPT !.at = "latest"] /\ UNCHANGED daily
              /\ UNCHANGED faults
           \/ /\ Fault /\ stream' = Idle /\ UNCHANGED <<recs, daily>>
    /\ UNCHANGED <<kind, fills, over, pos, up, events, saver>>

\* ... and writes.  Only then the profit is the day's; a closing order that
\* takes the whole position also ends the record that is open.
CloseWrites ==
    /\ stream.at = "create"
    /\ LET ev == stream.ev
           new == [order |-> ev.order, status |-> "CLOSED", pnl |-> ev.pnl]
       IN  \/ /\ recs' = IF stream.row = 0 THEN Append(recs, new)
                         ELSE [recs EXCEPT ![stream.row] = Merged(@, new)]
              /\ daily' = daily + ev.pnl
              /\ stream' \in {Idle, [stream EXCEPT !.at = "latest"]}
              /\ UNCHANGED faults
           \/ /\ Fault /\ stream' = Idle /\ UNCHANGED <<recs, daily>>
    /\ UNCHANGED <<kind, fills, over, pos, up, events, saver>>

\* markLatestOpenTradeClosed.
markLatestOpenTradeClosed ==
    /\ stream.at = "latest"
    /\ \/ /\ LatestOpen # 0
          /\ recs' = [recs EXCEPT ![LatestOpen].status = "CLOSED"]
          /\ UNCHANGED faults
       \/ LatestOpen = 0 /\ UNCHANGED <<recs, faults>>
       \/ Fault /\ UNCHANGED recs
    /\ stream' = Idle
    /\ UNCHANGED <<kind, fills, over, pos, up, events, saver, daily>>

\* updateOpenTradeWithPnl: the profit is added to the copy, which is closed
\* when the exchange shows no position (or stays open when it does not
\* answer), and written back; the day gets it even if that fails.
updateOpenTradeWithPnl ==
    /\ stream.at = "add"
    /\ LET ev == stream.ev
       IN  /\ \E ends \in {FALSE, pos = 0} :
                \/ /\ recs' = [recs EXCEPT ![stream.row] =
                                 [stream.copy EXCEPT !.pnl = @ + ev.pnl,
                                    !.status = IF ends THEN "CLOSED" ELSE @]]
                   /\ UNCHANGED faults
                \/ Fault /\ UNCHANGED recs
           /\ daily' = daily + ev.pnl
    /\ stream' = Idle
    /\ UNCHANGED <<kind, fills, over, pos, up, events, saver>>

Next == \/ \E k \in {"open", "counter", "reduce"} : Place(k)
        \/ \E o \in Order : Fills(o) \/ Cancelled(o) \/ SaverLooks(o) \/ SaverWrites(o)
        \/ StreamBreaks \/ StreamReturns
        \/ handleOrderUpdate \/ updateTradeFromOrder \/ CloseChecks \/ CloseWrites
        \/ markLatestOpenTradeClosed \/ updateOpenTradeWithPnl

Spec == Init /\ [][Next]_vars

------------------------------------------------------------------------------
\* The tables hold what the writers can put there.
TypeOK == /\ recs \in Seq(Rec) /\ daily \in Nat /\ pos \in Nat
          /\ over \subseteq Placed /\ faults \in 0 .. MaxFault
          /\ \A o \in Order : saver[o] \in {"none", "look", "create", "merge", "done"}
          /\ stream.at \in {"idle", "update", "check", "look", "create", "latest", "add"}

\* A record that ended does not open again (不允许被重复写入回滚终态): the
\* goroutine that is late with its OPEN finds what the stream has closed.
EndedStaysEnded ==
    [][\A r \in DOMAIN recs : recs[r].status # "OPEN" => recs'[r].status # "OPEN"]_recs

TableProfit == SumFunction([r \in DOMAIN recs |-> recs[r].pnl])

\* As long as only reductions close, the day's profit that risk control acts
\* on is the table's: failed writes, partial fills and lost events leave out
\* both or neither.  (With counter orders it is not: a fill that finds the
\* order's record changes the table only.  And a failed write of a partial
\* fill reaches the day only.)
DayMatchesTable ==
    (\A o \in Placed : kind[o] # "counter") /\ stream.at \in {"idle", "latest"}
    => TableProfit <= daily /\ (faults = 0 => TableProfit = daily)

\* What createCloseTradeRecordFromUpdate is documented to keep (同 orderId
\* 仅保留一条记录): one record per order.  The code does not: both writers look
\* before either writes.
OneRecordPerOrder == \A r, q \in DOMAIN recs : recs[r].order = recs[q].order => r = q
==============================================================================
