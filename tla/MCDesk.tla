-------------------------------- MODULE MCDesk -------------------------------
(* What becomes of an order, seen from five sides: its quantity and the     *)
(* group of conditions that covers it, the account the paper engine keeps,  *)
(* the WebSocket channel and its REST fallback, the watcher that sees a     *)
(* reduction filled, and the trade table.  The five share no state, so a    *)
(* run begins with one of them and only that one moves.                     *)
(*                                                                          *)
(* The orders of the group: a single take profit over an odd number of      *)
(* steps, the same with the least quantity, of which there is no half, a    *)
(* ladder that does not divide evenly, a ladder with levels of less than a  *)
(* step, and an order too small to be sent.                                 *)
EXTENDS TPSLGroup, FiniteSets, TLC

CONSTANTS
  Symbol, Caller, Price, Qty, Leverage, Initial, Scale, FeeUnit,
  MaxTrade, MaxReset,                               \* of PaperEngine
  Call, MaxClient, MaxBreak, MaxReject, MaxLogonFail, \* of WsOrders
  Held, Percents, Amounts, MaxRetries, MaxError,    \* of FillWatch
  MaxOrder, MaxFault                                \* of TradeLedger

VARIABLES sel, paper_balance, paper_pos, paper_pc, paper_work, paper_trades,
    paper_result, paper_resets, ws_slot, ws_rc, ws_due, ws_booted, ws_made,
    ws_up, ws_reading, ws_stopped, ws_pending, ws_pc, ws_via, ws_wire,
    ws_answer, ws_chan, ws_placed, ws_breaks, ws_rejects, ws_logonFails,
    watch_req, watch_seen, watch_qty, watch_pos, watch_order, watch_step,
    watch_attempt, watch_opened, watch_sold, watch_errors, watch_manuals,
    ledger_kind, ledger_fills, ledger_over, ledger_pos, ledger_up,
    ledger_events, ledger_recs, ledger_saver, ledger_stream, ledger_daily,
    ledger_faults

paperVars == <<paper_balance, paper_pos, paper_pc, paper_work, paper_trades,
    paper_result, paper_resets>>
wsVars == <<ws_slot, ws_rc, ws_due, ws_booted, ws_made, ws_up, ws_reading,
    ws_stopped, ws_pending, ws_pc, ws_via, ws_wire, ws_answer, ws_chan,
    ws_placed, ws_breaks, ws_rejects, ws_logonFails>>
watchVars == <<watch_req, watch_seen, watch_qty, watch_pos, watch_order,
    watch_step, watch_attempt, watch_opened, watch_sold, watch_errors,
    watch_manuals>>
ledgerVars == <<ledger_kind, ledger_fills, ledger_over, ledger_pos, ledger_up,
    ledger_events, ledger_recs, ledger_saver, ledger_stream, ledger_daily,
    ledger_faults>>

Paper == INSTANCE PaperEngine WITH
      balance <- paper_balance, pos <- paper_pos, pc <- paper_pc,
      work <- paper_work, trades <- paper_trades, result <- paper_result,
      resets <- paper_resets
Ws == INSTANCE WsOrders WITH slot <- ws_slot,
      rc <- ws_rc, due <- ws_due, booted <- ws_booted, made <- ws_made,
      up <- ws_up, reading <- ws_reading, stopped <- ws_stopped,
      pending <- ws_pending, pc <- ws_pc, via <- ws_via, wire <- ws_wire,
      answer <- ws_answer, chan <- ws_chan, placed <- ws_placed,
      breaks <- ws_breaks, rejects <- ws_rejects, logonFails <- ws_logonFails
Watcher == INSTANCE FillWatch WITH req <- watch_req, seen <- watch_seen,
      qty <- watch_qty, pos <- watch_pos, order <- watch_order,
      step <- watch_step, attempt <- watch_attempt, opened <- watch_opened,
      sold <- watch_sold, errors <- watch_errors, manuals <- watch_manuals
Ledger == INSTANCE TradeLedger WITH
      kind <- ledger_kind, fills <- ledger_fills, over <- ledger_over,
      pos <- ledger_pos, up <- ledger_up, events <- ledger_events,
      recs <- ledger_recs, saver <- ledger_saver, stream <- ledger_stream,
      daily <- ledger_daily, faults <- ledger_faults

ASSUME PaperAssumption ==
  Paper!SetAssumption /\ Paper!MoneyAssumption /\ Paper!BoundAssumption
ASSUME WsAssumption == Ws!CallAssumption /\ Ws!BoundAssumption
ASSUME WatcherAssumption ==
  /\ Held # {} /\ Watcher!HeldAssumption /\ Watcher!RequestAssumption
  /\ Watcher!WatchAssumption /\ Watcher!BoundAssumption
ASSUME LedgerAssumption == Ledger!BoundAssumption

Single(u, h)    == [usdt |-> u, leverage |-> 5, rewards |-> <<2>>,
                    percents |-> <<100>>, ladder |-> FALSE, hedge |-> h]
Ladder(u, s, h) == [usdt |-> u, leverage |-> 5, rewards |-> SubSeq(<<1, 2, 3>>, 1, Len(s)),
                    percents |-> s, ladder |-> TRUE, hedge |-> h]
Orders5 == {Single(71, FALSE), Single(10, TRUE), Ladder(100, <<33, 33, 34>>, TRUE),
            Ladder(30, <<33, 67>>, FALSE), Single(8, FALSE)}
Market == {960, 980, 1000, 1020, 1040, 1060}

all == <<sel, vars, paperVars, wsVars, watchVars, ledgerVars>>

\* One component moves, whichever the run begins with; the others stay in
\* their first state.
AllInit ==
  /\ sel \in {"group", "paper", "ws", "watch", "ledger"}
  /\ Init /\ Paper!Init /\ Ws!Init /\ Watcher!Init /\ Ledger!Init
  /\ sel # "group" => long /\ plan = CHOOSE o \in Orders : OpenQuantity(o) > 0
  /\ sel # "watch" => /\ watch_pos = CHOOSE h \in Held : TRUE
                      /\ watch_req = [kind |-> "close", n |-> 0, ends |-> FALSE]

AllNext ==
  \/ sel = "group" /\ Next
     /\ UNCHANGED <<sel, paperVars, wsVars, watchVars, ledgerVars>>
  \/ sel = "paper" /\ Paper!Next
     /\ UNCHANGED <<sel, vars, wsVars, watchVars, ledgerVars>>
  \/ sel = "ws" /\ Ws!Next
     /\ UNCHANGED <<sel, vars, paperVars, watchVars, ledgerVars>>
  \/ sel = "watch" /\ Watcher!Next
     /\ UNCHANGED <<sel, vars, paperVars, wsVars, ledgerVars>>
  \/ sel = "ledger" /\ Ledger!Next
     /\ UNCHANGED <<sel, vars, paperVars, wsVars, watchVars>>

\* The fairness each component states for itself.
Fairness ==
  /\ \A c \in Call : WF_wsVars(sel = "ws" /\ Ws!CallStep(c))
  /\ \A n \in Ws!Client : /\ WF_wsVars(sel = "ws" /\ Ws!ReadLoopEnds(n))
                          /\ WF_wsVars(sel = "ws" /\ Ws!StartReconnect(n))
  /\ WF_wsVars(sel = "ws" /\ Ws!Reconnect)
  /\ WF_watchVars(sel = "watch" /\ Watcher!Placing)
  /\ WF_watchVars(sel = "watch" /\ Watcher!Watch)

AllSpec == AllInit /\ [][AllNext]_all /\ Fairness

-------------------------------------------------------------------------------
\* The shape of each component's state.
TypesOK == TypeOK /\ Paper!TypeOK /\ Ws!TypeOK /\ Watcher!TypeOK /\ Ledger!TypeOK

\* The simulated account adds up: balance and margins are the initial amount,
\* plus the profits, less the fees (api/paper_trading.go).
AccountBalances == Paper!AccountBalances

\* What a caller is told about its order is what happened, no channel keeps a
\* call that nobody waits for, and reconnections do not pile up
\* (api/ws_order.go, api/client.go, websocket/ws.go).
CallsAreTrue == Ws!ReportsAreTrue /\ Ws!PendingCallsWait /\ Ws!OneConnection

\* Quantities fit: the sizes of an order and its conditions (api/order.go), and
\* a reduction, which is the share it was asked for; neither its fills nor the
\* orders that replace each other carry the position past zero
\* (ensureOrderFilled in api/order.go).
QuantitiesFit == SizesFit /\ Watcher!ReductionFits /\ Watcher!NeverTurnedRound

\* Every call over the WebSocket returns, and every reduction that nothing
\* disturbs is sold to the end; the watcher leaves an order on the book only
\* after a request or its context failed.
OrdersFinish ==
  /\ [](Watcher!AbandonedOnlyAfterError)
  /\ sel = "ws" => Ws!CallsReturn
  /\ sel = "watch" => Watcher!ReductionCompletes

\* As long as only reductions close, the day's profit that risk control acts on
\* is the table's (api/user_stream.go).
DayMatchesTable == Ledger!DayMatchesTable

\* A record that ended is not opened again by the goroutine that is late with
\* its own record (api/ws_order.go).
EndedStaysEnded == Ledger!EndedStaysEnded
===============================================================================
