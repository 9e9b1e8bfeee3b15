------------------------------- MODULE MCSafety ------------------------------
(* Components of which only safety is asked here.  Strategies that decide   *)
(* by themselves: the two signal strategies, the scalper, and the four that *)
(* trade on an event (news, liquidations, funding, linked strategies).      *)
(* What the server keeps for its browsers: the rooms of the price proxy,    *)
(* the liquidation statistics and the news.  They share no state, so a run  *)
(* begins with one of them and only that one moves.                         *)
EXTENDS Signals, TLC

CONSTANTS
  MaxTask, MaxDailyTrades, LossLimit, RsiHigh, RsiLow, Rsi, MaxHeld,
  MaxTrouble,                                       \* of Scalp
  Pair, Tab, MaxRoom, MaxStop,                      \* of PriceRooms
  Viewer, MaxHour, DayHours, Retention, PruneEvery, MaxEvent, MaxChan,
  MaxTimer, MaxSave, MaxFail,                       \* of LiquidationStats
  Source, Keep, Shows, MaxItem, MaxSet, MaxCrash,   \* of NewsHub
  Cause, Given, Cool, HourLength, Window, MaxTime, MaxTrig,
  MaxLoad,                                          \* of Triggers
  Alert, AlertCool, LastTime, MaxNotify, MaxTrade   \* of Monitors

VARIABLES sel, scalp_current, scalp_running, scalp_task, scalp_held,
    scalp_guarded, scalp_failed, room_table, room_topic, room_clients,
    room_running, room_closes, room_stream, room_pc, room_cur, room_held,
    room_timer, liq_clock, liq_hours, liq_days, liq_version, liq_coll,
    liq_closed, liq_clients, liq_hubC, liq_timers, liq_made, liq_loop,
    liq_saves, liq_row, liq_fails, news_published, news_pc, news_answered,
    news_latest, news_data, news_kick, news_asked, news_redis, news_sets,
    news_seen, news_crashes, trig_strat, trig_active, trig_cur, trig_loop,
    trig_tick, trig_now, trig_last, trig_map, trig_todo, trig_view, trig_hand,
    trig_there, trig_bursts, trig_bare, trig_trig, trig_given,
    mon_kind, mon_active, mon_cur, mon_told, mon_pc, mon_listens, mon_cfg,
    mon_hand, mon_at, mon_quota, mon_shown, mon_last, mon_sent, mon_trades,
    mon_now

scalpVars == <<scalp_current, scalp_running, scalp_task, scalp_held,
    scalp_guarded, scalp_failed>>
roomVars == <<room_table, room_topic, room_clients, room_running, room_closes,
    room_stream, room_pc, room_cur, room_held, room_timer>>
liqVars == <<liq_clock, liq_hours, liq_days, liq_version, liq_coll, liq_closed,
    liq_clients, liq_hubC, liq_timers, liq_made, liq_loop, liq_saves, liq_row,
    liq_fails>>
newsVars == <<news_published, news_pc, news_answered, news_latest, news_data,
    news_kick, news_asked, news_redis, news_sets, news_seen, news_crashes>>
trigVars == <<trig_strat, trig_active, trig_cur, trig_loop, trig_tick,
    trig_now, trig_last, trig_map, trig_todo, trig_view, trig_hand, trig_there,
    trig_bursts, trig_bare, trig_trig, trig_given>>

Scalp == INSTANCE Scalp WITH Overbought <- RsiHigh, Oversold <- RsiLow,
      current <- scalp_current, running <- scalp_running,
      task <- scalp_task, held <- scalp_held, guarded <- scalp_guarded,
      failed <- scalp_failed
Rooms == INSTANCE PriceRooms WITH Symbol <- Pair, Client <- Tab, MaxTimer <- MaxStop,
      table <- room_table, topic <- room_topic, clients <- room_clients,
      running <- room_running, closes <- room_closes, stream <- room_stream,
      pc <- room_pc, cur <- room_cur, held <- room_held, timer <- room_timer
Liq == INSTANCE LiquidationStats WITH Client <- Viewer,
      clock <- liq_clock, hours <- liq_hours, days <- liq_days,
      version <- liq_version, coll <- liq_coll, closed <- liq_closed,
      clients <- liq_clients, hubC <- liq_hubC, timers <- liq_timers,
      made <- liq_made, loop <- liq_loop, saves <- liq_saves, row <- liq_row,
      fails <- liq_fails
News == INSTANCE NewsHub WITH Window <- Shows,
      published <- news_published, pc <- news_pc, answered <- news_answered,
      latest <- news_latest, data <- news_data, kick <- news_kick,
      asked <- news_asked, redis <- news_redis, sets <- news_sets,
      seen <- news_seen, crashes <- news_crashes
Trig == INSTANCE Triggers WITH Item <- Cause, Hour <- HourLength,
      strat <- trig_strat, given <- trig_given, active <- trig_active, cur <- trig_cur,
      loop <- trig_loop, tick <- trig_tick, now <- trig_now, last <- trig_last,
      map <- trig_map, todo <- trig_todo, view <- trig_view, hand <- trig_hand,
      there <- trig_there, bursts <- trig_bursts, bare <- trig_bare,
      trig <- trig_trig

monVars == <<mon_kind, mon_active, mon_cur, mon_told, mon_pc, mon_listens,
    mon_cfg, mon_hand, mon_at, mon_quota, mon_shown, mon_last, mon_sent,
    mon_trades, mon_now>>

Mon == INSTANCE Monitors WITH Item <- Alert, MaxTime <- LastTime,
      Cool <- AlertCool, kind <- mon_kind,
      active <- mon_active, cur <- mon_cur, told <- mon_told, pc <- mon_pc,
      listens <- mon_listens, cfg <- mon_cfg, hand <- mon_hand, at <- mon_at,
      quota <- mon_quota, shown <- mon_shown, last <- mon_last,
      sent <- mon_sent, trades <- mon_trades, now <- mon_now

ASSUME SafetyAssumption ==
  /\ Scalp!RuleAssumption /\ Scalp!BoundAssumption
  /\ Rooms!RoomAssumption
  /\ Liq!TimeAssumption /\ Liq!BoundAssumption
  /\ News!ItemAssumption
  /\ Trig!ItemAssumption /\ Trig!CoolAssumption /\ Trig!BoundAssumption
  /\ Mon!CoolAssumption /\ Mon!BoundAssumption

all == <<sel, vars, scalpVars, roomVars, liqVars, newsVars, trigVars, monVars>>

\* One component moves, whichever the run begins with; the others stay in
\* their first state.
AllInit ==
  /\ sel \in {"signal", "scalp", "room", "liq", "news", "trigger", "mon"}
  /\ Init /\ Scalp!Init /\ Rooms!Init /\ Liq!Init /\ News!Init
  /\ Trig!Init /\ Mon!Init /\ (sel # "mon" => mon_kind = "aave")
  /\ sel # "signal" => kind = "signal"
  /\ sel # "trigger" => trig_strat = "news" /\ trig_given = CHOOSE g \in Given : TRUE

AllNext ==
  \/ sel = "signal" /\ Next
     /\ UNCHANGED <<sel, scalpVars, roomVars, liqVars, newsVars, trigVars, monVars>>
  \/ sel = "scalp" /\ Scalp!Next
     /\ UNCHANGED <<sel, vars, roomVars, liqVars, newsVars, trigVars, monVars>>
  \/ sel = "room" /\ Rooms!Next
     /\ UNCHANGED <<sel, vars, scalpVars, liqVars, newsVars, trigVars, monVars>>
  \/ sel = "liq" /\ Liq!Next
     /\ UNCHANGED <<sel, vars, scalpVars, roomVars, newsVars, trigVars, monVars>>
  \/ sel = "news" /\ News!Next
     /\ UNCHANGED <<sel, vars, scalpVars, roomVars, liqVars, trigVars, monVars>>
  \/ sel = "trigger" /\ Trig!Next
     /\ UNCHANGED <<sel, vars, scalpVars, roomVars, liqVars, newsVars, monVars>>
  \/ sel = "mon" /\ Mon!Next
     /\ UNCHANGED <<sel, vars, scalpVars, roomVars, liqVars, newsVars, trigVars>>

AllSpec ==
  /\ AllInit /\ [][AllNext]_all

-------------------------------------------------------------------------------
\* The shape of each component's state.
TypesOK == /\ sel = "signal" => TypeOK
           /\ sel = "scalp" => Scalp!TypeOK
           /\ sel = "room" => Rooms!TypeOK
           /\ sel = "liq" => Liq!TypeOK
           /\ sel = "news" => News!TypeOK
           /\ sel = "trigger" => Trig!TypeOK
           /\ sel = "mon" => Mon!TypeOK

\* The same event is answered again only after the cool-down
\* (api/news_sentiment_strategy.go, liq_cascade_strategy.go,
\* funding_arb_strategy.go, strategy_link.go).
SpacedTriggers == /\ sel = "trigger" => Trig!SpacedTriggers
                  /\ sel = "mon" => Mon!AlertsSpaced

\* A strategy knows what it holds.  While every call is answered and nothing
\* restarts, the scalper holds one entry at most, on the side it believes it is
\* on, with its stop registered (api/scalp_strategy.go); and the count that
\* caps a signal strategy is not below what is held (api/signal_strategy.go,
\* doji_strategy.go).
HoldingsKnown == /\ sel = "scalp" => Scalp!DirectionTrue
                 /\ sel = "signal" => CountCoversHeld

\* Falling prices are traded as rising ones in a mirror: no rule of the
\* scalper, of the crossings or of the candle patterns leans to one side.
SidesMirror == /\ sel = "scalp" => Scalp!DecisionsMirror
               /\ sel = "signal" => SignalsMirror

\* Browsers are served: a room of the table has a live stream
\* (api/ws_price_proxy.go), and the liquidation hub runs while a browser
\* watches, on the one channel that is open (api/ws_liquidation_stats.go).
BrowsersServed == /\ sel = "room" => Rooms!TableServes
                  /\ sel = "liq" => Liq!ViewersAreServed

\* What is kept agrees: the days of the liquidation series with their hours,
\* and the news with all that was fetched (api/ws_news_hyper_proxy.go).
SeriesKept == /\ sel = "liq" => Liq!SeriesAgree
              /\ sel = "news" => News!NewsKept
===============================================================================
