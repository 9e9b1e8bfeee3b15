------------------------------- MODULE MCFeeds -------------------------------
(* What the server's feeds and hubs must in the end do: the price cache,    *)
(* the fall-back to polling, the liquidation statistics, the news hub and   *)
(* the sessions that watch an address.  They share no state, so a run       *)
(* begins with one of them and only that one moves.                         *)
EXTENDS PriceCache, TLC

CONSTANTS
  Coin, MaxPoll,                           \* of DataFallback
  Tab,                                     \* browsers, of the two that follow
  MaxHour, DayHours, Retention, PruneEvery, MaxEvent, MaxChan, MaxTimer,
  MaxSave, MaxFail,                        \* of LiquidationStats
  Source, Keep, Window, MaxItem, MaxSet, MaxCrash,  \* of NewsHub
  Address, MaxConn                         \* of HyperSession

VARIABLES sel, poll_heard, poll_due, poll_degraded, poll_stopOf, poll_polls,
    poll_told, poll_waking, liq_clock, liq_hours, liq_days, liq_version,
    liq_coll, liq_closed, liq_clients, liq_hubC, liq_timers, liq_made,
    liq_loop, liq_saves, liq_row, liq_fails, news_published, news_pc,
    news_answered, news_latest, news_data, news_kick, news_asked, news_redis,
    news_sets, news_seen, news_crashes, hyper_watches, hyper_alive,
    hyper_closed, hyper_clients, hyper_at, hyper_conn, hyper_open,
    hyper_helpers, hyper_stopped, hyper_request, hyper_wanted

pollVars == <<poll_heard, poll_due, poll_degraded, poll_stopOf, poll_polls,
    poll_told, poll_waking>>
liqVars == <<liq_clock, liq_hours, liq_days, liq_version, liq_coll, liq_closed,
    liq_clients, liq_hubC, liq_timers, liq_made, liq_loop, liq_saves, liq_row,
    liq_fails>>
newsVars == <<news_published, news_pc, news_answered, news_latest, news_data,
    news_kick, news_asked, news_redis, news_sets, news_seen, news_crashes>>
hyperVars == <<hyper_watches, hyper_alive, hyper_closed, hyper_clients,
    hyper_at, hyper_conn, hyper_open, hyper_helpers, hyper_stopped,
    hyper_request, hyper_wanted>>

Fallback == INSTANCE DataFallback WITH Symbol <- Coin,
      heard <- poll_heard, due <- poll_due, degraded <- poll_degraded,
      stopOf <- poll_stopOf, polls <- poll_polls, told <- poll_told,
      waking <- poll_waking
Liq == INSTANCE LiquidationStats WITH Client <- Tab,
      clock <- liq_clock, hours <- liq_hours, days <- liq_days,
      version <- liq_version, coll <- liq_coll, closed <- liq_closed,
      clients <- liq_clients, hubC <- liq_hubC, timers <- liq_timers,
      made <- liq_made, loop <- liq_loop, saves <- liq_saves, row <- liq_row,
      fails <- liq_fails
News == INSTANCE NewsHub WITH
      published <- news_published, pc <- news_pc, answered <- news_answered,
      latest <- news_latest, data <- news_data, kick <- news_kick,
      asked <- news_asked, redis <- news_redis, sets <- news_sets,
      seen <- news_seen, crashes <- news_crashes
Hyper == INSTANCE HyperSession WITH Client <- Tab,
      watches <- hyper_watches, alive <- hyper_alive,
      closed <- hyper_closed, clients <- hyper_clients, at <- hyper_at,
      conn <- hyper_conn, open <- hyper_open, helpers <- hyper_helpers,
      stopped <- hyper_stopped, request <- hyper_request,
      wanted <- hyper_wanted

ASSUME FeedsAssumption ==
  /\ Fallback!PollAssumption /\ Liq!BoundAssumption /\ Liq!TimeAssumption
  /\ News!ItemAssumption /\ Hyper!ConnAssumption

all == <<sel, vars, pollVars, liqVars, newsVars, hyperVars>>

\* One component moves, whichever the run begins with; the others stay in
\* their first state.
AllInit ==
  /\ sel \in {"price", "poll", "liq", "news", "hyper"}
  /\ Init /\ Fallback!Init /\ Liq!Init /\ News!Init /\ Hyper!Init

AllNext ==
  \/ sel = "price" /\ Next
     /\ UNCHANGED <<sel, pollVars, liqVars, newsVars, hyperVars>>
  \/ sel = "poll" /\ Fallback!Next
     /\ UNCHANGED <<sel, vars, liqVars, newsVars, hyperVars>>
  \/ sel = "liq" /\ Liq!Next
     /\ UNCHANGED <<sel, vars, pollVars, newsVars, hyperVars>>
  \/ sel = "news" /\ News!Next
     /\ UNCHANGED <<sel, vars, pollVars, liqVars, hyperVars>>
  \/ sel = "hyper" /\ Hyper!Next
     /\ UNCHANGED <<sel, vars, pollVars, liqVars, newsVars>>

\* The fairness each component states for itself.
Fairness ==
  /\ \A n \in Feed : WF_vars(sel = "price" /\ n \in Started /\ Goroutine(n))
  /\ \A s \in Coin : /\ WF_pollVars(sel = "poll" /\ Fallback!DegradeSymbol(s))
                     /\ WF_pollVars(sel = "poll" /\ Fallback!RecoverSymbol(s))
  /\ WF_pollVars(sel = "poll" /\ Fallback!MonitorRound)
  /\ WF_pollVars(sel = "poll" /\ Fallback!PollEnds)
  /\ WF_liqVars(sel = "liq" /\ Liq!DelayedStop)
  /\ WF_liqVars(sel = "liq" /\ Liq!HubSave)
  /\ \A c \in Liq!Chan : /\ WF_liqVars(sel = "liq" /\ Liq!CollectorStep(c))
                        /\ WF_liqVars(sel = "liq" /\ Liq!LoopStep(c))
  /\ \A s \in Source : WF_newsVars(sel = "news" /\ News!FetchNewsFeed(s))
  /\ WF_newsVars(sel = "news" /\ News!FetchAndBroadcast)
  /\ WF_newsVars(sel = "news" /\ News!TakeKick)
  /\ WF_newsVars(sel = "news" /\ News!PersistNewsSnapshot)
  /\ \A c \in Tab :
       /\ WF_hyperVars(sel = "hyper" /\ Hyper!PumpFails(c) /\ c \in hyper_closed)
       /\ WF_hyperVars(sel = "hyper" /\ Hyper!Snapshot(c))
       /\ WF_hyperVars(sel = "hyper" /\ Hyper!Return(c))
       /\ WF_hyperVars(sel = "hyper" /\ Hyper!ReadFails(c))
       /\ WF_hyperVars(sel = "hyper" /\ Hyper!HelperEnds(c))

AllSpec == AllInit /\ [][AllNext]_all /\ Fairness

-------------------------------------------------------------------------------
\* The shape of each component's state; that of the statistics and of the news
\* hub is checked with more events in MCSafety.
TypesOK == TypeOK /\ Fallback!TypeOK /\ Hyper!TypeOK

\* What runs can be stopped: the running feed of a symbol is the one whose
\* channel is stored, and a stored channel has its feed (api/price_cache.go); a
\* polling loop is the one of its degraded symbol (api/data_fallback.go).
RunningIsKnown == NoOrphanFeed /\ StoredMeansServed /\ Fallback!PollsInHand

\* What was told to stop ends: feeds, collectors, and all that belongs to the
\* session of a browser that has gone (api/ws_news_hyper_proxy.go).
StoppedEnd == StoppedFeedsEnd /\ Liq!StoppedCollectorsEnd /\ Hyper!SessionsEnd

\* What lags catches up: a symbol whose data flow leaves the polling, a
\* browser that asks for news or for an address gets a fetch, and the database
\* follows the series when nothing fails.
LagsCatchUp ==
  /\ \A s \in Coin :
       WF_pollVars(sel = "poll" /\ Fallback!RecordWsData(s))
         => ((s \in poll_degraded) ~> (s \notin poll_degraded))
  /\ News!RefreshAnswered /\ Hyper!SnapshotAnswered /\ Liq!BackgroundSaves
===============================================================================
