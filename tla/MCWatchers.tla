------------------------------ MODULE MCWatchers -----------------------------
(* Loops that watch the market on a ticker and act by themselves: the       *)
(* volatility guard, whose lock stops the placers, and the monitors of      *)
(* funding rates, of Aave and of the allocation.  They share no state, so a *)
(* run begins with one of them and only that one moves.                     *)
EXTENDS MCRiskControl

VARIABLES sel, mon_kind, mon_active, mon_cur, mon_told, mon_pc, mon_listens,
    mon_cfg, mon_hand, mon_at, mon_quota, mon_shown, mon_last, mon_sent,
    mon_trades, mon_now

monVars == <<mon_kind, mon_active, mon_cur, mon_told, mon_pc, mon_listens,
    mon_cfg, mon_hand, mon_at, mon_quota, mon_shown, mon_last, mon_sent,
    mon_trades, mon_now>>

Mon == INSTANCE Monitors WITH Item <- {"x"}, MaxStart <- 2, MaxTime <- 1,
      Cool <- 1, MaxNotify <- 1, MaxTrade <- 0, kind <- mon_kind,
      active <- mon_active, cur <- mon_cur, told <- mon_told, pc <- mon_pc,
      listens <- mon_listens, cfg <- mon_cfg, hand <- mon_hand, at <- mon_at,
      quota <- mon_quota, shown <- mon_shown, last <- mon_last,
      sent <- mon_sent, trades <- mon_trades, now <- mon_now

all == <<sel, vars, monVars>>

\* One component moves, whichever the run begins with; the other stays in its
\* first state.
AllInit ==
  /\ sel \in {"guard", "monitor"} /\ Init /\ Mon!Init
  /\ sel # "monitor" => mon_kind = "aave"

AllNext ==
  \/ sel = "guard" /\ Next /\ UNCHANGED <<sel, monVars>>
  \/ sel = "monitor" /\ Mon!Next /\ UNCHANGED <<sel, vars>>

\* The fairness each component states for itself.
AllSpec ==
  /\ AllInit /\ [][AllNext]_all
  /\ WF_vars(sel = "guard" /\ Guard)
  /\ \A i \in 1 .. 2 : /\ WF_monVars(sel = "monitor" /\ Mon!LoopStep(i))
                       /\ SF_monVars(sel = "monitor" /\ Mon!LoopEnds(i))
                       /\ SF_monVars(sel = "monitor" /\ Mon!Fetch(i))

-------------------------------------------------------------------------------
\* What a watcher started ends: the lock the guard took is lifted
\* (api/volatility_guard.go), the loops of a monitor that is stopped for good
\* return, and what a running one shows is in the end its last configuration's
\* (api/funding_rate.go, aave_monitor.go, strategy_allocator.go).
WatchersSettle ==
  VolatilityLockEnds /\ Mon!StoppedLoopsEnd /\ Mon!CurrentConfigShown
===============================================================================
