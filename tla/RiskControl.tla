----------------------------- MODULE RiskControl -----------------------------
(***************************************************************************)
(* What stands between a signal and an order: the daily loss limits        *)
(* (api/risk_control.go), the volatility guard that shares their lock      *)
(* (api/volatility_guard.go) and the kill switches (api/kill_switch.go).   *)
(*                                                                         *)
(* Threads: the placers (HTTP handlers and strategy loops, which call      *)
(* CheckRisk and then place an order), the user stream that reports closed *)
(* trades, the recovery goroutine of InitRiskControl, and the guard.  A    *)
(* step ends where the code releases risk.mu or ks.mu or leaves the DB.    *)
(***************************************************************************)
EXTENDS Integers, FiniteSets

CONSTANTS
  Enabled,             \* RiskConfig.Enabled
  DailyMaxLosses,      \* RiskConfig: 0 means no limit
  MaxDailyLossAmount,  \* RiskConfig: 0 means no limit
  GuardOn,             \* VolatilityGuardConfig.Enabled
  CooldownTicks,       \* cooldown of the guard, in its 10-second ticks
  Placer,              \* goroutines that place orders
  Symbol, Source,      \* what an order is for, and which strategy sends it
  Pnl,                 \* realised profits of closed trades, never 0
  MaxDay, MaxClose, MaxOrder, MaxUnlock, MaxShock, MaxSwitch, MaxRestart
                       \* bounds on the events of the same names

ASSUME SwitchAssumption == Enabled \in BOOLEAN /\ GuardOn \in BOOLEAN
ASSUME LimitAssumption  == DailyMaxLosses \in Nat /\ MaxDailyLossAmount \in Nat
ASSUME GuardAssumption  == CooldownTicks \in Nat \ {0}
ASSUME PnlAssumption    == Pnl \subseteq Int \ {0}
ASSUME PlacerAssumption == IsFiniteSet(Placer)
ASSUME BoundAssumption  ==
  {MaxDay, MaxClose, MaxOrder, MaxUnlock, MaxShock, MaxSwitch, MaxRestart}
    \subseteq Nat

VARIABLES
  day,       \* the calendar
  risk,      \* riskState: losses, amount, locked, reason and its resetDay
  rows,      \* rows[d]: losing trades CLOSED on day d, and their sum, in the DB
  guard,     \* volatilityGuardState: suspended, ticks left, position in the loop
  account, symbols, strategies,  \* killSwitchState
  stream,    \* profit of the closed trade the user stream is reporting, or 0
  rec,       \* recoverDailyPnl: where it is, and what it read
  pc, want,  \* placers: where each is, and the order it wants to place
  late,      \* history: orders sent since the lock was last set
  unlocks,   \* history: calls of UnlockRisk since the last reset of the counters
  blurred,   \* history: a trade's close overlapped the recovery or midnight
  used       \* events so far, behind the bounds

switches == <<account, symbols, strategies>>
threads  == <<stream, rec, pc, want>>
vars     == <<day, risk, rows, guard, switches, threads, late, unlocks,
              blurred, used>>

Reasons == {"", "limit", "volatility"}
Orders  == [source : Source, symbol : Symbol]
NoOrder == [source |-> "none", symbol |-> "none"]
Events  == {"close", "order", "unlock", "shock", "switch", "restart"}
Limit   == [close |-> MaxClose, order |-> MaxOrder, unlock |-> MaxUnlock,
            shock |-> MaxShock, switch |-> MaxSwitch, restart |-> MaxRestart]
Use(e)  == used[e] < Limit[e] /\ used' = [used EXCEPT ![e] = @ + 1]

Fresh(d)  == [losses |-> 0, amount |-> 0, locked |-> FALSE, reason |-> "",
              resetDay |-> d]
NoRows    == [losses |-> 0, amount |-> 0]

(***************************************************************************)
(* Bugs the runs must notice; each stands in for a definition below.       *)
(***************************************************************************)
\* resetRiskForNewDayLocked that forgets the counters.
TodayLockOnly(r) ==
  IF r.resetDay = day THEN r
  ELSE [r EXCEPT !.locked = FALSE, !.reason = "", !.resetDay = day]

\* The lock set without its reason.
LockUnnamed(r, why) == [r EXCEPT !.locked = TRUE]

(***************************************************************************)
(* The parts of riskState the handlers share.                              *)
(***************************************************************************)
LimitReached(r) ==
  \/ DailyMaxLosses > 0 /\ r.losses >= DailyMaxLosses
  \/ MaxDailyLossAmount > 0 /\ r.amount >= MaxDailyLossAmount

\* resetRiskForNewDayLocked.
Today(r) == IF r.resetDay = day THEN r ELSE Fresh(day)

\* AddDailyPnl's counters, for the trades' table as well.
Counted(r, p) ==
  IF p < 0 THEN [r EXCEPT !.losses = @ + 1, !.amount = @ - p] ELSE r

Lock(r, why) ==
  IF r.locked THEN r ELSE [r EXCEPT !.locked = TRUE, !.reason = why]

\* (Bug.)  AddDailyPnl that compares the counters before it counts.
AddDailyPnlLate(p) ==
  LET r == Today(risk) IN
  IF ~Enabled THEN risk
  ELSE Counted(IF LimitReached(r) THEN Lock(r, "limit") ELSE r, p)

\* (Bug.)  AddDailyPnl that leaves the reset to the others.
AddDailyPnlNoReset(p) ==
  LET r == Counted(risk, p) IN
  IF ~Enabled THEN risk
  ELSE IF LimitReached(r) THEN Lock(r, "limit") ELSE r

\* (Bug.)  CheckRisk that does not look at the lock.
RiskPassesAlways(r) == TRUE

\* (Bug.)  The end of the cooldown without the call of UnlockRisk.
GuardResumeOnly ==
  /\ guard.pc = "resume"
  /\ guard' = [guard EXCEPT !.suspended = FALSE, !.pc = "scan"]
  /\ UNCHANGED <<day, risk, rows, switches, threads, late, unlocks, blurred,
                 used>>

(***************************************************************************)
(* The daily limits.                                                       *)
(***************************************************************************)
\* Every assignment of risk keeps the histories: orders sent under this lock,
\* and unlocks since the counters were last reset.
SetRisk(r) ==
  /\ risk' = r
  /\ late' = IF r.locked /\ ~risk.locked THEN 0 ELSE late
  /\ unlocks' = IF r.resetDay # risk.resetDay THEN 0 ELSE unlocks

AddDailyPnl(p) ==
  LET r == Counted(Today(risk), p) IN
  IF ~Enabled THEN risk
  ELSE IF LimitReached(r) THEN Lock(r, "limit") ELSE r

\* The user stream stores the closed trade ...
CloseTrade(p) ==
  /\ stream = 0
  /\ Use("close")
  /\ rows' = [rows EXCEPT ![day] = Counted(@, p)]
  /\ stream' = p
  /\ blurred' = (blurred \/ rec.pc # "done")
  /\ UNCHANGED <<day, risk, guard, switches, rec, pc, want, late, unlocks>>

\* ... and then tells the risk control.
ReportTrade ==
  /\ stream # 0
  /\ SetRisk(AddDailyPnl(stream))
  /\ stream' = 0
  /\ UNCHANGED <<day, rows, guard, switches, rec, pc, want, blurred, used>>

\* recoverDailyPnl: read the table, overwrite the counters, then AddDailyPnl(0)
\* sets the lock.  (A failed read leaves the counters alone.)
RecoverRead ==
  /\ rec.pc = "read"
  /\ \/ rec' = [pc |-> "write", snap |-> rows[day]]
     \/ rec' = [rec EXCEPT !.pc = "failed"]
  /\ UNCHANGED <<day, risk, rows, guard, switches, stream, pc, want, late,
                 unlocks, blurred, used>>

RecoverWrite ==
  /\ rec.pc = "write"
  /\ SetRisk([risk EXCEPT !.losses = rec.snap.losses,
                          !.amount = rec.snap.amount])
  /\ rec' = [rec EXCEPT !.pc = IF rec.snap.losses > 0 THEN "relock" ELSE "done"]
  /\ UNCHANGED <<day, rows, guard, switches, stream, pc, want, blurred, used>>

RecoverLock ==
  /\ rec.pc = "relock"
  /\ SetRisk(AddDailyPnl(0))
  /\ rec' = [rec EXCEPT !.pc = "done"]
  /\ UNCHANGED <<day, rows, guard, switches, stream, pc, want, blurred, used>>

\* UnlockRisk, from the operator or from the guard.
Unlocked(r) == [r EXCEPT !.locked = FALSE, !.reason = ""]

ManualUnlock ==
  /\ Use("unlock")
  /\ risk' = Unlocked(risk)
  /\ unlocks' = unlocks + 1
  /\ UNCHANGED <<day, rows, guard, switches, threads, late, blurred>>

\* GetRiskStatus resets the counters of a day that is over.
ReadStatus ==
  /\ Enabled /\ risk.resetDay # day
  /\ SetRisk(Today(risk))
  /\ UNCHANGED <<day, rows, guard, switches, threads, blurred, used>>

Midnight ==
  /\ day < MaxDay
  /\ day' = day + 1
  /\ blurred' = (stream # 0 \/ rec.pc # "done")
  /\ UNCHANGED <<risk, rows, guard, switches, threads, late, unlocks, used>>

(***************************************************************************)
(* The volatility guard: checkVolatility, once per tick.                   *)
(***************************************************************************)
GuardTick ==
  /\ GuardOn /\ guard.pc = "idle"
  /\ guard' = [guard EXCEPT
       !.ticks = IF @ > 0 THEN @ - 1 ELSE 0,
       !.pc = IF guard.suspended /\ guard.ticks <= 1 THEN "resume" ELSE "scan"]
  /\ UNCHANGED <<day, risk, rows, switches, threads, late, unlocks, blurred,
                 used>>

\* The cooldown is over: UnlockRisk, whatever the lock was set for.
GuardResume ==
  /\ guard.pc = "resume"
  /\ risk' = Unlocked(risk)
  /\ unlocks' = unlocks + 1
  /\ guard' = [guard EXCEPT !.suspended = FALSE, !.pc = "scan"]
  /\ UNCHANGED <<day, rows, switches, threads, late, blurred, used>>

GuardQuiet ==
  /\ guard.pc = "scan"
  /\ guard' = [guard EXCEPT !.pc = "idle"]
  /\ UNCHANGED <<day, risk, rows, switches, threads, late, unlocks, blurred,
                 used>>

\* A watched symbol moved by the threshold within one tick.
GuardTrigger ==
  /\ guard.pc = "scan" /\ guard.ticks = 0
  /\ Use("shock")
  /\ SetRisk(Lock(risk, "volatility"))
  /\ guard' = [suspended |-> TRUE, ticks |-> CooldownTicks, pc |-> "idle"]
  /\ UNCHANGED <<day, rows, switches, threads, blurred>>

(***************************************************************************)
(* The kill switches.                                                      *)
(***************************************************************************)
SwitchAccount ==
  /\ Use("switch")
  /\ account' = ~account
  /\ UNCHANGED <<day, risk, rows, guard, symbols, strategies, threads, late,
                 unlocks, blurred>>

SwitchSymbol(s) ==
  /\ Use("switch")
  /\ symbols' = IF s \in symbols THEN symbols \ {s} ELSE symbols \cup {s}
  /\ UNCHANGED <<day, risk, rows, guard, account, strategies, threads, late,
                 unlocks, blurred>>

SwitchStrategy(s) ==
  /\ Use("switch")
  /\ strategies' =
       IF s \in strategies THEN strategies \ {s} ELSE strategies \cup {s}
  /\ UNCHANGED <<day, risk, rows, guard, account, symbols, threads, late,
                 unlocks, blurred>>

\* CheckKillSwitch(source, symbol); an empty argument is not looked up.
KillSwitchPasses(source, symbol) ==
  ~account /\ symbol \notin symbols /\ source \notin strategies

(***************************************************************************)
(* Placing an order: CheckRisk looks at the kill switches, then at the     *)
(* lock; the order leaves afterwards.                                      *)
(***************************************************************************)
RiskPasses(r) == Enabled => ~r.locked

\* CheckRisk asks CheckKillSwitch("", "").
AskKillSwitch(p, o) ==
  /\ pc[p] = "idle" /\ used["order"] < MaxOrder
  /\ KillSwitchPasses("", "")
  /\ pc' = [pc EXCEPT ![p] = "risk"]
  /\ want' = [want EXCEPT ![p] = o]
  /\ UNCHANGED <<day, risk, rows, guard, switches, stream, rec, late, unlocks,
                 blurred, used>>

AskRisk(p) ==
  LET r == IF Enabled THEN Today(risk) ELSE risk IN
  /\ pc[p] = "risk"
  /\ SetRisk(r)
  /\ IF RiskPasses(r)
     THEN pc' = [pc EXCEPT ![p] = "place"] /\ UNCHANGED want
     ELSE /\ pc' = [pc EXCEPT ![p] = "idle"]
          /\ want' = [want EXCEPT ![p] = NoOrder]
  /\ UNCHANGED <<day, rows, guard, switches, stream, rec, blurred, used>>

SendOrder(p) ==
  /\ pc[p] = "place"
  /\ Use("order")
  /\ late' = IF risk.locked THEN late + 1 ELSE late
  /\ pc' = [pc EXCEPT ![p] = "idle"]
  /\ want' = [want EXCEPT ![p] = NoOrder]
  /\ UNCHANGED <<day, risk, rows, guard, switches, stream, rec, unlocks,
                 blurred>>

(***************************************************************************)
(* InitRiskControl.  A restart forgets everything but the table.           *)
(***************************************************************************)
IdleGuard == [suspended |-> FALSE, ticks |-> 0, pc |-> "idle"]
Unread    == [pc |-> IF Enabled THEN "read" ELSE "done", snap |-> NoRows]

Restart ==
  /\ Use("restart")
  /\ risk' = Fresh(day)
  /\ guard' = IdleGuard
  /\ account' = FALSE /\ symbols' = {} /\ strategies' = {}
  /\ stream' = 0
  /\ rec' = Unread
  /\ pc' = [p \in Placer |-> "idle"]
  /\ want' = [p \in Placer |-> NoOrder]
  /\ late' = 0 /\ unlocks' = 0
  /\ blurred' = FALSE
  /\ UNCHANGED <<day, rows>>

-----------------------------------------------------------------------------
Init ==
  /\ day = 0
  /\ risk = Fresh(0)
  /\ rows = [d \in 0 .. MaxDay |-> NoRows]
  /\ guard = IdleGuard
  /\ account = FALSE /\ symbols = {} /\ strategies = {}
  /\ stream = 0
  /\ rec = Unread
  /\ pc = [p \in Placer |-> "idle"]
  /\ want = [p \in Placer |-> NoOrder]
  /\ late = 0 /\ unlocks = 0
  /\ blurred = FALSE
  /\ used = [e \in Events |-> 0]

Recover == RecoverRead \/ RecoverWrite \/ RecoverLock
Guard   == GuardTick \/ GuardResume \/ GuardQuiet \/ GuardTrigger
Switch  ==
  \/ SwitchAccount
  \/ \E s \in Symbol : SwitchSymbol(s)
  \/ \E s \in Source : SwitchStrategy(s)
Place(p) == (\E o \in Orders : AskKillSwitch(p, o)) \/ AskRisk(p) \/ SendOrder(p)

Next ==
  \/ \E p \in Pnl : CloseTrade(p)
  \/ ReportTrade \/ Recover \/ Guard \/ Switch
  \/ ManualUnlock \/ ReadStatus \/ Midnight \/ Restart
  \/ \E p \in Placer : Place(p)

Spec == Init /\ [][Next]_vars

\* The guard's ticker never stops (nothing calls StopVolatilityGuard).
FairSpec == Spec /\ WF_vars(Guard)

-----------------------------------------------------------------------------
(***************************************************************************)
(* Properties                                                              *)
(***************************************************************************)
TypeOK ==
  /\ day \in Nat
  /\ risk \in [losses : Nat, amount : Nat, locked : BOOLEAN,
               reason : Reasons, resetDay : Nat]
  /\ rows \in [0 .. MaxDay -> [losses : Nat, amount : Nat]]
  /\ guard \in [suspended : BOOLEAN, ticks : Nat,
                pc : {"idle", "resume", "scan"}]
  /\ account \in BOOLEAN /\ symbols \subseteq Symbol /\ strategies \subseteq Source
  /\ stream \in Pnl \cup {0}
  /\ rec \in [pc : {"read", "write", "relock", "done", "failed"},
              snap : [losses : Nat, amount : Nat]]
  /\ pc \in [Placer -> {"idle", "risk", "place"}]
  /\ want \in [Placer -> Orders \cup {NoOrder}]
  /\ late \in Nat /\ unlocks \in Nat /\ blurred \in BOOLEAN
  /\ used \in [Events -> Nat]
  /\ risk.locked <=> risk.reason # ""

\* A limit that is reached keeps the lock set for the rest of the day: no
\* interleaving of closed trades, recovery, status reads and restarts loses
\* it.  Only UnlockRisk lifts it.
LimitMeansLocked ==
  (Enabled /\ unlocks = 0 /\ rec.pc # "relock" /\ LimitReached(risk))
    => risk.locked

\* CheckRisk and the order are not atomic; still, after the lock is set each
\* placer gets at most the one order through that it had checked before.
AtMostOneLateOrderEach == Enabled => late <= Cardinality(Placer)

\* When no close overlapped the recovery or midnight, the counters are those
\* of the table, restarts included.
CountersMatchTable ==
  (Enabled /\ ~blurred /\ rec.pc = "done" /\ stream = 0 /\ risk.resetDay = day)
    => risk.losses = rows[day].losses /\ risk.amount = rows[day].amount

\* A lock the guard set is lifted again (cooldown, or somebody's unlock).
VolatilityLockEnds == risk.reason = "volatility" ~> risk.reason # "volatility"

\* "Recover automatically after the cooldown (if the lock was caused by this
\* guard, unlock)": the guard lifts no lock of the daily limits.
GuardLiftsItsOwnLock ==
  [][(guard.pc = "resume" /\ guard'.pc = "scan") => risk.reason # "limit"]_vars

\* "Restore the day's risk state on restart": once recovered, the counters
\* are the table's.
RecoveryIsExact ==
  (Enabled /\ rec.pc = "done" /\ stream = 0 /\ day = 0)
    => risk.losses = rows[day].losses

\* "Tiered kill switch: strategy / symbol / account": an order that leaves the
\* check is not one of a stopped strategy or symbol.
SwitchStopsItsTargets ==
  [][\A p \in Placer :
       (pc[p] = "idle" /\ pc'[p] = "risk")
         => KillSwitchPasses(want'[p].source, want'[p].symbol)]_vars
=============================================================================
