-------------------------- MODULE RiskControl_proofs -------------------------
(***************************************************************************)
(* Proofs about RiskControl, for any finite set of placers, any limits and *)
(* any bounds.                                                             *)
(***************************************************************************)
EXTENDS RiskControl, FiniteSetTheorems, TLAPS

RiskType == [losses : Nat, amount : Nat, locked : BOOLEAN, reason : Reasons,
             resetDay : Nat]
RowType  == [losses : Nat, amount : Nat]

-----------------------------------------------------------------------------
(* What the operators on riskState return.                                  *)

\* A lock has a reason, and nothing else has one.
Named(r) == r.locked <=> r.reason # ""

LEMMA TodayFacts ==
  ASSUME NEW r \in RiskType, Named(r), day \in Nat
  PROVE  /\ Today(r) \in RiskType /\ Named(Today(r))
         /\ Today(r).resetDay = day
         /\ r.resetDay = day => Today(r) = r
         /\ r.resetDay # day => Today(r) = Fresh(day)
  BY DEF Today, Fresh, RiskType, Reasons, Named

LEMMA CountedFacts ==
  ASSUME NEW r \in RiskType, NEW p \in Int
  PROVE  /\ Counted(r, p) \in RiskType
         /\ Counted(r, p).locked = r.locked /\ Counted(r, p).reason = r.reason
         /\ Counted(r, p).resetDay = r.resetDay
         /\ Counted(r, p).losses = IF p < 0 THEN r.losses + 1 ELSE r.losses
         /\ Counted(r, p).amount = IF p < 0 THEN r.amount - p ELSE r.amount
  <1>1. CASE p < 0
    <2>1. r.losses + 1 \in Nat /\ r.amount - p \in Nat
      BY <1>1 DEF RiskType
    <2>2. Counted(r, p) = [r EXCEPT !.losses = r.losses + 1, !.amount = r.amount - p]
      BY <1>1 DEF Counted
    <2>3. QED
      BY <1>1, <2>1, <2>2 DEF RiskType
  <1>2. CASE ~(p < 0)
    BY <1>2 DEF Counted
  <1>3. QED
    BY <1>1, <1>2

LEMMA CountedRow ==
  ASSUME NEW r \in RowType, NEW p \in Int
  PROVE  /\ Counted(r, p) \in RowType
         /\ Counted(r, p).losses = IF p < 0 THEN r.losses + 1 ELSE r.losses
         /\ Counted(r, p).amount = IF p < 0 THEN r.amount - p ELSE r.amount
  <1>1. CASE p < 0
    <2>1. r.losses + 1 \in Nat /\ r.amount - p \in Nat
      BY <1>1 DEF RowType
    <2>2. Counted(r, p) = [r EXCEPT !.losses = r.losses + 1, !.amount = r.amount - p]
      BY <1>1 DEF Counted
    <2>3. QED
      BY <1>1, <2>1, <2>2 DEF RowType
  <1>2. CASE ~(p < 0)
    BY <1>2 DEF Counted
  <1>3. QED
    BY <1>1, <1>2

LEMMA LockFacts ==
  ASSUME NEW r \in RiskType, Named(r), NEW why \in Reasons \ {""}
  PROVE  /\ Lock(r, why) \in RiskType /\ Named(Lock(r, why))
         /\ Lock(r, why).locked
         /\ Lock(r, why).losses = r.losses /\ Lock(r, why).amount = r.amount
         /\ Lock(r, why).resetDay = r.resetDay
  BY DEF Lock, RiskType, Reasons, Named

\* AddDailyPnl counts on top of today's counters and locks where a limit is
\* reached; otherwise the lock is as it was.
LEMMA AddDailyPnlFacts ==
  ASSUME risk \in RiskType, Named(risk), day \in Nat, NEW p \in Int
  PROVE  /\ AddDailyPnl(p) \in RiskType /\ Named(AddDailyPnl(p))
         /\ Enabled =>
              /\ AddDailyPnl(p).resetDay = day
              /\ AddDailyPnl(p).losses = Counted(Today(risk), p).losses
              /\ AddDailyPnl(p).amount = Counted(Today(risk), p).amount
              /\ LimitReached(AddDailyPnl(p)) => AddDailyPnl(p).locked
         /\ ~Enabled => AddDailyPnl(p) = risk
  <1> DEFINE r == Counted(Today(risk), p)
  <1>1. Today(risk) \in RiskType /\ Named(Today(risk)) /\ Today(risk).resetDay = day
    BY TodayFacts
  <1>2. r \in RiskType /\ Named(r) /\ r.resetDay = day
    BY <1>1, CountedFacts, ZenonT(60) DEF Named
  <1>3. AddDailyPnl(p) = IF ~Enabled THEN risk
                         ELSE IF LimitReached(r) THEN Lock(r, "limit") ELSE r
    BY DEF AddDailyPnl
  <1> HIDE DEF r
  <1>4. CASE ~Enabled
    BY <1>3, <1>4
  <1>5. CASE Enabled /\ LimitReached(r)
    <2>1. "limit" \in Reasons \ {""}
      BY DEF Reasons
    <2>2. AddDailyPnl(p) = Lock(r, "limit")
      BY <1>3, <1>5
    <2>3. /\ Lock(r, "limit") \in RiskType /\ Named(Lock(r, "limit"))
          /\ Lock(r, "limit").locked
          /\ Lock(r, "limit").losses = r.losses
          /\ Lock(r, "limit").amount = r.amount
          /\ Lock(r, "limit").resetDay = r.resetDay
      BY <2>1, <1>2, LockFacts
    <2>4. QED
      BY <1>2, <1>5, <2>2, <2>3 DEF r
  <1>6. CASE Enabled /\ ~LimitReached(r)
    BY <1>2, <1>3, <1>6 DEF r
  <1>7. QED
    BY <1>4, <1>5, <1>6

LEMMA UnlockedFacts ==
  ASSUME NEW r \in RiskType
  PROVE  /\ Unlocked(r) \in RiskType /\ Named(Unlocked(r)) /\ ~Unlocked(r).locked
         /\ Unlocked(r).losses = r.losses /\ Unlocked(r).amount = r.amount
         /\ Unlocked(r).resetDay = r.resetDay
  BY DEF Unlocked, RiskType, Reasons, Named

-----------------------------------------------------------------------------
(* Type correctness.  A day past the calendar has no row in the table, so   *)
(* the invariant needs the calendar's end.                                  *)
TypeInv == TypeOK /\ day <= MaxDay

LEMMA MaxDayNat == MaxDay \in Nat
  BY BoundAssumption

LEMMA RowToday == ASSUME TypeInv PROVE day \in 0 .. MaxDay /\ rows[day] \in RowType
  <1>1. day \in Nat /\ day <= MaxDay /\ rows \in [0 .. MaxDay -> RowType]
    BY DEF TypeInv, TypeOK, RowType
  <1>2. QED
    BY <1>1, MaxDayNat

LEMMA StreamInt == ASSUME TypeInv PROVE stream \in Int
  <1>1. stream \in Pnl \cup {0}
    BY DEF TypeInv, TypeOK
  <1>2. QED
    BY <1>1, PnlAssumption

LEMMA InitTypeInv == Init => TypeInv
  <1> SUFFICES ASSUME Init PROVE TypeInv
    OBVIOUS
  <1>1. risk \in RiskType /\ Named(risk)
    BY DEF Init, Fresh, RiskType, Reasons, Named
  <1>2. day \in Nat /\ day <= MaxDay
    BY MaxDayNat DEF Init
  <1>3. rows \in [0 .. MaxDay -> [losses : Nat, amount : Nat]]
    BY DEF Init, NoRows
  <1>4. /\ guard \in [suspended : BOOLEAN, ticks : Nat, pc : {"idle", "resume", "scan"}]
        /\ rec \in [pc : {"read", "write", "relock", "done", "failed"},
                    snap : [losses : Nat, amount : Nat]]
    BY DEF Init, IdleGuard, Unread, NoRows
  <1>5. /\ pc \in [Placer -> {"idle", "risk", "place"}]
        /\ want \in [Placer -> Orders \cup {NoOrder}]
        /\ used \in [Events -> Nat]
    BY DEF Init
  <1>6. QED
    BY <1>1, <1>2, <1>3, <1>4, <1>5 DEF Init, TypeInv, TypeOK, RiskType, Named

LEMMA SetRiskTypeOK ==
  ASSUME TypeInv, NEW r \in RiskType, SetRisk(r)
  PROVE  risk' = r /\ late' \in Nat /\ unlocks' \in Nat
  BY DEF SetRisk, TypeInv, TypeOK

GuardType == [suspended : BOOLEAN, ticks : Nat, pc : {"idle", "resume", "scan"}]
RecType   == [pc : {"read", "write", "relock", "done", "failed"}, snap : RowType]

LEMMA PartsTyped ==
  ASSUME TypeInv
  PROVE  /\ guard \in GuardType /\ rec \in RecType
         /\ pc \in [Placer -> {"idle", "risk", "place"}]
         /\ want \in [Placer -> Orders \cup {NoOrder}]
         /\ late \in Nat /\ unlocks \in Nat
  BY DEF TypeInv, TypeOK, GuardType, RecType, RowType

LEMMA RiskTyped == ASSUME TypeInv PROVE risk \in RiskType /\ Named(risk) /\ day \in Nat
  BY DEF TypeInv, TypeOK, RiskType, Named

LEMMA UseTypeOK ==
  ASSUME TypeInv, NEW e \in Events, Use(e) PROVE used' \in [Events -> Nat]
  <1>1. used \in [Events -> Nat] /\ used' = [used EXCEPT ![e] = used[e] + 1]
    BY DEF Use, TypeInv, TypeOK
  <1>2. QED
    BY <1>1

\* Closed trades, the recovery, midnight and a restart.
LEMMA DayTypeInv ==
  ASSUME TypeInv,
         \/ \E p \in Pnl : CloseTrade(p)
         \/ ReportTrade \/ Recover \/ ReadStatus \/ Midnight \/ Restart
  PROVE  TypeInv'
  <1>0. /\ risk \in RiskType /\ Named(risk) /\ day \in Nat
        /\ day \in 0 .. MaxDay /\ rows[day] \in RowType /\ MaxDay \in Nat
    BY RiskTyped, RowToday, MaxDayNat
  <1>1. ASSUME NEW p \in Pnl, CloseTrade(p) PROVE TypeInv'
    <2>1. p \in Int
      BY PnlAssumption
    <2>2. Counted(rows[day], p) \in RowType
      BY <1>0, <2>1, CountedRow
    <2>3. rows' \in [0 .. MaxDay -> RowType]
      BY <1>0, <1>1, <2>2 DEF CloseTrade, TypeInv, TypeOK, RowType
    <2>4. used' \in [Events -> Nat]
      BY <1>1, UseTypeOK DEF CloseTrade, Events
    <2>5. QED
      BY <1>1, <2>3, <2>4 DEF CloseTrade, TypeInv, TypeOK, RowType, switches
  <1>2. CASE ReportTrade
    <2>1. stream \in Int
      BY StreamInt
    <2>2. AddDailyPnl(stream) \in RiskType /\ Named(AddDailyPnl(stream))
      BY <1>0, <2>1, AddDailyPnlFacts
    <2>3. risk' = AddDailyPnl(stream) /\ late' \in Nat /\ unlocks' \in Nat
      BY <1>2, <2>2, SetRiskTypeOK DEF ReportTrade
    <2>4. QED
      BY <1>2, <2>2, <2>3 DEF ReportTrade, TypeInv, TypeOK, RiskType, Named, switches
  <1>3. CASE RecoverRead
    <2>1. rec' \in RecType
      BY <1>0, <1>3, PartsTyped DEF RecoverRead, RecType
    <2>2. QED
      BY <1>3, <2>1 DEF RecoverRead, RecType, TypeInv, TypeOK, RowType, switches
  <1>4. CASE RecoverWrite
    <2> DEFINE r == [risk EXCEPT !.losses = rec.snap.losses, !.amount = rec.snap.amount]
    <2>1. rec.snap.losses \in Nat /\ rec.snap.amount \in Nat
      BY DEF TypeInv, TypeOK
    <2>2. r \in RiskType /\ Named(r)
      BY <1>0, <2>1 DEF RiskType, Named
    <2>3. risk' = r /\ late' \in Nat /\ unlocks' \in Nat
      BY <1>4, <2>2, SetRiskTypeOK DEF RecoverWrite
    <2> HIDE DEF r
    <2>4. QED
      BY <1>4, <2>2, <2>3 DEF RecoverWrite, TypeInv, TypeOK, RiskType, Named, switches
  <1>5. CASE RecoverLock
    <2>1. AddDailyPnl(0) \in RiskType /\ Named(AddDailyPnl(0))
      BY <1>0, AddDailyPnlFacts
    <2>2. risk' = AddDailyPnl(0) /\ late' \in Nat /\ unlocks' \in Nat
      BY <1>5, <2>1, SetRiskTypeOK DEF RecoverLock
    <2>3. QED
      BY <1>5, <2>1, <2>2 DEF RecoverLock, TypeInv, TypeOK, RiskType, Named, switches
  <1>6. CASE ReadStatus
    <2>1. Today(risk) \in RiskType /\ Named(Today(risk))
      BY <1>0, TodayFacts
    <2>2. risk' = Today(risk) /\ late' \in Nat /\ unlocks' \in Nat
      BY <1>6, <2>1, SetRiskTypeOK DEF ReadStatus
    <2>3. QED
      BY <1>6, <2>1, <2>2 DEF ReadStatus, TypeInv, TypeOK, RiskType, Named, switches, threads
  <1>7. CASE Midnight
    <2>1. day' \in Nat /\ day' <= MaxDay
      BY <1>0, <1>7 DEF Midnight
    <2>2. blurred' \in BOOLEAN
      BY <1>7 DEF Midnight
    <2>3. QED
      BY <1>7, <2>1, <2>2 DEF Midnight, TypeInv, TypeOK, switches, threads
  <1>8. CASE Restart
    <2>1. Fresh(day) \in RiskType /\ Named(Fresh(day))
      BY <1>0 DEF Fresh, RiskType, Reasons, Named
    <2>2. used' \in [Events -> Nat]
      BY <1>8, UseTypeOK DEF Restart, Events
    <2>3. QED
      BY <1>8, <2>1, <2>2, SwitchAssumption
      DEF Restart, TypeInv, TypeOK, RiskType, Named, IdleGuard, Unread, NoRows
  <1>9. QED
    BY <1>1, <1>2, <1>3, <1>4, <1>5, <1>6, <1>7, <1>8 DEF Recover

\* Unlocks, the volatility guard, the kill switches and the placers.
LEMMA OtherTypeInv ==
  ASSUME TypeInv,
         ManualUnlock \/ Guard \/ Switch \/ \E p \in Placer : Place(p)
  PROVE  TypeInv'
  <1>0. /\ risk \in RiskType /\ Named(risk) /\ day \in Nat
        /\ Unlocked(risk) \in RiskType /\ Named(Unlocked(risk))
    BY RiskTyped, UnlockedFacts
  <1>1. CASE ManualUnlock
    <2>1. used' \in [Events -> Nat]
      BY <1>1, UseTypeOK DEF ManualUnlock, Events
    <2>2. risk' \in RiskType /\ Named(risk') /\ unlocks' \in Nat
      BY <1>0, <1>1, PartsTyped DEF ManualUnlock
    <2>3. QED
      BY <1>1, <2>1, <2>2 DEF ManualUnlock, TypeInv, TypeOK, RiskType, Named, switches, threads
  <1>2. CASE GuardTick
    <2> DEFINE n == IF guard.ticks > 0 THEN guard.ticks - 1 ELSE 0
    <2>1. guard \in GuardType /\ guard.ticks \in Nat
      BY PartsTyped DEF GuardType
    <2>2. n \in Nat
      BY <2>1
    <2>3. guard' = [guard EXCEPT !.ticks = n, !.pc = IF guard.suspended /\ guard.ticks <= 1
                                                   THEN "resume" ELSE "scan"]
      BY <1>2 DEF GuardTick
    <2> HIDE DEF n
    <2>4. guard' \in GuardType
      BY <2>1, <2>2, <2>3 DEF GuardType
    <2>5. QED
      BY <1>2, <2>4 DEF GuardTick, GuardType, TypeInv, TypeOK, switches, threads
  <1>3. CASE GuardResume
    <2>1. risk' \in RiskType /\ Named(risk') /\ unlocks' \in Nat
      BY <1>0, <1>3, PartsTyped DEF GuardResume
    <2>2. guard' \in GuardType
      BY <1>3, PartsTyped DEF GuardResume, GuardType
    <2>3. QED
      BY <1>3, <2>1, <2>2 DEF GuardResume, GuardType, TypeInv, TypeOK, RiskType, Named, switches, threads
  <1>4. CASE GuardQuiet
    BY <1>4 DEF GuardQuiet, TypeInv, TypeOK, switches, threads
  <1>5. CASE GuardTrigger
    <2>1. Lock(risk, "volatility") \in RiskType /\ Named(Lock(risk, "volatility"))
      BY <1>0, LockFacts DEF Reasons
    <2>2. risk' = Lock(risk, "volatility") /\ late' \in Nat /\ unlocks' \in Nat
      BY <1>5, <2>1, SetRiskTypeOK DEF GuardTrigger
    <2>3. used' \in [Events -> Nat]
      BY <1>5, UseTypeOK DEF GuardTrigger, Events
    <2>4. QED
      BY <1>5, <2>1, <2>2, <2>3, GuardAssumption
      DEF GuardTrigger, TypeInv, TypeOK, RiskType, Named, switches, threads
  <1>6. CASE Switch
    <2>1. used' \in [Events -> Nat]
      BY <1>6, UseTypeOK DEF Switch, SwitchAccount, SwitchSymbol, SwitchStrategy, Events
    <2>2. QED
      BY <1>6, <2>1
      DEF Switch, SwitchAccount, SwitchSymbol, SwitchStrategy, TypeInv, TypeOK, threads
  <1>7. ASSUME NEW p \in Placer, NEW o \in Orders, AskKillSwitch(p, o) PROVE TypeInv'
    BY <1>7 DEF AskKillSwitch, TypeInv, TypeOK, switches
  <1>8. ASSUME NEW p \in Placer, AskRisk(p) PROVE TypeInv'
    <2> DEFINE r == IF Enabled THEN Today(risk) ELSE risk
    <2>1. r \in RiskType /\ Named(r)
      BY <1>0, TodayFacts
    <2>2. risk' = r /\ late' \in Nat /\ unlocks' \in Nat
      BY <1>8, <2>1, SetRiskTypeOK DEF AskRisk
    <2>3. /\ pc' \in [Placer -> {"idle", "risk", "place"}]
          /\ want' \in [Placer -> Orders \cup {NoOrder}]
      BY <1>8, PartsTyped DEF AskRisk
    <2> HIDE DEF r
    <2>4. QED
      BY <1>8, <2>1, <2>2, <2>3, ZenonT(60) DEF AskRisk, TypeInv, TypeOK, RiskType, Named, switches
  <1>9. ASSUME NEW p \in Placer, SendOrder(p) PROVE TypeInv'
    <2>1. used' \in [Events -> Nat]
      BY <1>9, UseTypeOK DEF SendOrder, Events
    <2>2. late' \in Nat
      BY <1>9, PartsTyped DEF SendOrder
    <2>3. /\ pc' \in [Placer -> {"idle", "risk", "place"}]
          /\ want' \in [Placer -> Orders \cup {NoOrder}]
      BY <1>9, PartsTyped DEF SendOrder
    <2>4. QED
      BY <1>9, <2>1, <2>2, <2>3 DEF SendOrder, TypeInv, TypeOK, switches
  <1>10. QED
    BY <1>1, <1>2, <1>3, <1>4, <1>5, <1>6, <1>7, <1>8, <1>9 DEF Guard, Place

LEMMA NextTypeInv == TypeInv /\ [Next]_vars => TypeInv'
  <1> SUFFICES ASSUME TypeInv, [Next]_vars PROVE TypeInv'
    OBVIOUS
  <1>1. CASE UNCHANGED vars
    BY <1>1 DEF vars, switches, threads, TypeInv, TypeOK
  <1>2. CASE Next
    BY <1>2, DayTypeInv, OtherTypeInv DEF Next
  <1>3. QED
    BY <1>1, <1>2

LEMMA CalendarEnds == Spec => []TypeInv
  BY InitTypeInv, NextTypeInv, PTL DEF Spec

\* The shape of the state, for any limits, placers and bounds.
THEOREM TypeCorrect == Spec => []TypeOK
  <1>1. TypeInv => TypeOK
    BY DEF TypeInv
  <1>2. QED
    BY <1>1, CalendarEnds, PTL

-----------------------------------------------------------------------------
(* LimitMeansLocked.  The one step that writes counters and leaves them     *)
(* unlocked is the recovery that found no losing trade; it is harmless      *)
(* because a day without a losing trade has no loss.                        *)
NoLossNoAmount(r) == r.losses = 0 => r.amount = 0

TableSane == /\ \A d \in 0 .. MaxDay : NoLossNoAmount(rows[d])
             /\ NoLossNoAmount(rec.snap)

LimitInv == TypeInv /\ TableSane /\ LimitMeansLocked

\* The steps that store no trade and read none.
LEMMA TableFrame ==
  ASSUME \/ ReportTrade \/ RecoverWrite \/ RecoverLock \/ Guard \/ Switch
         \/ ManualUnlock \/ ReadStatus \/ Midnight
         \/ \E p \in Placer : Place(p),
         rec \in RecType
  PROVE  rows' = rows /\ rec'.snap = rec.snap
  BY DEF ReportTrade, RecoverWrite, RecoverLock, Guard, GuardTick, GuardResume,
         GuardQuiet, GuardTrigger, Switch, SwitchAccount, SwitchSymbol, SwitchStrategy,
         ManualUnlock, ReadStatus, Midnight, Place, AskKillSwitch, AskRisk, SendOrder,
         threads, RecType

LEMMA NextTableSane ==
  ASSUME TypeInv, TableSane, Next
  PROVE  TableSane'
  <1>0. /\ day \in 0 .. MaxDay /\ rows[day] \in RowType /\ rec \in RecType
        /\ rows \in [0 .. MaxDay -> RowType]
    BY RowToday, PartsTyped DEF TypeInv, TypeOK, RowType
  <1>1. ASSUME NEW p \in Pnl, CloseTrade(p) PROVE TableSane'
    <2>1. Counted(rows[day], p) \in RowType /\ NoLossNoAmount(Counted(rows[day], p))
      <3>1. p \in Int /\ rows[day].losses \in Nat /\ NoLossNoAmount(rows[day])
        BY <1>0, PnlAssumption DEF RowType, TableSane
      <3>2. CASE p < 0
        <4>1. Counted(rows[day], p) \in RowType
          BY <1>0, <3>1, CountedRow
        <4>2. Counted(rows[day], p).losses = rows[day].losses + 1
          BY <1>0, <3>1, <3>2, CountedRow
        <4>3. QED
          BY <3>1, <4>1, <4>2 DEF NoLossNoAmount
      <3>3. CASE ~(p < 0)
        BY <1>0, <3>1, <3>3 DEF Counted
      <3>4. QED
        BY <3>2, <3>3
    <2>2. QED
      BY <1>0, <1>1, <2>1 DEF CloseTrade, TableSane
  <1>2. CASE RecoverRead
    BY <1>0, <1>2 DEF RecoverRead, TableSane, RecType
  <1>3. CASE Restart
    BY <1>3 DEF Restart, TableSane, NoLossNoAmount, Unread, NoRows
  <1>4. CASE rows' = rows /\ rec'.snap = rec.snap
    BY <1>4 DEF TableSane
  <1>5. QED
    BY <1>0, <1>1, <1>2, <1>3, <1>4, TableFrame DEF Next, Recover

LEMMA FreshIsBelow == ASSUME NEW d PROVE ~LimitReached(Fresh(d))
  BY LimitAssumption DEF LimitReached, Fresh

\* Resetting the counters of a day that is over.
LEMMA TodayLimit ==
  ASSUME TypeInv, LimitMeansLocked, SetRisk(Today(risk)), rec' = rec
  PROVE  LimitMeansLocked'
  <1>1. CASE risk.resetDay = day
    BY <1>1 DEF Today, SetRisk, LimitMeansLocked
  <1>2. CASE risk.resetDay # day
    BY <1>2, FreshIsBelow DEF Today, SetRisk, LimitMeansLocked
  <1>3. QED
    BY <1>1, <1>2

LEMMA NextLimit ==
  ASSUME TypeInv, TableSane, LimitMeansLocked, Next
  PROVE  LimitMeansLocked'
  <1>0. /\ risk \in RiskType /\ Named(risk) /\ day \in Nat
        /\ rec \in RecType /\ stream \in Int /\ unlocks \in Nat
    BY RiskTyped, PartsTyped, StreamInt
  <1>1. CASE /\ risk' = risk /\ unlocks' = unlocks
             /\ rec'.pc = "relock" <=> rec.pc = "relock"
    BY <1>1 DEF LimitMeansLocked
  <1>2. ASSUME NEW p \in Pnl, CloseTrade(p) PROVE LimitMeansLocked'
    BY <1>1, <1>2 DEF CloseTrade
  <1>3. CASE RecoverRead
    BY <1>0, <1>1, <1>3 DEF RecoverRead, RecType
  <1>4. CASE Midnight \/ GuardTick \/ GuardQuiet \/ Switch
    BY <1>1, <1>4 DEF Midnight, GuardTick, GuardQuiet, Switch, SwitchAccount,
       SwitchSymbol, SwitchStrategy, threads
  <1>5. CASE ManualUnlock \/ GuardResume
    <2>1. unlocks' # 0
      BY <1>0, <1>5 DEF ManualUnlock, GuardResume
    <2>2. QED
      BY <2>1 DEF LimitMeansLocked
  <1>6. CASE ReportTrade
    <2>1. (Enabled /\ LimitReached(risk')) => risk'.locked
      BY <1>0, <1>6, AddDailyPnlFacts DEF ReportTrade, SetRisk
    <2>2. QED
      BY <2>1 DEF LimitMeansLocked
  <1>7. CASE RecoverLock
    <2>1. (Enabled /\ LimitReached(risk')) => risk'.locked
      BY <1>0, <1>7, AddDailyPnlFacts DEF RecoverLock, SetRisk
    <2>2. QED
      BY <2>1 DEF LimitMeansLocked
  <1>8. CASE RecoverWrite
    <2>1. rec.snap.losses \in Nat
      BY <1>0 DEF RecType, RowType
    <2>2. CASE rec.snap.losses > 0
      BY <1>0, <1>8, <2>2 DEF RecoverWrite, LimitMeansLocked, RecType
    <2>3. CASE rec.snap.losses = 0
      <3>1. rec.snap.amount = 0
        BY <2>3 DEF TableSane, NoLossNoAmount
      <3>2. risk'.losses = 0 /\ risk'.amount = 0
        BY <1>0, <1>8, <2>3, <3>1 DEF RecoverWrite, SetRisk, RiskType
      <3>3. ~LimitReached(risk')
        BY <3>2, LimitAssumption DEF LimitReached
      <3>4. QED
        BY <3>3 DEF LimitMeansLocked
    <2>4. QED
      BY <2>1, <2>2, <2>3
  <1>9. CASE ReadStatus
    BY <1>9, TodayLimit DEF ReadStatus, threads
  <1>10. CASE GuardTrigger
    <2>1. risk'.locked
      BY <1>0, <1>10, LockFacts DEF GuardTrigger, SetRisk, Reasons
    <2>2. QED
      BY <2>1 DEF LimitMeansLocked
  <1>11. CASE Restart
    BY <1>11, FreshIsBelow DEF Restart, LimitMeansLocked
  <1>12. ASSUME NEW p \in Placer, Place(p) PROVE LimitMeansLocked'
    <2>1. CASE AskRisk(p)
      BY <2>1, TodayLimit DEF AskRisk, LimitMeansLocked
    <2>2. CASE SendOrder(p) \/ \E o \in Orders : AskKillSwitch(p, o)
      BY <1>1, <2>2 DEF SendOrder, AskKillSwitch
    <2>3. QED
      BY <1>12, <2>1, <2>2 DEF Place
  <1>13. QED
    BY <1>2, <1>3, <1>4, <1>5, <1>6, <1>7, <1>8, <1>9, <1>10, <1>11, <1>12
    DEF Next, Recover, Guard

\* A reached limit keeps the lock set until it is lifted or the day ends, for
\* any limits, any trades and any interleaving with recovery and restarts.
THEOREM ReachedLimitLocks == Spec => []LimitMeansLocked
  <1>1. Init => LimitInv
    <2> SUFFICES ASSUME Init PROVE LimitInv
      OBVIOUS
    <2>1. TableSane
      BY DEF Init, TableSane, NoLossNoAmount, NoRows, Unread
    <2>2. LimitMeansLocked
      BY FreshIsBelow DEF Init, LimitMeansLocked
    <2>3. QED
      BY <2>1, <2>2, InitTypeInv DEF LimitInv
  <1>2. LimitInv /\ [Next]_vars => LimitInv'
    <2> SUFFICES ASSUME LimitInv, [Next]_vars PROVE LimitInv'
      OBVIOUS
    <2>1. TypeInv'
      BY NextTypeInv DEF LimitInv
    <2>2. CASE UNCHANGED vars
      BY <2>1, <2>2 DEF vars, threads, LimitInv, TableSane, LimitMeansLocked
    <2>3. CASE Next
      BY <2>1, <2>3, NextTableSane, NextLimit DEF LimitInv
    <2>4. QED
      BY <2>2, <2>3
  <1>3. LimitInv => LimitMeansLocked
    BY DEF LimitInv
  <1>4. QED
    BY <1>1, <1>2, <1>3, PTL DEF Spec

-----------------------------------------------------------------------------
(* AtMostOneLateOrderEach.  Under a lock every order that still leaves was  *)
(* checked before it, so the orders sent and those checked but not yet sent *)
(* are together no more than the placers.                                   *)
Placing == {p \in Placer : pc[p] = "place"}

LateBound == Enabled =>
  /\ late <= Cardinality(Placer)
  /\ risk.locked => late + Cardinality(Placing) <= Cardinality(Placer)

LEMMA PlacerSubset ==
  ASSUME NEW S \in SUBSET Placer, NEW T \in SUBSET S
  PROVE  /\ IsFiniteSet(S) /\ IsFiniteSet(T)
         /\ Cardinality(Placer) \in Nat
         /\ Cardinality(S) \in Nat /\ Cardinality(T) \in Nat
         /\ Cardinality(T) <= Cardinality(S) /\ Cardinality(S) <= Cardinality(Placer)
  BY PlacerAssumption, FS_Subset, FS_CardinalityType

\* A step that assigns riskState, and lets nobody through who finds it locked.
LEMMA LateSetRisk ==
  ASSUME TypeInv, LateBound, NEW r, SetRisk(r),
         (Enabled /\ r.locked) => Placing' \subseteq Placing
  PROVE  LateBound'
  <1> SUFFICES ASSUME Enabled PROVE LateBound'
    BY DEF LateBound
  <1>1. Placing \subseteq Placer /\ Placing' \subseteq Placer /\ late \in Nat
    BY PartsTyped DEF Placing
  <1>2. CASE ~r.locked
    BY <1>2 DEF LateBound, SetRisk
  <1>3. CASE r.locked /\ ~risk.locked
    <2>1. late' = 0 /\ Cardinality(Placing') <= Cardinality(Placer)
          /\ Cardinality(Placer) \in Nat /\ Cardinality(Placing') \in Nat
      BY <1>1, <1>3, PlacerSubset DEF SetRisk
    <2>2. QED
      BY <2>1 DEF LateBound
  <1>4. CASE r.locked /\ risk.locked
    <2>1. late' = late /\ Placing' \subseteq Placing
      BY <1>4 DEF SetRisk
    <2>2. /\ Cardinality(Placing') <= Cardinality(Placing)
          /\ Cardinality(Placer) \in Nat
          /\ Cardinality(Placing') \in Nat /\ Cardinality(Placing) \in Nat
      BY <1>1, <2>1, PlacerSubset
    <2>3. QED
      BY <1>1, <1>4, <2>1, <2>2 DEF LateBound
  <1>5. QED
    BY <1>2, <1>3, <1>4

LEMMA LateUnlocked ==
  ASSUME LateBound, ~risk'.locked, late' = late PROVE LateBound'
  BY DEF LateBound

LEMMA SendLate ==
  ASSUME TypeInv, LateBound, NEW p \in Placer, SendOrder(p)
  PROVE  LateBound'
  <1> SUFFICES ASSUME Enabled PROVE LateBound'
    BY DEF LateBound
  <1>1. /\ Placing \subseteq Placer /\ p \in Placing /\ late \in Nat
        /\ Placing' = Placing \ {p}
    BY PartsTyped DEF Placing, SendOrder
  <1>2. /\ Cardinality(Placing') = Cardinality(Placing) - 1
        /\ Cardinality(Placing) \in Nat /\ Cardinality(Placer) \in Nat
        /\ Cardinality(Placing) - 1 >= 0
    <2>1. IsFiniteSet(Placing) /\ Cardinality(Placing) \in Nat /\ Cardinality(Placer) \in Nat
          /\ Cardinality(Placing') \in Nat
      BY <1>1, PlacerSubset
    <2>2. Cardinality(Placing \ {p}) = Cardinality(Placing) - 1
      BY <1>1, <2>1, FS_RemoveElement
    <2>3. QED
      BY <1>1, <2>1, <2>2
  <1>3. CASE ~risk.locked
    BY <1>3, LateUnlocked DEF SendOrder
  <1>4. CASE risk.locked
    <2>1. late' = late + 1 /\ risk' = risk
      BY <1>4 DEF SendOrder
    <2>2. QED
      BY <1>1, <1>2, <1>4, <2>1 DEF LateBound
  <1>5. QED
    BY <1>3, <1>4

LEMMA NextLate ==
  ASSUME TypeInv, LateBound, [Next]_vars PROVE LateBound'
  <1>0. /\ risk \in RiskType /\ Named(risk) /\ pc \in [Placer -> {"idle", "risk", "place"}]
    BY RiskTyped, PartsTyped
  <1>1. CASE risk' = risk /\ late' = late /\ Placing' = Placing
    BY <1>1 DEF LateBound
  <1>2. CASE UNCHANGED vars \/ (\E p \in Pnl : CloseTrade(p)) \/ RecoverRead \/ Midnight
             \/ GuardTick \/ GuardQuiet \/ Switch
    BY <1>1, <1>2 DEF vars, CloseTrade, RecoverRead, Midnight, GuardTick, GuardQuiet,
       Switch, SwitchAccount, SwitchSymbol, SwitchStrategy, threads, Placing
  <1>3. CASE ReportTrade \/ RecoverWrite \/ RecoverLock \/ ReadStatus \/ GuardTrigger
    <2>1. pc' = pc /\ \E r \in {risk'} : SetRisk(r)
      BY <1>3 DEF ReportTrade, RecoverWrite, RecoverLock, ReadStatus, GuardTrigger,
         SetRisk, threads
    <2>2. QED
      BY <2>1, LateSetRisk DEF Placing
  <1>4. CASE ManualUnlock \/ GuardResume
    <2>1. ~risk'.locked /\ late' = late
      BY <1>0, <1>4, UnlockedFacts DEF ManualUnlock, GuardResume
    <2>2. QED
      BY <2>1, LateUnlocked
  <1>5. CASE Restart
    <2>1. late' = 0 /\ ~risk'.locked
      BY <1>5 DEF Restart, Fresh
    <2>2. Cardinality(Placer) \in Nat
      BY PlacerSubset
    <2>3. QED
      BY <2>1, <2>2 DEF LateBound
  <1>6. ASSUME NEW p \in Placer, AskRisk(p) PROVE LateBound'
    <2> DEFINE r == IF Enabled THEN Today(risk) ELSE risk
    <2>1. SetRisk(r) /\ pc' = [pc EXCEPT ![p] = IF RiskPasses(r) THEN "place" ELSE "idle"]
      BY <1>6 DEF AskRisk
    <2>2. (Enabled /\ r.locked) => pc' = [pc EXCEPT ![p] = "idle"]
      BY <2>1 DEF RiskPasses
    <2>3. (Enabled /\ r.locked) => Placing' \subseteq Placing
      BY <1>0, <2>2 DEF Placing
    <2> HIDE DEF r
    <2>4. QED
      BY <2>1, <2>3, LateSetRisk
  <1>7. ASSUME NEW p \in Placer, NEW o \in Orders, AskKillSwitch(p, o) PROVE LateBound'
    <2>1. Placing' = Placing
      BY <1>0, <1>7 DEF AskKillSwitch, Placing
    <2>2. QED
      BY <1>1, <1>7, <2>1 DEF AskKillSwitch
  <1>8. QED
    BY <1>2, <1>3, <1>4, <1>5, <1>6, <1>7, SendLate DEF Next, Recover, Guard, Place

\* After a lock is set each placer gets at most one order through, for any
\* number of placers, although the check and the order are separate steps.
THEOREM LateOrdersBounded == Spec => []AtMostOneLateOrderEach
  <1>1. Init => LateBound
    <2>1. Cardinality(Placer) \in Nat
      BY PlacerSubset
    <2>2. Init => late = 0 /\ risk = Fresh(0)
      BY DEF Init
    <2>3. ~Fresh(0).locked
      BY DEF Fresh
    <2>4. QED
      BY <2>1, <2>2, <2>3 DEF LateBound
  <1>2. TypeInv /\ LateBound /\ [Next]_vars => LateBound'
    BY NextLate
  <1>3. LateBound => AtMostOneLateOrderEach
    BY DEF LateBound, AtMostOneLateOrderEach
  <1>4. QED
    BY <1>1, <1>2, <1>3, CalendarEnds, PTL DEF Spec

-----------------------------------------------------------------------------
(* CountersMatchTable.  In the clear case the counters lag behind the table *)
(* by the one trade the user stream is reporting, and the recovery, while   *)
(* it runs, has the day to itself.                                          *)
SameCounts(r, q) == r.losses = q.losses /\ r.amount = q.amount

CountersInv ==
  /\ risk.resetDay <= day
  /\ \A d \in 0 .. MaxDay : d > day => rows[d] = NoRows
  /\ (Enabled /\ ~blurred) =>
       /\ rec.pc = "done" => SameCounts(Counted(Today(risk), stream), rows[day])
       /\ rec.pc \in {"read", "write", "relock"} => stream = 0 /\ risk.resetDay = day
       /\ rec.pc = "write" => rec.snap = rows[day]
       /\ rec.pc = "relock" => SameCounts(risk, rows[day])

LEMMA CountedZero == ASSUME NEW r PROVE Counted(r, 0) = r
  BY DEF Counted

LEMMA SameAfterTrade ==
  ASSUME NEW r \in RiskType, NEW q \in RowType, NEW p \in Int, SameCounts(r, q)
  PROVE  SameCounts(Counted(r, p), Counted(q, p))
  BY CountedFacts, CountedRow DEF SameCounts

\* Locking and unlocking do not touch the counters.
LEMMA SameCountersToday ==
  ASSUME TypeInv, NEW r \in RiskType, Named(r), NEW p \in Int,
         r.losses = risk.losses, r.amount = risk.amount, r.resetDay = risk.resetDay
  PROVE  /\ Counted(Today(r), p).losses = Counted(Today(risk), p).losses
         /\ Counted(Today(r), p).amount = Counted(Today(risk), p).amount
  <1>1. risk \in RiskType /\ Named(risk) /\ day \in Nat
    BY RiskTyped
  <1>2. /\ Today(r) \in RiskType /\ Today(risk) \in RiskType
        /\ Today(r).losses = Today(risk).losses /\ Today(r).amount = Today(risk).amount
    BY <1>1, TodayFacts
  <1>3. QED
    BY <1>2, CountedFacts

\* What the locks, the unlocks, the switches and the placers leave alone.
LEMMA CountersQuiet ==
  ASSUME TypeInv, CountersInv, risk' \in RiskType, Named(risk'),
         day' = day, rows' = rows, rec' = rec, stream' = stream, blurred' = blurred,
         risk'.losses = risk.losses, risk'.amount = risk.amount,
         risk'.resetDay = risk.resetDay
  PROVE  CountersInv'
  <1>1. stream \in Int
    BY StreamInt
  <1>2. Today(risk)' = IF risk'.resetDay = day THEN risk' ELSE Fresh(day)
    BY DEF Today, Fresh
  <1>3. Today(risk') = Today(risk)'
    BY <1>2 DEF Today
  <1>4. /\ Counted(Today(risk)', stream).losses = Counted(Today(risk), stream).losses
        /\ Counted(Today(risk)', stream).amount = Counted(Today(risk), stream).amount
    BY <1>1, <1>3, SameCountersToday
  <1>5. Counted(Today(risk), stream)' = Counted(Today(risk)', stream)
    BY DEF Counted
  <1>6. QED
    BY <1>4, <1>5 DEF CountersInv, SameCounts

LEMMA CountersClose ==
  ASSUME TypeInv, CountersInv, NEW p \in Pnl, CloseTrade(p)
  PROVE  CountersInv'
  <1>0. /\ risk \in RiskType /\ Named(risk) /\ day \in 0 .. MaxDay /\ day \in Nat
        /\ rows[day] \in RowType /\ p \in Int /\ MaxDay \in Nat
        /\ rows \in [0 .. MaxDay -> RowType]
    BY RiskTyped, RowToday, PnlAssumption, MaxDayNat DEF TypeInv, TypeOK, RowType
  <1>1. /\ day' = day /\ risk' = risk /\ rec' = rec /\ stream = 0 /\ stream' = p
        /\ rows' = [rows EXCEPT ![day] = Counted(rows[day], p)]
        /\ ~blurred' => ~blurred /\ rec.pc = "done"
    BY <1>0 DEF CloseTrade
  <1>2. risk.resetDay <= day /\ \A d \in 0 .. MaxDay : d > day => rows'[d] = NoRows
    BY <1>0, <1>1 DEF CountersInv
  <1>3. ASSUME Enabled, ~blurred' PROVE SameCounts(Counted(Today(risk), p), rows'[day])
    <2>1. SameCounts(Counted(Today(risk), 0), rows[day])
      BY <1>1, <1>3 DEF CountersInv
    <2>2. SameCounts(Today(risk), rows[day])
      BY <2>1, CountedZero
    <2>3. QED
      BY <1>0, <1>1, <2>2, TodayFacts, SameAfterTrade
  <1>4. Counted(Today(risk), stream)' = Counted(Today(risk), p)
    BY <1>1 DEF Counted, Today, Fresh
  <1>5. QED
    BY <1>1, <1>2, <1>3, <1>4 DEF CountersInv

LEMMA CountersReport ==
  ASSUME TypeInv, CountersInv, ReportTrade
  PROVE  CountersInv'
  <1>0. /\ risk \in RiskType /\ Named(risk) /\ day \in Nat /\ stream \in Int
    BY RiskTyped, StreamInt
  <1>1. /\ day' = day /\ rows' = rows /\ rec' = rec /\ stream # 0 /\ stream' = 0
        /\ blurred' = blurred /\ risk' = AddDailyPnl(stream)
    BY DEF ReportTrade, SetRisk
  <1>2. risk'.resetDay <= day
    BY <1>0, <1>1, AddDailyPnlFacts DEF CountersInv
  <1>3. ASSUME Enabled PROVE Counted(Today(risk), stream)' = risk'
    <2>1. risk'.resetDay = day
      BY <1>0, <1>1, <1>3, AddDailyPnlFacts
    <2>2. Today(risk)' = risk'
      BY <1>1, <2>1 DEF Today
    <2>3. Counted(Today(risk), stream)' = Counted(Today(risk)', 0)
      BY <1>1 DEF Counted
    <2>4. QED
      BY <2>2, <2>3, CountedZero
  <1>4. ASSUME Enabled, ~blurred, rec.pc = "done" PROVE SameCounts(risk', rows[day])
    BY <1>0, <1>1, <1>4, AddDailyPnlFacts DEF CountersInv, SameCounts
  <1>5. QED
    BY <1>1, <1>2, <1>3, <1>4 DEF CountersInv

LEMMA CountersRecover ==
  ASSUME TypeInv, CountersInv, Recover
  PROVE  CountersInv'
  <1>0. /\ risk \in RiskType /\ Named(risk) /\ day \in Nat /\ rec \in RecType
        /\ rows[day] \in RowType
    BY RiskTyped, PartsTyped, RowToday
  <1>1. day' = day /\ rows' = rows /\ stream' = stream /\ blurred' = blurred
    BY DEF Recover, RecoverRead, RecoverWrite, RecoverLock
  <1>2. CASE RecoverRead
    BY <1>0, <1>1, <1>2 DEF RecoverRead, CountersInv, RecType
  <1>3. CASE RecoverWrite
    <2>1. /\ risk' = [risk EXCEPT !.losses = rec.snap.losses, !.amount = rec.snap.amount]
          /\ rec.pc = "write" /\ rec'.pc \in {"relock", "done"}
          /\ rec' = [rec EXCEPT !.pc = rec'.pc]
      BY <1>0, <1>3 DEF RecoverWrite, SetRisk, RecType
    <2>2. risk'.resetDay = risk.resetDay /\ risk'.losses = rec.snap.losses
          /\ risk'.amount = rec.snap.amount
      BY <1>0, <2>1 DEF RiskType
    <2>3. ASSUME Enabled, ~blurred
          PROVE  stream = 0 /\ risk.resetDay = day /\ SameCounts(risk', rows[day])
      BY <2>1, <2>2, <2>3 DEF CountersInv, SameCounts
    <2>4. ASSUME Enabled, ~blurred
          PROVE  Counted(Today(risk), stream)' = risk'
      <3>1. Today(risk)' = risk' /\ stream' = 0
        BY <1>1, <2>2, <2>3, <2>4 DEF Today
      <3>2. QED
        BY <3>1, CountedZero DEF Counted
    <2>5. QED
      BY <1>1, <2>1, <2>2, <2>3, <2>4 DEF CountersInv
  <1>4. CASE RecoverLock
    <2>1. /\ risk' = AddDailyPnl(0) /\ rec.pc = "relock" /\ rec'.pc = "done"
      BY <1>0, <1>4 DEF RecoverLock, SetRisk, RecType
    <2>2. risk'.resetDay <= day
      BY <1>0, <2>1, AddDailyPnlFacts DEF CountersInv
    <2>3. ASSUME Enabled, ~blurred
          PROVE  SameCounts(Counted(Today(risk), stream)', rows[day])
      <3>1. stream = 0 /\ Today(risk) = risk /\ SameCounts(risk, rows[day])
        BY <2>1, <2>3 DEF CountersInv, Today
      <3>2. risk'.resetDay = day /\ SameCounts(risk', rows[day])
        BY <1>0, <2>1, <2>3, <3>1, AddDailyPnlFacts, CountedZero DEF SameCounts
      <3>3. Counted(Today(risk), stream)' = risk'
        BY <1>1, <3>1, <3>2 DEF Today, Counted
      <3>4. QED
        BY <3>2, <3>3
    <2>4. QED
      BY <1>1, <2>1, <2>2, <2>3 DEF CountersInv
  <1>5. QED
    BY <1>2, <1>3, <1>4 DEF Recover

\* Resetting the counters of a day that is over changes what they are, and not
\* what they count today.
LEMMA CountersToday ==
  ASSUME TypeInv, CountersInv, risk' = Today(risk),
         day' = day, rows' = rows, rec' = rec, stream' = stream, blurred' = blurred
  PROVE  CountersInv'
  <1>0. /\ risk \in RiskType /\ Named(risk) /\ day \in Nat
    BY RiskTyped
  <1>1. risk'.resetDay = day /\ (risk.resetDay = day => risk' = risk)
    BY <1>0, TodayFacts
  <1>2. Today(risk)' = Today(risk)
    BY <1>1 DEF Today
  <1>3. Counted(Today(risk), stream)' = Counted(Today(risk), stream)
    BY <1>2 DEF Counted
  <1>4. QED
    BY <1>0, <1>1, <1>3 DEF CountersInv

LEMMA CountersMidnight ==
  ASSUME TypeInv, CountersInv, Midnight
  PROVE  CountersInv'
  <1>0. day \in Nat /\ MaxDay \in Nat /\ risk \in RiskType /\ risk.resetDay \in Nat
    BY RiskTyped, MaxDayNat DEF RiskType
  <1>1. /\ day' = day + 1 /\ risk' = risk /\ rows' = rows /\ rec' = rec
        /\ stream' = stream /\ day' \in 0 .. MaxDay /\ day' > day
    BY <1>0 DEF Midnight, threads
  <1>a. ~blurred' => stream = 0 /\ rec.pc = "done"
    BY DEF Midnight
  <1>2. /\ risk'.resetDay < day' /\ rows'[day'] = NoRows
        /\ \A d \in 0 .. MaxDay : d > day' => rows'[d] = NoRows
    BY <1>0, <1>1 DEF CountersInv
  <1>3. ASSUME ~blurred' PROVE Counted(Today(risk), stream)' = Fresh(day')
    <2>1. Today(risk)' = IF risk'.resetDay = day' THEN risk' ELSE Fresh(day')
      BY DEF Today, Fresh
    <2>2. risk'.resetDay # day'
      BY <1>0, <1>1, <1>2
    <2>3. QED
      BY <1>1, <1>a, <1>3, <2>1, <2>2 DEF Counted
  <1>4. SameCounts(Fresh(day'), NoRows)
    BY DEF SameCounts, Fresh, NoRows
  <1>5. QED
    BY <1>0, <1>1, <1>a, <1>2, <1>3, <1>4 DEF CountersInv

LEMMA NextCounters ==
  ASSUME TypeInv, CountersInv, [Next]_vars PROVE CountersInv'
  <1>0. /\ risk \in RiskType /\ Named(risk) /\ day \in Nat
        /\ Unlocked(risk) \in RiskType /\ Named(Unlocked(risk))
    BY RiskTyped, UnlockedFacts
  <1>1. CASE risk' = risk /\ UNCHANGED <<day, rows, rec, stream, blurred>>
    BY <1>0, <1>1, CountersQuiet
  <1>2. CASE UNCHANGED vars \/ GuardTick \/ GuardQuiet \/ Switch
             \/ (\E p \in Placer : SendOrder(p) \/ \E o \in Orders : AskKillSwitch(p, o))
    BY <1>1, <1>2 DEF vars, GuardTick, GuardQuiet, Switch, SwitchAccount,
       SwitchSymbol, SwitchStrategy, SendOrder, AskKillSwitch, threads
  <1>3. CASE ManualUnlock \/ GuardResume
    <2>1. risk' = Unlocked(risk) /\ UNCHANGED <<day, rows, rec, stream, blurred>>
      BY <1>3 DEF ManualUnlock, GuardResume, threads
    <2>2. QED
      BY <1>0, <2>1, UnlockedFacts, CountersQuiet
  <1>4. CASE GuardTrigger
    <2>1. risk' = Lock(risk, "volatility") /\ UNCHANGED <<day, rows, rec, stream, blurred>>
      BY <1>4 DEF GuardTrigger, SetRisk, threads
    <2>2. "volatility" \in Reasons \ {""}
      BY DEF Reasons
    <2>3. /\ risk' \in RiskType /\ Named(risk')
          /\ risk'.losses = risk.losses /\ risk'.amount = risk.amount
          /\ risk'.resetDay = risk.resetDay
      BY <1>0, <2>1, <2>2, LockFacts
    <2>4. QED
      BY <2>1, <2>3, CountersQuiet
  <1>5. CASE ReadStatus
    <2>1. risk' = Today(risk) /\ UNCHANGED <<day, rows, rec, stream, blurred>>
      BY <1>5 DEF ReadStatus, SetRisk, threads
    <2>2. QED
      BY <2>1, CountersToday
  <1>6. ASSUME NEW p \in Placer, AskRisk(p) PROVE CountersInv'
    <2>1. /\ risk' = IF Enabled THEN Today(risk) ELSE risk
          /\ UNCHANGED <<day, rows, rec, stream, blurred>>
      BY <1>6 DEF AskRisk, SetRisk
    <2>2. QED
      BY <1>1, <2>1, CountersToday
  <1>7. CASE Restart
    <2>1. /\ risk' = Fresh(day) /\ day' = day /\ rows' = rows /\ stream' = 0
          /\ rec' = Unread
      BY <1>7 DEF Restart
    <2>2. risk'.resetDay = day /\ (Enabled => rec'.pc = "read")
      BY <2>1 DEF Fresh, Unread
    <2>3. QED
      BY <1>0, <2>1, <2>2 DEF CountersInv
  <1>8. QED
    BY <1>2, <1>3, <1>4, <1>5, <1>6, <1>7, CountersClose, CountersReport,
       CountersRecover, CountersMidnight DEF Next, Guard, Place

\* Unless a close overlapped the recovery or midnight, the counters are those
\* of the table, for any trades, restarts and interleavings.
THEOREM CountersAreTheTables == Spec => []CountersMatchTable
  <1>1. Init => CountersInv
    <2> SUFFICES ASSUME Init PROVE CountersInv
      OBVIOUS
    <2>1. /\ day = 0 /\ risk = Fresh(0) /\ rows = [d \in 0 .. MaxDay |-> NoRows]
          /\ stream = 0 /\ rec = Unread
      BY DEF Init
    <2>2. risk.resetDay = day /\ (Enabled => rec.pc = "read")
      BY <2>1 DEF Fresh, Unread
    <2>3. QED
      BY <2>1, <2>2 DEF CountersInv
  <1>2. TypeInv /\ CountersInv /\ [Next]_vars => CountersInv'
    BY NextCounters
  <1>3. TypeInv /\ CountersInv => CountersMatchTable
    <2> SUFFICES ASSUME TypeInv, CountersInv, Enabled, ~blurred, rec.pc = "done",
                        stream = 0, risk.resetDay = day
                 PROVE  SameCounts(risk, rows[day])
      BY DEF CountersMatchTable, SameCounts
    <2>1. Counted(Today(risk), 0) = risk
      BY CountedZero DEF Today
    <2>2. QED
      BY <2>1 DEF CountersInv
  <1>4. QED
    BY <1>1, <1>2, <1>3, CalendarEnds, PTL DEF Spec

=============================================================================
