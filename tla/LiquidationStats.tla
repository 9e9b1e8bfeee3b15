-------------------------- MODULE LiquidationStats --------------------------
(***************************************************************************)
(* Counting the exchange's forced liquidations                             *)
(* (src/api/ws_liquidation_stats.go, liquidation_history.go).  Collectors, *)
(* each with its own connection, put what they read into one store of      *)
(* buckets by hour and by day; a loop writes the current bucket's row to   *)
(* the database when the store has changed.  One collector and one loop    *)
(* run in the background for good, another pair runs while a browser       *)
(* watches.  A goroutine knows its stop channel; channels are numbered.    *)
(***************************************************************************)
EXTENDS Integers, Sequences, FiniteSets, Functions

CONSTANTS Client,      \* browser connections
          MaxHour,     \* bound: hours
          DayHours,    \* hours in a day
          Retention,   \* hours kept (30 days)
          PruneEvery,  \* events between two prunings (128)
          MaxEvent,    \* bound: messages handled
          MaxChan,     \* bound: stop channels made
          MaxTimer,    \* bound: delayed stops waiting
          MaxSave,     \* bound: SaveLiquidationSnapshot goroutines at once
          MaxFail      \* bound: failed writes

\* What the constants are to be.
TimeAssumption ==
  DayHours \in Nat \ {0} /\ Retention \in Nat /\ PruneEvery \in Nat \ {0}

BoundAssumption ==
  /\ MaxHour \in Nat /\ MaxEvent \in Nat /\ MaxChan \in Nat \ {0}
  /\ MaxTimer \in Nat /\ MaxSave \in Nat /\ MaxFail \in Nat

None == 0
Hour == 0..MaxHour
Chan == 1..MaxChan
Background == 1
DayStart(h) == (h \div DayHours) * DayHours

VARIABLES clock,       \* the hour now
          hours, days, \* s.h1, s.daily: [start -> TotalCount], buckets that exist
          version,     \* s.version, and s.eventCount
          coll,        \* the collector of each channel: where it is
          closed,      \* channels closed
          clients, hubC, timers,  \* the hub: clients, stopC (None: not running),
                                  \* delayed stops asleep
          made,        \* channels made
          loop,        \* the loop of each channel: [pc, seen, last, row]
          saves,       \* SaveLiquidationSnapshot goroutines: rows
          row,         \* the database: TotalCount by hour, 0 for no row
          fails        \* failed writes so far

storeVars == <<hours, days, version>>
hubVars   == <<clients, hubC, timers, made>>
vars == <<clock, storeVars, coll, closed, hubVars, loop,
          saves, row, fails>>

NoLoop == [pc |-> "none", seen |-> 0, last |-> 0, row |-> <<>>]
Idle   == [NoLoop EXCEPT !.pc = "tick"]

-----------------------------------------------------------------------------
(* The exchange, and a collector's connection.                             *)

HourPasses ==
  /\ clock < MaxHour /\ clock' = clock + 1
  /\ UNCHANGED <<storeVars, coll, closed, hubVars, loop, saves, row, fails>>

Moves(c, from, to) == coll[c] = from /\ coll' = [coll EXCEPT ![c] = to]

\* A bug the runs must notice: a lost connection is made again unasked.
DialUnasked(c) ==
  /\ Moves(c, "dial", "read")
  /\ UNCHANGED <<clock, storeVars, closed, hubVars, loop, saves, row, fails>>

\* The top of the collector's loop looks at the channel, then dials; a dial
\* that fails comes back there, after the back-off (waitOrDone).
Dial(c) ==
  /\ IF c \in closed THEN Moves(c, "dial", "gone") ELSE Moves(c, "dial", "read")
  /\ UNCHANGED <<clock, storeVars, closed, hubVars, loop, saves, row, fails>>

\* ReadMessage fails: the connection is lost, or is silent for 90 seconds.
ConnectionLost(c) ==
  /\ Moves(c, "read", "dial")
  /\ UNCHANGED <<clock, storeVars, closed, hubVars, loop, saves, row, fails>>

-----------------------------------------------------------------------------
(* The store: addEvent and pruneLocked, under the store's lock.            *)

Count(buckets, b) == IF b \in DOMAIN buckets THEN buckets[b] ELSE 0

Added(buckets, b) ==
  [x \in DOMAIN buckets \cup {b} |-> Count(buckets, x) + IF x = b THEN 1 ELSE 0]

Kept(buckets, cutoff) == [x \in {b \in DOMAIN buckets : b >= cutoff} |-> buckets[x]]

\* A bug the runs must notice: one cut-off for the hours and for the days.
AddEventOneCutoff(h) ==
  LET prune  == (version + 1) % PruneEvery = 0
      cutoff == IF prune THEN clock - Retention ELSE 0
  IN  /\ hours' = Kept(Added(hours, h), cutoff)
      /\ days'  = Kept(Added(days, DayStart(h)), cutoff)
      /\ version' = version + 1

AddEvent(h) ==
  LET prune  == (version + 1) % PruneEvery = 0
      cutoff == IF prune /\ clock >= Retention THEN clock - Retention ELSE 0
  IN  /\ hours' = Kept(Added(hours, h), cutoff)
      /\ days'  = Kept(Added(days, DayStart(h)), DayStart(cutoff))
      /\ version' = version + 1

\* handleLiquidationMessage: a trade of this hour or of the one before.  The
\* exchange sends every liquidation on every connection, and each collector
\* adds what it reads.  A collector in ReadMessage does not see its channel
\* closed: it takes one more message, and then ends.
Collect(c) ==
  /\ version < MaxEvent
  /\ \E h \in Hour : h \in {clock, clock - 1} /\ AddEvent(h)
  /\ Moves(c, "read", IF c \in closed THEN "dial" ELSE "read")
  /\ UNCHANGED <<clock, closed, hubVars, loop, saves, row, fails>>

-----------------------------------------------------------------------------
(* The loops: every liquidationBroadcastInterval, save if version changed. *)

\* snapshot, and the row SaveLiquidationSnapshot makes of it: list[0], the
\* bucket of the current hour (those of the 4 hours and of the day likewise).
CurrentRow == [hour |-> clock, count |-> Count(hours, clock)]

\* go SaveLiquidationSnapshot.
SaveLater ==
  /\ saves' = saves \cup {CurrentRow}
  /\ Cardinality(saves') <= MaxSave

\* currentVersion.
LoopTick(c) ==
  /\ loop[c].pc = "tick" /\ c \notin closed
  /\ version \notin {0, loop[c].last}
  /\ loop' = [loop EXCEPT ![c] = [@ EXCEPT !.pc = "snapshot", !.seen = version]]
  /\ UNCHANGED <<clock, storeVars, coll, closed, hubVars, saves, row, fails>>

\* The background loop writes before it goes on; the hub leaves the write to
\* a goroutine.  Either way the version it compared is the one remembered.
LoopSnapshot(c) ==
  /\ loop[c].pc = "snapshot"
  /\ IF c = Background
     THEN /\ loop' = [loop EXCEPT ![c] = [@ EXCEPT !.pc = "save", !.row = CurrentRow]]
          /\ UNCHANGED saves
     ELSE /\ loop' = [loop EXCEPT ![c] = [Idle EXCEPT !.last = loop[c].seen]]
          /\ SaveLater
  /\ UNCHANGED <<clock, storeVars, coll, closed, hubVars, row, fails>>

\* The upsert, or its failure, which is only logged.
Write(r) ==
  \/ row' = [row EXCEPT ![r.hour] = r.count] /\ UNCHANGED fails
  \/ fails < MaxFail /\ fails' = fails + 1 /\ UNCHANGED row

\* A bug the runs must notice: the version is read again after the write.
LoopSaveRereads(c) ==
  /\ loop[c].pc = "save"
  /\ Write(loop[c].row)
  /\ loop' = [loop EXCEPT ![c] = [Idle EXCEPT !.last = version]]
  /\ UNCHANGED <<clock, storeVars, coll, closed, hubVars, saves>>

LoopSave(c) ==
  /\ loop[c].pc = "save"
  /\ Write(loop[c].row)
  /\ loop' = [loop EXCEPT ![c] = [Idle EXCEPT !.last = loop[c].seen]]
  /\ UNCHANGED <<clock, storeVars, coll, closed, hubVars, saves>>

HubSave ==
  /\ \E r \in saves : Write(r) /\ saves' = saves \ {r}
  /\ UNCHANGED <<clock, storeVars, coll, closed, hubVars, loop>>

LoopEnds(c) ==
  /\ loop[c].pc = "tick" /\ c \in closed
  /\ loop' = [loop EXCEPT ![c] = NoLoop]
  /\ UNCHANGED <<clock, storeVars, coll, closed, hubVars, saves, row, fails>>

-----------------------------------------------------------------------------
(* The hub's clients.                                                      *)

\* subscribe; sendSnapshot saves too.
Subscribe(k) ==
  /\ k \notin clients /\ clients' = clients \cup {k}
  /\ SaveLater
  /\ IF hubC # None THEN UNCHANGED <<hubC, made, coll, loop>>
     ELSE /\ made < MaxChan /\ made' = made + 1
          /\ hubC' = made'
          /\ coll' = [coll EXCEPT ![made'] = "dial"]
          /\ loop' = [loop EXCEPT ![made'] = Idle]
  /\ UNCHANGED <<clock, storeVars, closed, timers, row, fails>>

\* A client asks for the numbers again.
Refresh(k) ==
  /\ k \in clients /\ SaveLater
  /\ UNCHANGED <<clock, storeVars, coll, closed, hubVars, loop, row, fails>>

Unsubscribe(k) ==
  /\ k \in clients /\ clients' = clients \ {k}
  /\ IF clients' # {} \/ hubC = None THEN UNCHANGED timers
     ELSE timers < MaxTimer /\ timers' = timers + 1
  /\ UNCHANGED <<clock, storeVars, coll, closed, hubC, made, loop,
                 saves, row, fails>>

\* A bug the runs must notice: the delayed stop does not look for clients.
StopUnasked ==
  /\ timers > 0 /\ timers' = timers - 1
  /\ IF hubC = None THEN UNCHANGED <<closed, hubC>>
     ELSE closed' = closed \cup {hubC} /\ hubC' = None
  /\ UNCHANGED <<clock, storeVars, coll, clients, made, loop,
                 saves, row, fails>>

\* 30 seconds after the last client left.
DelayedStop ==
  /\ timers > 0 /\ timers' = timers - 1
  /\ IF clients # {} \/ hubC = None THEN UNCHANGED <<closed, hubC>>
     ELSE closed' = closed \cup {hubC} /\ hubC' = None
  /\ UNCHANGED <<clock, storeVars, coll, clients, made, loop,
                 saves, row, fails>>

-----------------------------------------------------------------------------

\* StartLiquidationCollectorBackground has run.
Init ==
  /\ clock = 0
  /\ hours = <<>> /\ days = <<>> /\ version = 0
  /\ coll = [c \in Chan |-> IF c = Background THEN "dial" ELSE "none"]
  /\ closed = {}
  /\ clients = {} /\ hubC = None /\ timers = 0 /\ made = Background
  /\ loop = [c \in Chan |-> IF c = Background THEN Idle ELSE NoLoop]
  /\ saves = {} /\ row = [h \in Hour |-> 0] /\ fails = 0

CollectorStep(c) == Dial(c) \/ ConnectionLost(c) \/ Collect(c)
LoopStep(c) == LoopTick(c) \/ LoopSnapshot(c) \/ LoopSave(c) \/ LoopEnds(c)

Next ==
  \/ HourPasses \/ HubSave \/ DelayedStop
  \/ \E c \in Chan : CollectorStep(c) \/ LoopStep(c)
  \/ \E k \in Client : Subscribe(k) \/ Refresh(k) \/ Unsubscribe(k)

\* The goroutines go on.
Fairness ==
  /\ WF_vars(DelayedStop) /\ WF_vars(HubSave)
  /\ \A c \in Chan : WF_vars(CollectorStep(c)) /\ WF_vars(LoopStep(c))

FairSpec == Init /\ [][Next]_vars /\ Fairness

-----------------------------------------------------------------------------
(* Properties.                                                             *)

Row == [hour: Hour, count: Nat]

\* The shape of the state.
TypeOK ==
  /\ clock \in Hour /\ version \in Nat
  /\ DOMAIN hours \subseteq Hour /\ DOMAIN days \subseteq Hour
  /\ coll \in [Chan -> {"none", "dial", "read", "gone"}]
  /\ closed \subseteq Chan \ {Background} /\ clients \subseteq Client
  /\ hubC \in {None} \cup 2..MaxChan /\ timers \in 0..MaxTimer /\ made \in Chan
  /\ \A c \in Chan : loop[c].pc \in {"none", "tick", "snapshot", "save"}
  /\ saves \subseteq Row /\ row \in [Hour -> Nat] /\ fails \in 0..MaxFail

\* The series tell one story: a day counts what its hours count, and more only
\* when hours of the day have been pruned; no hour outlives its day.
SeriesAgree ==
  /\ \A h \in DOMAIN hours : DayStart(h) \in DOMAIN days
  /\ \A d \in DOMAIN days :
       LET kept == {h \in DOMAIN hours : DayStart(h) = d}
           sum  == SumFunctionOnSet(hours, kept)
       IN  /\ days[d] >= sum
           /\ (clock - Retention <= d) => days[d] = sum

\* While a browser watches, the hub runs on an open channel, and only one hub
\* collector has one: the delayed stop never takes a stream from its viewers.
ViewersAreServed ==
  /\ clients # {} => hubC # None
  /\ \A c \in Chan \ {Background} :
       coll[c] # "none" => (c \notin closed <=> c = hubC)

\* A collector whose channel is closed ends, though it may sit in a read.
StoppedCollectorsEnd == \A c \in Chan : (c \in closed) ~> (coll[c] = "gone")

\* The database lags behind the store in the current hour (a new hour has no
\* bucket and no row).
Behind == row[clock] # Count(hours, clock)

\* With no browser and no failed write, the database catches up with what is
\* counted, unless the hour ends first.
BackgroundSaves ==
  [](clients = {} /\ saves = {} /\ fails = 0) => (Behind ~> ~Behind)
=============================================================================
