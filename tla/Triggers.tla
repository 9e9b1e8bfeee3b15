------------------------------ MODULE Triggers ------------------------------
(***************************************************************************)
(* Strategies that wait for something outside and then act, held back by a *)
(* cool-down: news sentiment (api/news_sentiment_strategy.go), liquidation *)
(* cascades (api/liq_cascade_strategy.go), funding arbitrage               *)
(* (api/funding_arb_strategy.go) and the rules that link strategies        *)
(* (api/strategy_link.go).  Each is one global state and a loop on a       *)
(* ticker; strat says which one runs.                                      *)
(*                                                                         *)
(* They differ in where the cool-down is kept, when it is read and when it *)
(* is written: news and cascades keep one time, written before the order;  *)
(* funding keeps a time per symbol, read from a copy made at the head of   *)
(* the check and written after the order; links keep a time per rule, read *)
(* one by one and written after the action.  Stop and Start put a new loop *)
(* beside one that may still be in a check, on the same global state.      *)
(***************************************************************************)
EXTENDS Integers, FiniteSets, Sequences

CONSTANTS
    Item,           \* news, symbols or rules
    Given,          \* what of them a strategy may be given, sets of items
    Cool,           \* the cool-down, in clock units
    Hour, Window,   \* an hour, and WindowMin, in clock units
    MaxTime,        \* bound: the clock
    MaxStart,       \* bound: starts
    MaxLoad,        \* bound: starts, and items given beyond the first
    MaxTrig         \* bound: triggers

\* What the constants are to be: a start gives every strategy a cool-down.
ItemAssumption  == Item # {} /\ Given \subseteq SUBSET Item
CoolAssumption  == Cool \in Nat \ {0} /\ Hour \in Nat \ {0} /\ Window \in Nat
BoundAssumption == {MaxTime, MaxStart, MaxLoad, MaxTrig} \subseteq Nat

VARIABLES
    strat, active, cur,
    given,          \* the news, symbols or rules there can be
    loop, tick,     \* each start's loop: where it is, a tick in its ticker
    now,
    last,           \* lastTriggerAt, in ticks of the clock
    map,            \* item -> time: triggeredIDs, cooldownMap, lastFired
    todo, view,     \* each loop: items left in its check, what it copied
    hand,           \* each loop of the links: the rules whose action runs
    there,          \* items for which the outside says trigger
    bursts,         \* times of large liquidations
    bare,           \* the rules in force came without a cool-down
    trig            \* the triggers: by which start, of what, when

vars == <<strat, active, cur, loop, tick, now, last, map, todo, view,
          hand, there, bursts, bare, trig, given>>

Start == 1 .. MaxStart
Never == -10 * Cool
Empty == [x \in Item |-> Never]

Cold(t) == now - t >= Cool

Log(i, x) == /\ Len(trig) < MaxTrig
             /\ trig' = Append(trig, [by |-> i, item |-> x, at |-> now])

Init == /\ strat \in {"news", "liq", "funding", "link"}
        /\ given \in Given /\ active = FALSE /\ cur = 0
        /\ loop = [i \in Start |-> "none"] /\ tick = [i \in Start |-> FALSE]
        /\ now = 0 /\ last = Never
        /\ map = Empty
        /\ todo = [i \in Start |-> {}] /\ view = [i \in Start |-> Empty]
        /\ hand = [i \in Start |-> {}]
        /\ there = {} /\ bursts = {} /\ bare = FALSE /\ trig = <<>>

------------------------------------------------------------------------------
(* The outside.                                                            *)

\* Time passes and every ticker ticks.
Advance ==
    /\ now < MaxTime
    /\ now' = now + 1
    /\ tick' = [i \in Start |-> loop[i] \notin {"none", "ended"}]
    /\ UNCHANGED <<strat, given, active, cur, loop, last, map, todo, view, there, bursts, bare, trig, hand>>

\* News with a sentiment appear and stay listed; a rate or another strategy's
\* signal comes and goes.
Appears(x) ==
    /\ strat # "liq" /\ x \in given \ there
    /\ there' = there \cup {x}
    /\ UNCHANGED <<strat, given, active, cur, loop, tick, now, last, map, todo, view, bursts, bare, trig, hand>>

Vanishes(x) ==
    /\ strat \in {"funding", "link"} /\ x \in there
    /\ there' = there \ {x}
    /\ UNCHANGED <<strat, given, active, cur, loop, tick, now, last, map, todo, view, bursts, bare, trig, hand>>

Liquidations ==
    /\ strat = "liq" /\ now \notin bursts
    /\ bursts' = bursts \cup {now}
    /\ UNCHANGED <<strat, given, active, cur, loop, tick, now, last, map, todo, view, there, bare, trig, hand>>

------------------------------------------------------------------------------
(* Start and stop.                                                         *)

\* A running strategy is refused, except that the links cancel their loop and
\* start another.  The maps are made anew, the trigger time is not; links
\* give every rule its cool-down.  All but the cascades check at once, the
\* links at their first tick.
StartStrategy ==
    /\ cur < MaxStart /\ cur + Cardinality(given) <= MaxLoad
    /\ active => strat = "link"
    /\ active' = TRUE /\ cur' = cur + 1
    /\ loop' = [loop EXCEPT ![cur + 1] = "wait"]
    /\ tick' = [tick EXCEPT ![cur + 1] = strat \in {"news", "funding"}]
    /\ bare' = FALSE
    /\ map' = IF strat = "link" THEN map ELSE Empty
    /\ UNCHANGED <<strat, given, now, last, todo, view, there, bursts, trig, hand>>

StopStrategy ==
    /\ active
    /\ active' = FALSE
    /\ UNCHANGED <<strat, given, cur, loop, tick, now, last, map, todo, view, there, bursts, bare, trig, hand>>

\* UpdateStrategyLinkRules: the new rules are taken as they come, without the
\* default cool-down that a start gives them.
UpdateStrategyLinkRules ==
    /\ strat = "link" /\ ~bare
    /\ bare' = TRUE
    /\ UNCHANGED <<strat, given, active, cur, loop, tick, now, last, map, todo, view, there, bursts, trig, hand>>

Stopped(i) == ~active \/ i < cur

\* The loop takes its closed channel or cancelled context; with a tick there
\* as well the select takes either.
LoopEnds(i) ==
    /\ loop[i] = "wait" /\ Stopped(i)
    /\ loop' = [loop EXCEPT ![i] = "ended"]
    /\ tick' = [tick EXCEPT ![i] = FALSE]
    /\ UNCHANGED <<strat, given, active, cur, now, last, map, todo, view, there, bursts, bare, trig, hand>>

------------------------------------------------------------------------------
(* The checks.                                                             *)

Takes(i, to) ==
    /\ loop[i] = "wait" /\ tick[i]
    /\ tick' = [tick EXCEPT ![i] = FALSE]
    /\ loop' = [loop EXCEPT ![i] = to]

\* Back to the ticker; what the check copied is gone.
Done(i) == /\ loop' = [loop EXCEPT ![i] = "wait"]
           /\ todo' = [todo EXCEPT ![i] = {}]
           /\ view' = [view EXCEPT ![i] = Empty]

Pruned(m) == [x \in Item |-> IF now - m[x] > 2 * Cool THEN Never ELSE m[x]]

\* checkNewsSentiment: the trigger time is looked at, then old ids are dropped
\* from the map, and the loop goes on with that map.
NewsRead(i) ==
    /\ strat = "news" /\ Takes(i, IF Cold(last) THEN "act" ELSE "wait")
    /\ map' = IF Cold(last) THEN Pruned(map) ELSE map
    /\ todo' = [todo EXCEPT ![i] = IF Cold(last) THEN there ELSE {}]
    /\ view' = [view EXCEPT ![i] = IF Cold(last) THEN map' ELSE Empty]
    /\ UNCHANGED <<strat, given, active, cur, now, last, there, bursts, bare, trig, hand>>

\* A bug the runs must notice: a trigger marks its news, not the time.
NewsTriggerOfItem(i, x) ==
    /\ strat = "news" /\ loop[i] = "act" /\ x \in todo[i] /\ view[i][x] = Never
    /\ map' = [map EXCEPT ![x] = now]
    /\ Log(i, x)
    /\ Done(i)
    /\ UNCHANGED <<strat, given, active, cur, tick, now, last, there, bursts, bare, hand>>

\* The first news that is not in the map: time and id are noted, then the
\* orders go out, and the rest of the news waits for the next check.  The map
\* is read without its lock: what another loop adds meanwhile may be missed.
NewsTrigger(i, x) ==
    /\ strat = "news" /\ loop[i] = "act" /\ x \in todo[i] /\ view[i][x] = Never
    /\ last' = now
    /\ map' = [map EXCEPT ![x] = now]
    /\ Log(i, x)
    /\ Done(i)
    /\ UNCHANGED <<strat, given, active, cur, tick, now, there, bursts, bare, hand>>

Cascade == CHOOSE x \in Item : TRUE

\* The database is asked for hourly rows that start in the window: the hour a
\* liquidation belongs to must itself be as young as the window.
Counted(b) == (b \div Hour) * Hour >= now - Window

\* checkLiqCascade up to the signal.
LiqRead(i) ==
    /\ strat = "liq"
    /\ Takes(i, IF Cold(last) /\ \E b \in bursts : Counted(b) THEN "act" ELSE "wait")
    /\ UNCHANGED <<strat, given, active, cur, now, last, map, todo, view, there, bursts, bare, trig, hand>>

\* The time is noted before the risk check and the order, which may both fail.
LiqTrigger(i) ==
    /\ strat = "liq" /\ loop[i] = "act"
    /\ last' = now
    /\ \/ UNCHANGED trig
       \/ Log(i, Cascade)
    /\ loop' = [loop EXCEPT ![i] = "wait"]
    /\ UNCHANGED <<strat, given, active, cur, tick, now, map, todo, view, there, bursts, bare, hand>>

\* checkFundingArb: the rates, and a copy of the cool-down map.
FundingRead(i) ==
    /\ strat = "funding" /\ Takes(i, "act")
    /\ todo' = [todo EXCEPT ![i] = there]
    /\ view' = [view EXCEPT ![i] = map]
    /\ UNCHANGED <<strat, given, active, cur, now, last, map, there, bursts, bare, trig, hand>>

\* One symbol with a high rate: cold in the copy, far enough from settlement,
\* allowed by risk control and ordered, or passed over.
FundingItem(i, x) ==
    /\ strat = "funding" /\ loop[i] = "act" /\ x \in todo[i]
    /\ todo' = [todo EXCEPT ![i] = @ \ {x}]
    /\ \/ UNCHANGED <<map, trig>>
       \/ /\ Cold(view[i][x])
          /\ map' = [map EXCEPT ![x] = now]
          /\ Log(i, x)
    /\ UNCHANGED <<strat, given, active, cur, loop, tick, now, last, view, there, bursts, bare, hand>>

\* checkAllRules: a copy of the rules with their cool-downs.
LinkRead(i) ==
    /\ strat = "link" /\ Takes(i, "act")
    /\ todo' = [todo EXCEPT ![i] = given]
    /\ view' = [view EXCEPT ![i] = [x \in Item |-> IF bare THEN 0 ELSE Cool]]
    /\ UNCHANGED <<strat, given, active, cur, now, last, map, hand, there, bursts, bare, trig>>

\* One rule: still cool, not triggered, or on to its action.  The check does
\* not ask whether its context was cancelled.
LinkRule(i, x) ==
    /\ strat = "link" /\ loop[i] = "act" /\ x \in todo[i]
    /\ todo' = [todo EXCEPT ![i] = @ \ {x}]
    /\ IF x \in there /\ now - map[x] >= view[i][x]
       THEN /\ loop' = [loop EXCEPT ![i] = "fire"]
            /\ hand' = [hand EXCEPT ![i] = {x}]
       ELSE UNCHANGED <<loop, hand>>
    /\ UNCHANGED <<strat, given, active, cur, tick, now, last, map, view, there, bursts, bare, trig>>

\* The action is done, well or badly, and its time is noted.  (Actions of
\* rules without a cool-down are not among the triggers looked at.)
LinkFire(i, x) ==
    /\ strat = "link" /\ loop[i] = "fire" /\ x \in hand[i]
    /\ map' = [map EXCEPT ![x] = now]
    /\ IF view[i][x] = Cool THEN Log(i, x) ELSE UNCHANGED trig
    /\ hand' = [hand EXCEPT ![i] = {}]
    /\ loop' = [loop EXCEPT ![i] = "act"]
    /\ UNCHANGED <<strat, given, active, cur, tick, now, last, todo, view, there, bursts, bare>>

\* Nothing (more) to act on in this check.  Funding drops old times then,
\* unless its last order failed.
CheckDone(i) ==
    /\ loop[i] = "act" /\ strat # "liq"
    /\ IF strat = "news"
       THEN \A x \in todo[i] : view[i][x] # Never \/ map[x] # Never
       ELSE todo[i] = {}
    /\ Done(i)
    /\ map' \in {map} \cup IF strat = "funding" THEN {Pruned(map)} ELSE {}
    /\ UNCHANGED <<strat, given, active, cur, tick, now, last, there, bursts, bare, trig, hand>>

Next == \/ Advance \/ Liquidations \/ StartStrategy \/ StopStrategy
        \/ UpdateStrategyLinkRules
        \/ \E x \in Item : Appears(x) \/ Vanishes(x)
        \/ \E i \in Start : \/ LoopEnds(i) \/ CheckDone(i) \/ LiqTrigger(i)
                            \/ NewsRead(i) \/ LiqRead(i) \/ FundingRead(i) \/ LinkRead(i)
                            \/ \E x \in Item : \/ NewsTrigger(i, x)
                                               \/ FundingItem(i, x) \/ LinkRule(i, x)
                                               \/ LinkFire(i, x)

Spec == Init /\ [][Next]_vars

------------------------------------------------------------------------------
\* The tables hold what the checks can put there.
TypeOK == /\ now \in 0 .. MaxTime /\ cur \in 0 .. MaxStart /\ last \in {Never} \cup 0 .. now
          /\ \A i \in Start : /\ loop[i] \in {"none", "wait", "act", "fire", "ended"}
                              /\ \A x \in Item : map[x] \in {Never} \cup 0 .. now
          /\ there \subseteq Item /\ bursts \subseteq 0 .. now

OneForAll == strat \in {"news", "liq"}

\* One loop triggers the same thing (news and cascades: anything) again only
\* after the cool-down: the time it read is the one it wrote, through pruned
\* maps, copies, failed orders, stops and starts.  Of funding this is said of
\* the newest loop only: a start empties the map its stopped predecessor may
\* still read once.
SpacedTriggers ==
    \A a, b \in DOMAIN trig :
        /\ a < b /\ trig[a].by = trig[b].by
        /\ OneForAll \/ trig[a].item = trig[b].item
        /\ strat = "funding" => trig[a].by = cur
        => trig[b].at - trig[a].at >= Cool

\* What the triggered ids are documented to be for (防止重复触发, against
\* triggering twice): no news is traded twice by one start.  The code does not
\* keep this: ids are dropped after two cool-downs while the news stay listed.
NewsTradedOnce ==
    strat = "news" => \A a, b \in DOMAIN trig :
        a # b /\ trig[a].by = trig[b].by => trig[a].item # trig[b].item
==============================================================================
