---------------------------- MODULE DataFallback ----------------------------
(***************************************************************************)
(* The fallback to REST polling (src/api/data_fallback.go): a symbol whose *)
(* WebSocket data stay out for TimeoutSec is degraded and polled, and      *)
(* recovers RecoveryDelaySec after data come again.  The data come from    *)
(* the stream of a room of priceHub (module PriceRooms); what is polled    *)
(* goes to the price cache (UpdatePrice, module PriceCache).               *)
(***************************************************************************)
EXTENDS Integers, FiniteSets

CONSTANTS Symbol,    \* trading pairs
          MaxPoll    \* bound: polling loops at once

\* What the constants are to be.
PollAssumption == MaxPoll \in Nat

None == 0
Poll == 1..MaxPoll

VARIABLES heard,     \* lastWsTime: "never", "recent" or "overdue" per symbol
          due,       \* toDegrade of the monitor's round
          degraded,  \* symbols marked as degraded
          stopOf,    \* stopPolling[s]: the loop whose channel is stored, or None
          polls,     \* loops running: [id, sym]
          told,      \* loops whose channel is closed
          waking     \* number of recoverSymbol goroutines asleep, per symbol

vars == <<heard, due, degraded, stopOf, polls, told, waking>>

Init ==
  /\ heard = [s \in Symbol |-> "never"] /\ due = {}
  /\ degraded = {} /\ stopOf = [s \in Symbol |-> None]
  /\ polls = {} /\ told = {} /\ waking = [s \in Symbol |-> 0]

\* A bug the runs must notice: only a late price makes a symbol recover.
RecordIfLate(s) ==
  /\ heard' = [heard EXCEPT ![s] = "recent"]
  /\ waking' = [waking EXCEPT ![s] = IF s \in degraded /\ heard[s] = "overdue" THEN 1 ELSE @]
  /\ UNCHANGED <<due, degraded, stopOf, polls, told>>

\* RecordWsData: data of s have arrived; a degraded symbol is to recover.  One
\* sleeping goroutine stands for all those started before it wakes.
RecordWsData(s) ==
  /\ heard' = [heard EXCEPT ![s] = "recent"]
  /\ waking' = [waking EXCEPT ![s] = IF s \in degraded THEN 1 ELSE @]
  /\ UNCHANGED <<due, degraded, stopOf, polls, told>>

\* TimeoutSec pass without data.
Overdue(s) ==
  /\ heard[s] = "recent"
  /\ heard' = [heard EXCEPT ![s] = "overdue"]
  /\ UNCHANGED <<due, degraded, stopOf, polls, told, waking>>

\* monitorLoop collects what is overdue under the read lock and degrades it
\* one symbol at a time under the write lock.
MonitorRound ==
  /\ due = {}
  /\ due' = {s \in Symbol : heard[s] = "overdue" /\ s \notin degraded}
  /\ due' # {}
  /\ UNCHANGED <<heard, degraded, stopOf, polls, told, waking>>

\* A loop's number is the lowest that no running loop has.
Fresh == LET used == {p.id : p \in polls}
         IN  {i \in Poll \ used : 1..(i - 1) \subseteq used}

StartPolling(s, i) ==
  /\ degraded' = degraded \cup {s}
  /\ stopOf' = [stopOf EXCEPT ![s] = i]
  /\ polls' = polls \cup {[id |-> i, sym |-> s]}

DegradeSymbol(s) ==
  /\ s \in due /\ due' = due \ {s}
  /\ IF s \in degraded
     THEN UNCHANGED <<degraded, stopOf, polls>>
     ELSE \E i \in Fresh : StartPolling(s, i)
  /\ UNCHANGED <<heard, told, waking>>

\* A bug the runs must notice: a recovery that leaves the loop's channel open.
RecoverMarkOnly(s) ==
  /\ waking[s] > 0 /\ waking' = [waking EXCEPT ![s] = 0]
  /\ degraded' = degraded \ {s}
  /\ stopOf' = [stopOf EXCEPT ![s] = None]
  /\ UNCHANGED <<heard, due, polls, told>>

\* recoverSymbol after its sleep.
RecoverSymbol(s) ==
  /\ waking[s] > 0 /\ waking' = [waking EXCEPT ![s] = 0]
  /\ IF s \notin degraded THEN UNCHANGED <<degraded, stopOf, told>>
     ELSE /\ degraded' = degraded \ {s}
          /\ told' = told \cup ({stopOf[s]} \ {None})
          /\ stopOf' = [stopOf EXCEPT ![s] = None]
  /\ UNCHANGED <<heard, due, polls>>

\* restPollLoop sees its channel closed.
PollEnds ==
  /\ \E p \in polls : p.id \in told /\ polls' = polls \ {p} /\ told' = told \ {p.id}
  /\ UNCHANGED <<heard, due, degraded, stopOf, waking>>

Next ==
  \/ \E s \in Symbol : RecordWsData(s) \/ Overdue(s) \/ DegradeSymbol(s) \/ RecoverSymbol(s)
  \/ MonitorRound \/ PollEnds

\* The goroutines go on.  Nothing says that data come, or stay out.
FairSpec ==
  /\ Init /\ [][Next]_vars
  /\ \A s \in Symbol : WF_vars(DegradeSymbol(s)) /\ WF_vars(RecoverSymbol(s))
  /\ WF_vars(MonitorRound) /\ WF_vars(PollEnds)

\* The shape of the state.
TypeOK ==
  /\ heard \in [Symbol -> {"never", "recent", "overdue"}]
  /\ due \subseteq Symbol /\ degraded \subseteq Symbol
  /\ stopOf \in [Symbol -> Poll \cup {None}]
  /\ polls \subseteq [id: Poll, sym: Symbol] /\ told \subseteq Poll
  /\ waking \in [Symbol -> 0..1]

\* Every polling loop can be stopped: the channel of a running loop is closed
\* or is the one stored for its symbol, so a symbol has one loop that counts
\* and has it exactly while it is degraded.
PollsInHand ==
  /\ \A p \in polls : p.id \in told \/ stopOf[p.sym] = p.id
  /\ \A s \in Symbol : s \in degraded <=> stopOf[s] # None

\* A symbol whose data go on coming does not stay on REST.  The monitor works
\* from a list that may be stale, so it can degrade a symbol whose data have
\* just come; what brings it back is the data that follow.
RecoversWhileDataFlow ==
  \A s \in Symbol :
    WF_vars(RecordWsData(s)) => ((s \in degraded) ~> (s \notin degraded))
=============================================================================
