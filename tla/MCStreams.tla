------------------------------ MODULE MCStreams ------------------------------
(* Two goroutines that read a stream of another exchange and lose it: the   *)
(* order book room and copy trading.  They share no state, so a run begins  *)
(* with one of them and only that one moves.                                *)
EXTENDS BookSync, TLC

CONSTANTS Coin, MaxFill, MaxTask, SeenMax, SeenKept     \* of HyperFollow

VARIABLES sel, follow_fills, follow_cur, follow_started, follow_stop,
    follow_pc, follow_inbox, follow_sym, follow_seen, follow_sent, follow_late,
    follow_pos, follow_trouble

followVars == <<follow_fills, follow_cur, follow_started, follow_stop,
    follow_pc, follow_inbox, follow_sym, follow_seen, follow_sent, follow_late,
    follow_pos, follow_trouble>>

Copy == INSTANCE HyperFollow WITH
      fills <- follow_fills, cur <- follow_cur, started <- follow_started,
      stop <- follow_stop, pc <- follow_pc, inbox <- follow_inbox,
      sym <- follow_sym, seen <- follow_seen, sent <- follow_sent,
      late <- follow_late, pos <- follow_pos, trouble <- follow_trouble

ASSUME FollowAssumption ==
  Copy!CoinAssumption /\ Copy!SeenAssumption /\ Copy!BoundAssumption

\* Two bids and two asks that share a bucket; levels come, change and go, one
\* of them with each spelling of zero.
Updates == <<[side |-> "bids", price |-> 3, qty |-> 2],
             [side |-> "asks", price |-> 5, qty |-> 1],
             [side |-> "bids", price |-> 2, qty |-> 1],
             [side |-> "bids", price |-> 3, qty |-> LongZero],
             [side |-> "asks", price |-> 6, qty |-> 4],
             [side |-> "asks", price |-> 5, qty |-> 0]>>

all == <<sel, vars, followVars>>

\* One component moves, whichever the run begins with; the others stay in
\* their first state.
AllInit ==
  /\ sel \in {"book", "follow"}
  /\ Init /\ Copy!Init

AllNext ==
  \/ sel = "book" /\ Next
     /\ UNCHANGED <<sel, followVars>>
  \/ sel = "follow" /\ Copy!Next
     /\ UNCHANGED <<sel, vars>>

\* The fairness each component states for itself.
Fairness ==
  /\ WF_vars(sel = "book" /\ Loop)
  /\ WF_vars(sel = "book" /\ Deliver)
  /\ \A t \in Copy!Task : WF_followVars(sel = "follow" /\ Copy!TaskSteps(t))

AllSpec == AllInit /\ [][AllNext]_all /\ Fairness

-------------------------------------------------------------------------------
\* The shape of each component's state.
TypesOK == TypeOK /\ Copy!TypeOK

\* The follower does what the leader did: one order per fill, a side held
\* exactly while the leader's fills leave something of it, and after a stop at
\* most the message it was waiting for (api/hyper_follow.go).
FollowsLeader ==
  Copy!FollowsFillOnce /\ Copy!HoldsWhatWasFollowed /\ Copy!OneLateMessage

\* A stream that is followed does not stay behind, and a stopped room or task
\* ends, whatever it waits for.
StreamsProgress == FollowsCatchUp /\ StopEnds /\ Copy!StoppedTaskEnds
===============================================================================
