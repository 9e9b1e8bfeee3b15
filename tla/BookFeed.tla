------------------------------ MODULE BookFeed ------------------------------
(***************************************************************************)
(* What a room of the order-book hub promises the clients that watch it    *)
(* (src/api/ws_price_proxy.go): every message shows the exchange's book as *)
(* it stood after one of its updates, and a later message shows a later    *)
(* update.  How a room keeps that promise is module BookSync.              *)
(***************************************************************************)
EXTENDS Integers

CONSTANTS MaxId,     \* bound: the updates of the exchange's book
          View,      \* View[k]: the message that shows the book after k updates
          Nothing    \* no message yet

VARIABLES exch,      \* the last update of the exchange's book
          shown      \* the last message: the update it stands for, its text

Shown(k) == [id |-> k, msg |-> View[k]]

Init == exch \in 0..MaxId /\ shown = Nothing

\* The exchange's book changes.
Trade ==
  /\ \E k \in (exch + 1)..MaxId : exch' = k
  /\ UNCHANGED shown

\* The room sends its clients a book newer than the one they have.
Show ==
  /\ \E k \in 0..exch :
        /\ shown = Nothing \/ shown.id < k
        /\ shown' = Shown(k)
  /\ UNCHANGED exch

Next == Trade \/ Show

Spec == Init /\ [][Next]_<<exch, shown>>
=============================================================================
