-------------------------- MODULE Desk_proofs --------------------------
(***************************************************************************)
(* The way of an order through the desk, for every set of orders, every    *)
(* filter of the exchange, every path of the price and every bound.        *)
(*                                                                         *)
(* TPSLGroup, the conditions of one order: the inductive invariant says,   *)
(* for each state the conditions can be in, how much has been sold, and    *)
(* that what is open is at most what was bought and not sold, plus the     *)
(* orders on their way.                                                    *)
(* TradeLedger, the trade table: where each event and each goroutine is,   *)
(* and what its copy of a row may differ in from the row; the day's profit *)
(* is the table's, the events' on their way and the failures'.             *)
(* QtyRules, the sizes: rounding to steps and the parts of a ladder.       *)
(* FillWatch, the watcher of one order's fills: what it holds and did.     *)
(* WsOrders, the calls on the WebSocket: a request is on the wire at most  *)
(* once, so an acceptance reported is the call's own; who waits, and which *)
(* connections are open.                                                   *)
(* PaperEngine, the simulated account: it keeps its shape, and a change of *)
(* one position changes the margins by what the balance pays or gets.      *)
(* The components of MCDesk share no state; whichever moves, every one     *)
(* takes a step of its own or none.                                        *)
(***************************************************************************)
EXTENDS MCDesk, SumFacts

TP1   == <<"TP", 1>>
TP(i) == <<"TP", i>>
Index == DOMAIN plan.rewards
Fired == {i \in Index : status[TP(i)] = "TRIGGERED"}

\* What was bought and not sold.
Unsold == IF sold < bought THEN bought - sold ELSE 0

OrdersInv ==
  /\ IsFiniteSet(orders)
  /\ \A o \in orders : status[o.cond] = "TRIGGERED"
  /\ \A c \in Conds \ (TPs \cup {SL, TS}) : status[c] = "none"
  /\ pos <= Unsold + Resting

\* A single take profit: its half, the trailing stop of the rest, and the stop
\* loss, which is there until the take profit has been seen to.
SingleInv ==
  /\ qty[TP1] = bought /\ qty[SL] = bought
  /\ \/ /\ status[TP1] = "ACTIVE" /\ status[SL] = "ACTIVE" /\ status[TS] = "none"
        /\ step = "idle" /\ sold = 0
     \/ /\ status[TP1] = "TRIGGERED" /\ status[SL] = "ACTIVE"
        /\ status[TS] = "none"
        /\ step = "register" /\ hit = TP1 /\ sold = Half
     \/ /\ status[TP1] = "TRIGGERED"
        /\ \/ status[SL] = "ACTIVE" /\ step = "link" /\ hit = TP1
           \/ status[SL] = "CANCELLED" /\ step = "idle"
        /\ \/ status[TS] = "ACTIVE" /\ qty[TS] = Remain /\ sold = Half
           \/ status[TS] = "none" /\ (sold = bought \/ (sold = Half /\ fails > 0))
     \/ /\ status[TP1] = "TRIGGERED" /\ status[SL] = "CANCELLED"
        /\ status[TS] = "TRIGGERED"
        /\ step = "idle" \/ (step = "link" /\ hit = TS)
        /\ sold = Half + Remain
     \/ /\ status[TP1] = "TRIGGERED" /\ status[SL] = "CANCELLED"
        /\ status[TS] = "CANCELLED"
        /\ step = "idle" /\ sold = Half /\ pos <= 0
     \/ /\ status[SL] = "TRIGGERED" /\ status[TS] = "none" /\ sold = bought
        /\ \/ status[TP1] = "ACTIVE" /\ step = "link" /\ hit = SL
           \/ status[TP1] = "CANCELLED" /\ step = "idle"
     \/ /\ status[TP1] = "CANCELLED" /\ status[SL] = "CANCELLED"
        /\ status[TS] = "none"
        /\ step = "idle" /\ sold = 0 /\ pos <= 0

\* A ladder: the stop loss goes when it has sold everything, when all levels
\* have, or when nothing was left to sell.
LadderInv ==
  /\ status[TS] = "none" /\ step # "register" /\ qty[SL] = bought
  /\ \A i \in Index : qty[TP(i)] = Parts[i]
  /\ \/ /\ status[SL] = "ACTIVE"
        /\ \A i \in Index : status[TP(i)] \in {"ACTIVE", "TRIGGERED"}
        /\ sold = SumFunctionOnSet(Parts, Fired)
        /\ step = "link" => hit \in TPs
     \/ status[SL] = "TRIGGERED" /\ sold >= bought
     \/ /\ status[SL] = "CANCELLED"
        /\ \/ pos <= 0
           \/ /\ \A i \in Index : status[TP(i)] = "TRIGGERED"
              /\ sold = SumFunction(Parts)

GroupInv ==
  /\ OrdersInv
  /\ bought % Step = 0 \/ Precision = 0
  /\ IF plan.ladder THEN LadderInv ELSE SingleInv

-----------------------------------------------------------------------------
(***************************************************************************)
(* Quantities.                                                             *)
(***************************************************************************)
LEMMA Quotient ==
  ASSUME NEW n \in Nat, NEW d \in Nat \ {0}
  PROVE  /\ n \div d \in Nat /\ (n \div d) * d <= n
         /\ n < (n \div d) * d + d
  OBVIOUS

LEMMA Multiple ==
  ASSUME NEW k \in Nat, NEW d \in Nat \ {0}
  PROVE  (k * d) % d = 0 /\ (k * d) \div d = k
  OBVIOUS

\* Rounding leaves a multiple of the step, which is no more than the quotient
\* and less than a step below it.
LEMMA RoundFacts ==
  ASSUME NEW n \in Nat, NEW d \in Nat \ {0}
  PROVE  /\ RoundToStep(n, d) \in Nat /\ RoundToStep(n, d) % Step = 0
         /\ RoundToStep(n, d) * d <= n
         /\ n < (RoundToStep(n, d) + Step) * d
  <1>1. PICK e \in Nat \ {0} : e = d * Step
    BY StepAssumption
  <1>2. PICK k \in Nat : k = n \div e
    BY Quotient
  <1>3. k * e <= n /\ n < k * e + e
    BY <1>2, Quotient
  <1>4. RoundToStep(n, d) = k * Step
    BY <1>1, <1>2 DEF RoundToStep
  <1>5. (k * Step) * d = k * e /\ (k * Step + Step) * d = k * e + e
    BY <1>1, StepAssumption
  <1>6. k * Step \in Nat /\ (k * Step) % Step = 0
    BY StepAssumption, Multiple
  <1>7. QED
    BY <1>3, <1>4, <1>5, <1>6

\* Of what is a multiple already nothing is lost.
LEMMA RoundExact ==
  ASSUME NEW k \in Nat PROVE RoundToStep(k * Step, 1) = k * Step
  BY StepAssumption, Multiple DEF RoundToStep

LEMMA StrippedFacts ==
  ASSUME NEW q \in Nat PROVE Stripped(q) \in Nat /\ Stripped(q) <= q
  <1> DEFINE D == {d \in Tens : q % d = 0}
  <1>1. CASE q = 0
    BY <1>1 DEF Stripped
  <1>2. CASE q # 0
    <2>1. \E d \in D : \A e \in D : d >= e
      <3>1. 1 \in D
        BY DEF Tens
      <3>2. QED
        BY <3>1 DEF Tens
    <2>2. Max(D) \in D
      BY <2>1 DEF Max
    <2>3. Max(D) \in Nat \ {0}
      BY <2>2 DEF Tens
    <2>4. PICK m \in Nat \ {0} : m = Max(D)
      BY <2>3
    <2>5. PICK k \in Nat : k = q \div m /\ k * m <= q
      BY Quotient
    <2>6. k <= k * m
      OBVIOUS
    <2>7. Stripped(q) = k
      BY <1>2, <2>4, <2>5 DEF Stripped
    <2>8. QED
      BY <2>5, <2>6, <2>7
  <1>3. QED
    BY <1>1, <1>2

LEMMA FormattedFacts ==
  ASSUME NEW q \in Nat
  PROVE  /\ Formatted(q) \in Nat /\ Formatted(q) <= q
         /\ Precision # 0 => Formatted(q) = q
  BY StrippedFacts DEF Formatted

LEMMA ShareFacts ==
  ASSUME NEW q \in Nat, NEW p \in Nat
  PROVE  Share(q, p) \in Nat /\ Share(q, p) * 100 <= q * p
  <1>1. PICK r \in Nat : r = RoundToStep(q * p, 100) /\ r * 100 <= q * p
    BY RoundFacts
  <1>2. Share(q, p) \in Nat /\ Share(q, p) <= r
    BY <1>1, FormattedFacts DEF Share
  <1>3. QED
    BY <1>1, <1>2

\* The two halves of a position are no more than the whole, and the whole if
\* there are digits after the point.
LEMMA HalfFacts ==
  ASSUME bought \in Nat
  PROVE  /\ Half \in Nat /\ Remain \in Nat /\ Half + Remain <= bought
         /\ (Precision # 0 /\ bought % Step = 0) => Half + Remain = bought
  <1>1. PICK h \in Nat : h = RoundToStep(bought, 2)
    BY RoundFacts
  <1>2. h * 2 <= bought /\ h % Step = 0
    BY <1>1, RoundFacts
  <1>3. PICK l \in Nat : l = bought - h
    BY <1>2
  <1>4. PICK m \in Nat : m = RoundToStep(l, 1)
    BY RoundFacts
  <1>5. m <= l
    BY <1>4, RoundFacts
  <1>6. Half = Formatted(h) /\ Remain = Formatted(m)
    BY <1>1, <1>3, <1>4 DEF Half, Remain
  <1>7. Half \in Nat /\ Remain \in Nat /\ Half <= h /\ Remain <= m
    BY <1>6, FormattedFacts
  <1>8. ASSUME Precision # 0, bought % Step = 0 PROVE Half + Remain = bought
    <2>1. PICK s \in Nat \ {0} : s = Step
      BY StepAssumption
    <2>2. PICK j \in Nat, k \in Nat : h = j * s /\ bought = k * s
      <3>1. \A n \in Nat : n % s = 0 => n = (n \div s) * s /\ n \div s \in Nat
        OBVIOUS
      <3>2. QED
        BY <1>2, <1>8, <2>1, <3>1, ZenonT(60)
    <2>3. l = (k - j) * s /\ k - j \in Nat
      BY <1>3, <2>2
    <2>4. m = l
      BY <1>4, <2>1, <2>3, RoundExact
    <2>5. QED
      BY <1>3, <1>6, <1>8, <2>4, FormattedFacts
  <1>9. QED
    BY <1>2, <1>3, <1>5, <1>7, <1>8

\* What calculateQuantityFromUSDT gives an order that is sent.
LEMMA OpenFacts ==
  ASSUME NEW o \in Orders, OpenQuantity(o) > 0
  PROVE  /\ OpenQuantity(o) \in Nat
         /\ Precision = 0 \/ OpenQuantity(o) % Step = 0
  <1>1. PICK n \in Int : n = o.usdt * o.leverage * 10 ^ Precision
    <2>1. o.usdt \in Nat /\ o.leverage \in Nat
      BY OrderAssumption
    <2>2. 10 ^ Precision \in Int
      BY PrecisionAssumption
    <2>3. QED
      BY <2>1, <2>2
  <1>2. PICK e \in Nat \ {0} : e = Entry * Step
    BY StepAssumption, PriceAssumption
  <1>3. PICK k \in Int : k = n \div e
    BY <1>2
  <1>4. RoundToStep(n, Entry) = k * Step
    BY <1>2, <1>3 DEF RoundToStep
  <1>5. /\ ~(k * Step < MinQty)
        /\ OpenQuantity(o) = Formatted(k * Step)
    BY <1>1, <1>4 DEF OpenQuantity
  <1>6. k * Step \in Nat /\ k \in Nat
    BY <1>5, StepAssumption, RuleAssumption
  <1>7. (k * Step) % Step = 0
    BY <1>6, StepAssumption, Multiple
  <1>8. QED
    BY <1>5, <1>6, <1>7, FormattedFacts

LEMMA PlanFacts ==
  ASSUME plan \in Orders
  PROVE  /\ IsFiniteSet(Index) /\ TPs = {TP(i) : i \in Index} /\ TPs \subseteq Conds
         /\ SL \in Conds /\ TS \in Conds /\ SL # TS
         /\ SL \notin TPs /\ TS \notin TPs
         /\ DOMAIN plan.percents = Index
         /\ \A i \in Index : plan.percents[i] \in Nat
         /\ \A i, j \in Index : TP(i) = TP(j) => i = j
         /\ plan.ladder => SumFunction(plan.percents) = 100
         /\ ~plan.ladder => Index = {1} /\ TPs = {TP1}
  <1>1. /\ plan.rewards \in Seq(Nat) /\ plan.percents \in Seq(Nat)
        /\ Len(plan.rewards) = Len(plan.percents) /\ Len(plan.rewards) > 0
        /\ plan.ladder => SumFunction(plan.percents) = 100
        /\ ~plan.ladder => Len(plan.rewards) = 1
    BY OrderAssumption
  <1>2. /\ Index = 1 .. Len(plan.rewards) /\ DOMAIN plan.percents = Index
        /\ \A i \in Index : plan.percents[i] \in Nat
    BY <1>1 DEF Index
  <1>3. IsFiniteSet(Index)
    BY <1>1, <1>2, FS_Interval
  <1>4. TPs = {TP(i) : i \in Index} /\ TPs \subseteq Conds
    BY DEF TPs, TP, Index, Conds, Levels
  <1>5. SL \in Conds /\ TS \in Conds /\ SL # TS
    BY DEF Conds, SL, TS
  <1>6. SL \notin TPs /\ TS \notin TPs
    BY DEF TPs, SL, TS
  <1>7. \A i, j \in Index : TP(i) = TP(j) => i = j
    BY DEF TP
  <1>8. ~plan.ladder => Index = {1} /\ TPs = {TP1}
    <2> SUFFICES ASSUME ~plan.ladder PROVE Index = {1} /\ TPs = {TP1}
      OBVIOUS
    <2>1. Index = {1}
      BY <1>1, <1>2
    <2>2. QED
      BY <1>4, <2>1 DEF TP1, TP
  <1>9. QED
    BY <1>1, <1>2, <1>3, <1>4, <1>5, <1>6, <1>7, <1>8

\* The levels of a ladder are no more than the order.
LEMMA LadderFacts ==
  ASSUME plan \in Orders, plan.ladder, bought \in Nat
  PROVE  /\ \A i \in Index : Parts[i] \in Nat /\ Parts[i] = LevelQty(TP(i))
         /\ SumFunction(Parts) = SumFunctionOnSet(Parts, Index)
         /\ SumFunction(Parts) \in Nat /\ SumFunction(Parts) <= bought
  <1> DEFINE p == plan.percents
  <1>1. /\ IsFiniteSet(Index) /\ DOMAIN p = Index /\ SumFunction(p) = 100
        /\ \A i \in Index : p[i] \in Nat
    BY PlanFacts
  <1>2. /\ \A i \in Index : Parts[i] = LevelQty(TP(i))
        /\ SumFunction(Parts) = SumFunctionOnSet(Parts, Index)
    BY DEF Parts, Index, TP, SumFunction
  <1>3. \A i \in Index : Parts[i] = Share(bought, p[i])
    BY <1>2 DEF LevelQty, TP
  <1>4. ASSUME NEW i \in Index
        PROVE  Parts[i] \in Nat /\ Parts[i] * 100 <= bought * p[i]
    <2>1. PICK k \in Nat : k = p[i]
      BY <1>1
    <2>2. Share(bought, k) \in Nat /\ Share(bought, k) * 100 <= bought * k
      BY ShareFacts
    <2>3. QED
      BY <1>3, <2>1, <2>2
  <1>5. SumFunctionOnSet(Parts, Index) * 100
          <= bought * SumFunctionOnSet(p, Index)
    BY <1>1, <1>4, SumBound
  <1>6. SumFunctionOnSet(p, Index) = 100
    BY <1>1 DEF SumFunction
  <1>7. SumFunctionOnSet(Parts, Index) \in Nat
    BY <1>1, <1>4, SumNat
  <1>8. QED
    BY <1>2, <1>4, <1>5, <1>6, <1>7

\* The orders on their way, one more or one less.
Total(S) == SumFunction([o \in S |-> o.qty])

LEMMA TotalFacts ==
  ASSUME NEW S, IsFiniteSet(S), \A o \in S : o.qty \in Nat
  PROVE  /\ Total(S) \in Nat
         /\ \A r : r \notin S /\ r.qty \in Nat =>
              Total(S \cup {r}) = Total(S) + r.qty
         /\ \A r \in S : Total(S) = Total(S \ {r}) + r.qty
  <1> DEFINE Q(A) == [o \in A |-> o.qty]
  <1>1. \A A : Total(A) = SumFunctionOnSet(Q(A), A)
    BY DEF Total, SumFunction
  <1>2. Total(S) \in Nat
    BY <1>1, SumNat
  <1>3. ASSUME NEW A, IsFiniteSet(A), NEW r \in A, \A o \in A : o.qty \in Nat
        PROVE  Total(A) = Total(A \ {r}) + r.qty
    <2>1. SumFunctionOnSet(Q(A), A)
            = Q(A)[r] + SumFunctionOnSet(Q(A), A \ {r})
      BY <1>3, SumRemove
    <2>2. SumFunctionOnSet(Q(A), A \ {r})
            = SumFunctionOnSet(Q(A \ {r}), A \ {r})
      BY <1>3, SumSame, FS_Subset
    <2>3. SumFunctionOnSet(Q(A), A \ {r}) \in Nat
      BY <1>3, SumNat, FS_Subset
    <2>4. PICK x \in Nat, y \in Nat : x = Total(A \ {r}) /\ y = r.qty
      <3>1. Total(A \ {r}) = SumFunctionOnSet(Q(A \ {r}), A \ {r})
        BY <1>1, Zenon
      <3>2. Total(A \ {r}) \in Nat /\ r.qty \in Nat
        BY <1>3, <2>2, <2>3, <3>1, Zenon
      <3>3. QED
        BY <3>2
    <2>5. Q(A)[r] = y
      BY <1>3, <2>4
    <2>6. Total(A) = y + x
      BY <1>1, <2>1, <2>2, <2>4, <2>5
    <2>7. QED
      BY <2>4, <2>6
  <1>4. ASSUME NEW r, r \notin S, r.qty \in Nat
        PROVE  Total(S \cup {r}) = Total(S) + r.qty
    <2>1. IsFiniteSet(S \cup {r}) /\ (S \cup {r}) \ {r} = S
      BY <1>4, FS_AddElement
    <2>2. QED
      BY <1>3, <1>4, <2>1
  <1>5. QED
    BY <1>2, <1>3, <1>4

-----------------------------------------------------------------------------
(***************************************************************************)
(* Types.                                                                  *)
(***************************************************************************)
Statuses == {"none", "ACTIVE", "TRIGGERED", "CANCELLED"}

LEMMA TypeFacts ==
  ASSUME TypeOK
  PROVE  /\ Half \in Nat /\ Remain \in Nat /\ Half + Remain <= bought
         /\ \A i \in Index : LevelQty(TP(i)) \in Nat
         /\ \A p \in Nat : Followed(p) \in Nat
         /\ \A c \in Conds, whole \in BOOLEAN : SendQty(c, whole) \in Nat
  <1>1. Half \in Nat /\ Remain \in Nat /\ Half + Remain <= bought
    BY HalfFacts DEF TypeOK
  <1>2. ASSUME NEW i \in Index PROVE LevelQty(TP(i)) \in Nat
    <2>1. PICK k \in Nat : k = plan.percents[i]
      BY PlanFacts DEF TypeOK
    <2>2. Share(bought, k) \in Nat
      BY ShareFacts DEF TypeOK
    <2>3. QED
      BY <2>1, <2>2 DEF LevelQty, TP, TypeOK
  <1>3. \A p \in Nat : Followed(p) \in Nat
    BY DEF Followed, TypeOK
  <1>4. \A c \in Conds, whole \in BOOLEAN : SendQty(c, whole) \in Nat
    BY <1>1 DEF SendQty, TypeOK
  <1>5. QED
    BY <1>1, <1>2, <1>3, <1>4

LEMMA TypeStart == Init => TypeOK
  <1> SUFFICES ASSUME Init PROVE TypeOK
    OBVIOUS
  <1>1. /\ plan \in Orders /\ bought \in Nat /\ bought > 0
        /\ long \in BOOLEAN
    BY OpenFacts DEF Init
  <1>2. /\ SL \in Conds /\ TPs = {TP(i) : i \in Index}
    BY <1>1, PlanFacts
  <1>3. \A c \in TPs : LevelQty(c) \in Nat
    <2>1. ASSUME NEW i \in Index PROVE LevelQty(TP(i)) \in Nat
      <3>1. PICK k \in Nat : k = plan.percents[i]
        BY <1>1, PlanFacts
      <3>2. Share(bought, k) \in Nat
        BY <1>1, ShareFacts
      <3>3. QED
        BY <1>1, <3>1, <3>2 DEF LevelQty, TP
    <2>2. QED
      BY <1>2, <2>1
  <1>4. qty \in [Conds -> Nat]
    BY <1>1, <1>3 DEF Init
  <1>5. status \in [Conds -> {"none", "ACTIVE", "TRIGGERED", "CANCELLED"}]
    BY DEF Init
  <1>6. QED
    BY <1>1, <1>2, <1>4, <1>5, PriceAssumption DEF Init, TypeOK

LEMMA TypeKeeps == TypeOK /\ [Next]_vars => TypeOK'
  <1> SUFFICES ASSUME TypeOK, [Next]_vars PROVE TypeOK'
    OBVIOUS
  <1> USE DEF TypeOK
  <1>1. SL \in Conds /\ TS \in Conds
    BY PlanFacts
  <1>2. ASSUME NEW c \in Conds, NEW ro \in BOOLEAN, NEW whole \in BOOLEAN,
               Trigger(c, ro, whole)
        PROVE  TypeOK'
    <2>1. PICK q \in Nat : q = SendQty(c, whole)
      BY TypeFacts
    <2>2. q > 0 /\ sold' = sold + q
      BY <1>2, <2>1 DEF Trigger, Accepted
    <2>3. PICK h \in BOOLEAN : h = (ro \/ plan.hedge)
      OBVIOUS
    <2>4. orders' = orders \cup {[cond |-> c, qty |-> q, ro |-> h]}
      BY <1>2, <2>1, <2>3 DEF Trigger, Accepted
    <2>5. orders' \subseteq [cond : Conds, qty : Nat \ {0}, ro : BOOLEAN]
      BY <2>2, <2>4
    <2>6. extreme' \in Nat /\ step' \in {"register", "link"} /\ hit' = c
      BY <1>2, TypeFacts DEF Trigger, Visit, AfterHit
    <2>7. status' \in [Conds -> {"none", "ACTIVE", "TRIGGERED", "CANCELLED"}]
      BY <1>2 DEF Trigger
    <2>8. QED
      BY <1>2, <2>2, <2>5, <2>6, <2>7 DEF Trigger
  <1>3. ASSUME NEW c \in Conds, NEW ro \in BOOLEAN, NEW whole \in BOOLEAN,
               TriggerClosed(c, ro, whole)
        PROVE  TypeOK'
    BY <1>3, TypeFacts DEF TriggerClosed, Visit
  <1>4. CASE Follow
    BY <1>4, TypeFacts DEF Follow, Visit
  <1>5. CASE Link
    BY <1>5 DEF Link
  <1>6. ASSUME NEW ok \in BOOLEAN, Register(ok) PROVE TypeOK'
    BY <1>1, <1>6, TypeFacts DEF Register
  <1>7. ASSUME NEW p \in Prices, Move(p) PROVE TypeOK'
    BY <1>7, PriceAssumption DEF Move
  <1>8. ASSUME NEW o \in orders, Fill(o) PROVE TypeOK'
    BY <1>8 DEF Fill
  <1>9. ASSUME NEW k \in 1 .. bought \div Step, ReduceByHand(k * Step)
        PROVE  TypeOK'
    <2>1. k * Step \in Int
      BY StepAssumption
    <2>2. QED
      BY <1>9, <2>1 DEF ReduceByHand
  <1>10. CASE UNCHANGED vars
    BY <1>10 DEF vars
  <1>11. QED
    BY <1>2, <1>3, <1>4, <1>5, <1>6, <1>7, <1>8, <1>9, <1>10 DEF Next

\* The state of a group stays within its types: above all, no quantity is
\* negative, whatever the sizes of the order and of its levels.
THEOREM TypeCorrect == Spec => []TypeOK
  BY TypeStart, TypeKeeps, PTL DEF Spec

-----------------------------------------------------------------------------
(***************************************************************************)
(* The group.                                                              *)
(***************************************************************************)
LEMMA RestingIs == Resting = Total(orders)
  BY DEF Resting, Total

\* The orders are as many quantities of naturals, and one more or less is that
\* much more or less on its way.
LEMMA RestingFacts ==
  ASSUME TypeOK, OrdersInv
  PROVE  /\ Resting \in Nat
         /\ \A o \in orders : Total(orders \ {o}) = Resting - o.qty
                              /\ Total(orders \ {o}) \in Nat
         /\ \A o : o \notin orders /\ o.qty \in Nat
                     => Total(orders \cup {o}) = Resting + o.qty
  <1>1. IsFiniteSet(orders) /\ \A o \in orders : o.qty \in Nat
    BY DEF OrdersInv, TypeOK
  <1>2. Total(orders) \in Nat
    BY <1>1, TotalFacts
  <1>3. ASSUME NEW o \in orders
        PROVE  Total(orders \ {o}) = Total(orders) - o.qty
               /\ Total(orders \ {o}) \in Nat
    <2>1. IsFiniteSet(orders \ {o})
      BY <1>1, FS_Subset
    <2>2. Total(orders \ {o}) \in Nat
      BY <1>1, <2>1, TotalFacts
    <2>3. Total(orders) = Total(orders \ {o}) + o.qty
      BY <1>1, TotalFacts
    <2>4. o.qty \in Nat
      BY <1>1
    <2>5. QED
      BY <2>2, <2>3, <2>4
  <1>4. \A o : o \notin orders /\ o.qty \in Nat
                 => Total(orders \cup {o}) = Total(orders) + o.qty
    BY <1>1, TotalFacts
  <1>5. QED
    BY <1>2, <1>3, <1>4, RestingIs

\* Only an accepted order is on its way, and its condition is done.
LEMMA TriggerOrders ==
  ASSUME TypeOK, OrdersInv, NEW c \in Conds, NEW ro \in BOOLEAN,
         NEW whole \in BOOLEAN, Trigger(c, ro, whole)
  PROVE  OrdersInv'
  <1>1. PICK q \in Nat : q = SendQty(c, whole)
    BY TypeFacts
  <1>2. PICK h \in BOOLEAN : h = (ro \/ plan.hedge)
    OBVIOUS
  <1>3. PICK r : r = [cond |-> c, qty |-> q, ro |-> h]
    OBVIOUS
  <1>4. /\ orders' = orders \cup {r} /\ sold' = sold + q /\ pos' = pos
        /\ status[c] = "ACTIVE" /\ status' = [status EXCEPT ![c] = "TRIGGERED"]
        /\ plan' = plan /\ bought' = bought
    BY <1>1, <1>2, <1>3 DEF Trigger, Visit, Accepted
  <1>5. r.cond = c /\ r.qty = q
    BY <1>3
  <1>6. r \notin orders
    BY <1>4, <1>5 DEF OrdersInv
  <1>7. Resting' = Resting + q
    <2>1. Resting' = Total(orders')
      BY DEF Resting, Total
    <2>2. QED
      BY <1>4, <1>5, <1>6, <2>1, RestingFacts
  <1>8. pos' <= Unsold' + Resting'
    <2>1. /\ pos \in Int /\ bought \in Nat /\ sold \in Nat /\ Resting \in Nat
          /\ pos <= Unsold + Resting
      BY RestingFacts DEF TypeOK, OrdersInv
    <2>2. QED
      BY <1>4, <1>7, <2>1 DEF Unsold
  <1>9. IsFiniteSet(orders')
    BY <1>4, FS_AddElement DEF OrdersInv
  <1>10. \A o \in orders' : status'[o.cond] = "TRIGGERED"
    BY <1>4, <1>5 DEF OrdersInv, TypeOK
  <1>11. TPs' = TPs
    BY <1>4 DEF TPs
  <1>12. \A d \in Conds \ (TPs \cup {SL, TS}) : status'[d] = "none"
    BY <1>4 DEF OrdersInv, TypeOK
  <1>13. QED
    BY <1>8, <1>9, <1>10, <1>11, <1>12 DEF OrdersInv

\* The steps that leave the orders alone.
LEMMA QuietOrders ==
  ASSUME TypeOK, OrdersInv, plan' = plan, bought' = bought, orders' = orders,
         sold' = sold, pos' \in Int, pos' <= pos,
         \A c \in Conds : status[c] = "TRIGGERED" => status'[c] = "TRIGGERED",
         \A c \in Conds : status[c] = "none" => status'[c] = "none" \/ c = TS
  PROVE  OrdersInv'
  <1>1. TPs' = TPs /\ Resting' = Resting /\ Unsold' = Unsold
    BY DEF TPs, Resting, Unsold
  <1>2. pos' <= Unsold' + Resting'
    <2>1. /\ pos \in Int /\ Unsold \in Int /\ Resting \in Nat
          /\ pos <= Unsold + Resting
      BY RestingFacts DEF TypeOK, OrdersInv, Unsold
    <2>2. QED
      BY <1>1, <2>1
  <1>3. \A o \in orders' : status'[o.cond] = "TRIGGERED"
    BY DEF OrdersInv, TypeOK
  <1>4. \A d \in Conds \ (TPs \cup {SL, TS}) : status'[d] = "none"
    BY DEF OrdersInv
  <1>5. QED
    BY <1>1, <1>2, <1>3, <1>4 DEF OrdersInv

LEMMA FillOrders ==
  ASSUME TypeOK, OrdersInv, NEW o \in orders, Fill(o)
  PROVE  OrdersInv' /\ pos' \in Int /\ pos' <= pos
  <1>1. /\ orders' = orders \ {o}
        /\ UNCHANGED <<plan, bought, status, sold>>
        /\ pos' = IF o.ro THEN (IF pos > o.qty THEN pos - o.qty
                                ELSE IF pos > 0 THEN 0 ELSE pos)
                  ELSE pos - o.qty
    BY DEF Fill
  <1>2. PICK q \in Nat, ro \in BOOLEAN : q = o.qty /\ ro = o.ro
    BY DEF TypeOK
  <1>3. Resting' = Resting - q /\ Resting' \in Nat
    <2>1. Resting' = Total(orders')
      BY DEF Resting, Total
    <2>2. QED
      BY <1>1, <1>2, <2>1, RestingFacts
  <1>4. /\ Unsold' = Unsold /\ TPs' = TPs /\ Unsold \in Nat /\ pos \in Int
        /\ pos <= Unsold + Resting /\ Resting \in Nat
    BY <1>1, RestingFacts DEF Unsold, TPs, TypeOK, OrdersInv
  <1>5. pos' \in Int /\ pos' <= pos /\ pos' <= Unsold' + Resting'
    BY <1>1, <1>2, <1>3, <1>4
  <1>6. IsFiniteSet(orders')
    BY <1>1, FS_Subset DEF OrdersInv
  <1>7. QED
    BY <1>1, <1>4, <1>5, <1>6 DEF OrdersInv

\* The conditions of a single take profit.
LEMMA SingleFacts ==
  ASSUME TypeOK, OrdersInv, ~plan.ladder
  PROVE  /\ TPs = {TP1} /\ {TP1, SL, TS} \subseteq Conds
         /\ TP1 # SL /\ TP1 # TS /\ SL # TS
         /\ \A c \in Conds : status[c] # "none" => c \in {TP1, SL, TS}
  BY PlanFacts DEF TypeOK, OrdersInv, TP1, SL, TS

LEMMA SingleTrigger ==
  ASSUME TypeOK, OrdersInv, SingleInv, ~plan.ladder, NEW c \in Conds,
         NEW ro \in BOOLEAN, NEW whole \in BOOLEAN, Trigger(c, ro, whole)
  PROVE  SingleInv'
  <1>1. /\ status[c] = "ACTIVE" /\ step = "idle" /\ hit' = c
        /\ step' = AfterHit(c, whole) /\ sold' = sold + SendQty(c, whole)
        /\ status' = [status EXCEPT ![c] = "TRIGGERED"]
        /\ UNCHANGED <<plan, bought, pos, qty, fails>>
    BY DEF Trigger, Visit, Accepted
  <1>2. /\ TPs = {TP1} /\ {TP1, SL, TS} \subseteq Conds
        /\ TP1 # SL /\ TP1 # TS /\ SL # TS /\ c \in {TP1, SL, TS}
    BY <1>1, SingleFacts
  <1>3. Half' = Half /\ Remain' = Remain /\ Half \in Nat /\ Remain \in Nat
        /\ bought \in Nat
    BY <1>1, TypeFacts DEF Half, Remain, TypeOK
  <1>4. CASE c = TP1
    <2>1. /\ status[TP1] = "ACTIVE" /\ status[SL] = "ACTIVE"
          /\ status[TS] = "none" /\ sold = 0
      BY <1>1, <1>4 DEF SingleInv
    <2>2. /\ status'[TP1] = "TRIGGERED" /\ status'[SL] = "ACTIVE"
          /\ status'[TS] = "none"
      BY <1>1, <1>2, <1>4, <2>1 DEF TypeOK
    <2>3. CASE whole
      <3>1. step' = "link" /\ sold' = bought
        BY <1>1, <1>2, <1>3, <1>4, <2>1, <2>3
        DEF AfterHit, SendQty, Partial, SingleInv
      <3>2. QED
        BY <1>1, <1>4, <2>2, <3>1 DEF SingleInv
    <2>4. CASE ~whole
      <3>1. step' = "register" /\ sold' = Half
        BY <1>1, <1>2, <1>3, <1>4, <2>1, <2>4 DEF AfterHit, SendQty, Partial
      <3>2. QED
        BY <1>1, <1>3, <1>4, <2>2, <3>1 DEF SingleInv
    <2>5. QED
      BY <2>3, <2>4
  <1>5. CASE c = SL
    <2>1. /\ status[TP1] = "ACTIVE" /\ status[TS] = "none" /\ sold = 0
      BY <1>1, <1>2, <1>5 DEF SingleInv
    <2>2. /\ status'[TP1] = "ACTIVE" /\ status'[SL] = "TRIGGERED"
          /\ status'[TS] = "none"
      BY <1>1, <1>2, <1>5, <2>1 DEF TypeOK
    <2>3. step' = "link" /\ sold' = bought
      BY <1>1, <1>2, <1>3, <1>5, <2>1
      DEF AfterHit, SendQty, Partial, SingleInv
    <2>4. QED
      BY <1>1, <1>5, <2>2, <2>3 DEF SingleInv
  <1>6. CASE c = TS
    <2>1. /\ status[TP1] = "TRIGGERED" /\ status[SL] = "CANCELLED"
          /\ qty[TS] = Remain /\ sold = Half
      BY <1>1, <1>2, <1>6 DEF SingleInv
    <2>2. /\ status'[TP1] = "TRIGGERED" /\ status'[SL] = "CANCELLED"
          /\ status'[TS] = "TRIGGERED"
      BY <1>1, <1>2, <1>6, <2>1 DEF TypeOK
    <2>3. step' = "link" /\ sold' = Half + Remain
      BY <1>1, <1>2, <1>6, <2>1 DEF AfterHit, SendQty, Partial
    <2>4. QED
      BY <1>1, <1>3, <1>6, <2>2, <2>3 DEF SingleInv
  <1>7. QED
    BY <1>2, <1>4, <1>5, <1>6

LEMMA SingleClosed ==
  ASSUME TypeOK, OrdersInv, SingleInv, ~plan.ladder, NEW c \in Conds,
         NEW ro \in BOOLEAN, NEW whole \in BOOLEAN, TriggerClosed(c, ro, whole)
  PROVE  SingleInv'
  <1>1. /\ status[c] = "ACTIVE" /\ step = "idle" /\ pos <= 0
        /\ status' = [d \in Conds |->
             IF d = c \/ (status[d] = "ACTIVE" /\ (d = TS) = (c = TS))
             THEN "CANCELLED" ELSE status[d]]
        /\ UNCHANGED <<plan, bought, pos, qty, fails, step, hit, sold>>
    BY DEF TriggerClosed, Visit
  <1>2. /\ {TP1, SL, TS} \subseteq Conds /\ TP1 # SL /\ TP1 # TS /\ SL # TS
        /\ c \in {TP1, SL, TS}
    BY <1>1, SingleFacts
  <1>3. Half' = Half /\ Remain' = Remain
    BY <1>1 DEF Half, Remain
  <1>4. CASE c # TS
    <2>1. /\ status[TP1] = "ACTIVE" /\ status[SL] = "ACTIVE"
          /\ status[TS] = "none" /\ sold = 0
      BY <1>1, <1>2, <1>4 DEF SingleInv
    <2>2. /\ status'[TP1] = "CANCELLED" /\ status'[SL] = "CANCELLED"
          /\ status'[TS] = "none"
      BY <1>1, <1>2, <1>4, <2>1
    <2>3. QED
      BY <1>1, <2>1, <2>2 DEF SingleInv
  <1>5. CASE c = TS
    <2>1. /\ status[TP1] = "TRIGGERED" /\ status[SL] = "CANCELLED"
          /\ sold = Half
      BY <1>1, <1>2, <1>5 DEF SingleInv
    <2>2. /\ status'[TP1] = "TRIGGERED" /\ status'[SL] = "CANCELLED"
          /\ status'[TS] = "CANCELLED"
      BY <1>1, <1>2, <1>5, <2>1
    <2>3. QED
      BY <1>1, <1>3, <2>1, <2>2 DEF SingleInv
  <1>6. QED
    BY <1>4, <1>5

LEMMA SingleRegister ==
  ASSUME TypeOK, OrdersInv, SingleInv, ~plan.ladder, NEW ok \in BOOLEAN,
         Register(ok)
  PROVE  SingleInv' /\ status[TS] = "none"
  <1>1. /\ step = "register" /\ step' = "link"
        /\ UNCHANGED <<plan, bought, pos, hit, sold>>
        /\ \/ /\ status' = [status EXCEPT ![TS] = "ACTIVE"]
              /\ qty' = [qty EXCEPT ![TS] = Remain] /\ fails' = fails
           \/ fails' = fails + 1 /\ status' = status /\ qty' = qty
    BY DEF Register
  <1>2. {TP1, SL, TS} \subseteq Conds /\ TP1 # SL /\ TP1 # TS /\ SL # TS
    BY SingleFacts
  <1>3. Half' = Half /\ Remain' = Remain
    BY <1>1 DEF Half, Remain
  <1>4. /\ status[TP1] = "TRIGGERED" /\ status[SL] = "ACTIVE"
        /\ status[TS] = "none" /\ hit = TP1 /\ sold = Half
        /\ qty[TP1] = bought /\ qty[SL] = bought
    BY <1>1 DEF SingleInv
  <1>5. /\ status'[TP1] = "TRIGGERED" /\ status'[SL] = "ACTIVE"
        /\ qty'[TP1] = bought /\ qty'[SL] = bought
        /\ \/ status'[TS] = "ACTIVE" /\ qty'[TS] = Remain
           \/ status'[TS] = "none" /\ fails' > 0
    BY <1>1, <1>2, <1>4 DEF TypeOK
  <1>6. QED
    BY <1>1, <1>3, <1>4, <1>5 DEF SingleInv

LEMMA SingleLink ==
  ASSUME TypeOK, OrdersInv, SingleInv, ~plan.ladder, Link
  PROVE  SingleInv'
  <1>1. /\ step = "link" /\ step' = "idle"
        /\ UNCHANGED <<plan, bought, pos, hit, sold, qty, fails>>
        /\ status' = [d \in Conds |->
             IF d \in Cancelled(hit) /\ status[d] = "ACTIVE" THEN "CANCELLED"
             ELSE status[d]]
    BY DEF Link
  <1>2. /\ TPs = {TP1} /\ {TP1, SL, TS} \subseteq Conds
        /\ TP1 # SL /\ TP1 # TS /\ SL # TS
    BY SingleFacts
  <1>3. Half' = Half /\ Remain' = Remain
    BY <1>1 DEF Half, Remain
  <1>4. CASE hit = TP1
    <2>1. /\ status[TP1] = "TRIGGERED" /\ status[SL] = "ACTIVE"
          /\ \/ status[TS] = "ACTIVE" /\ qty[TS] = Remain /\ sold = Half
             \/ /\ status[TS] = "none"
                /\ sold = bought \/ (sold = Half /\ fails > 0)
      BY <1>1, <1>2, <1>4 DEF SingleInv
    <2>2. Cancelled(hit) = {SL}
      BY <1>2, <1>4, <2>1 DEF Cancelled, Active
    <2>3. /\ status'[TP1] = "TRIGGERED" /\ status'[SL] = "CANCELLED"
          /\ status'[TS] = status[TS]
      BY <1>1, <1>2, <2>1, <2>2
    <2>4. QED
      BY <1>1, <1>3, <2>1, <2>3 DEF SingleInv
  <1>5. CASE hit = SL
    <2>1. /\ status[TP1] = "ACTIVE" /\ status[SL] = "TRIGGERED"
          /\ status[TS] = "none" /\ sold = bought
      BY <1>1, <1>2, <1>5 DEF SingleInv
    <2>2. Cancelled(hit) = {TP1}
      BY <1>2, <1>5 DEF Cancelled
    <2>3. /\ status'[TP1] = "CANCELLED" /\ status'[SL] = "TRIGGERED"
          /\ status'[TS] = "none"
      BY <1>1, <1>2, <2>1, <2>2
    <2>4. QED
      BY <1>1, <2>1, <2>3 DEF SingleInv
  <1>6. CASE hit = TS
    <2>1. /\ status[TP1] = "TRIGGERED" /\ status[SL] = "CANCELLED"
          /\ status[TS] = "TRIGGERED" /\ sold = Half + Remain
      BY <1>1, <1>2, <1>6 DEF SingleInv
    <2>2. /\ status'[TP1] = "TRIGGERED" /\ status'[SL] = "CANCELLED"
          /\ status'[TS] = "TRIGGERED"
      BY <1>1, <1>2, <2>1
    <2>3. QED
      BY <1>1, <1>3, <2>1, <2>2 DEF SingleInv
  <1>7. QED
    BY <1>1, <1>2, <1>4, <1>5, <1>6 DEF SingleInv

\* The conditions of a ladder.
LEMMA LevelFacts ==
  ASSUME TypeOK, OrdersInv, LadderInv, plan.ladder
  PROVE  /\ TPs = {TP(i) : i \in Index} /\ TPs \subseteq Conds
         /\ SL \in Conds \ TPs /\ TS \in Conds \ TPs /\ SL # TS
         /\ \A i, j \in Index : TP(i) = TP(j) => i = j
         /\ \A c \in Conds : status[c] = "ACTIVE" =>
              c = SL \/ \E i \in Index : c = TP(i)
         /\ IsFiniteSet(Index) /\ IsFiniteSet(Fired)
         /\ \A i \in Index : Parts[i] \in Nat
         /\ SumFunction(Parts) = SumFunctionOnSet(Parts, Index)
         /\ SumFunctionOnSet(Parts, Fired) \in Nat
  <1>1. /\ TPs = {TP(i) : i \in Index} /\ TPs \subseteq Conds
        /\ SL \in Conds \ TPs /\ TS \in Conds \ TPs /\ SL # TS
        /\ \A i, j \in Index : TP(i) = TP(j) => i = j
        /\ IsFiniteSet(Index)
    BY PlanFacts DEF TypeOK
  <1>2. \A c \in Conds : status[c] = "ACTIVE" =>
          c = SL \/ \E i \in Index : c = TP(i)
    BY <1>1 DEF OrdersInv, LadderInv
  <1>3. /\ \A i \in Index : Parts[i] \in Nat
        /\ SumFunction(Parts) = SumFunctionOnSet(Parts, Index)
    BY LadderFacts DEF TypeOK
  <1>4. Fired \subseteq Index
    BY DEF Fired
  <1>5. IsFiniteSet(Fired)
    BY <1>1, <1>4, FS_Subset
  <1>6. SumFunctionOnSet(Parts, Fired) \in Nat
    BY <1>3, <1>4, <1>5, SumNat
  <1>7. QED
    BY <1>1, <1>2, <1>3, <1>5, <1>6

LEMMA LadderTrigger ==
  ASSUME TypeOK, OrdersInv, LadderInv, plan.ladder, NEW c \in Conds,
         NEW ro \in BOOLEAN, NEW whole \in BOOLEAN, Trigger(c, ro, whole)
  PROVE  LadderInv'
  <1>1. /\ status[c] = "ACTIVE" /\ step' = "link" /\ hit' = c
        /\ sold' = sold + qty[c]
        /\ status' = [status EXCEPT ![c] = "TRIGGERED"]
        /\ UNCHANGED <<plan, bought, pos, qty>>
    BY DEF Trigger, Visit, Accepted, SendQty, AfterHit, Partial
  <1>2. /\ Index' = Index /\ Parts' = Parts /\ TPs' = TPs /\ qty' = qty
        /\ bought' = bought /\ pos' = pos
    BY <1>1 DEF Index, Parts, LevelQty, TPs
  <1>3. /\ c # TS
        /\ c = SL \/ \E i \in Index : c = TP(i)
        /\ TS \in Conds
    BY <1>1, LevelFacts DEF LadderInv
  <1>4. /\ status'[c] = "TRIGGERED"
        /\ \A d \in Conds \ {c} : status'[d] = status[d]
    BY <1>1 DEF TypeOK
  <1>5. status'[TS] = "none"
    BY <1>1, <1>3, <1>4 DEF LadderInv
  <1>6. CASE c = SL
    <2>1. sold' >= bought
      BY <1>1, <1>6 DEF LadderInv, TypeOK
    <2>2. QED
      BY <1>1, <1>2, <1>4, <1>5, <1>6, <2>1 DEF LadderInv
  <1>7. ASSUME NEW i \in Index, c = TP(i) PROVE LadderInv'
    <2>1. /\ c # SL /\ c \in TPs /\ i \notin Fired /\ qty[c] = Parts[i]
          /\ \A j \in Index : TP(j) = c => j = i
          /\ SL \in Conds
      BY <1>1, <1>7, LevelFacts DEF Fired, LadderInv
    <2>2. status'[SL] = status[SL]
      BY <1>4, <2>1
    <2>3. Fired' = Fired \cup {i}
      <3>1. \A j \in Index : TP(j) \in Conds
        BY LevelFacts
      <3>2. QED
        BY <1>2, <1>4, <1>7, <2>1, <3>1 DEF Fired
    <2>4. SumFunctionOnSet(Parts, Fired \cup {i})
            = Parts[i] + SumFunctionOnSet(Parts, Fired)
      <3>1. \A x \in Fired \cup {i} : Parts[x] \in Int
        BY LevelFacts DEF Fired
      <3>2. QED
        BY <2>1, <3>1, LevelFacts, SumAdd
    <2>5. /\ Parts[i] \in Nat /\ SumFunctionOnSet(Parts, Fired) \in Nat
          /\ sold \in Nat /\ bought \in Nat
      BY LevelFacts DEF TypeOK
    <2>6. CASE status[SL] = "ACTIVE"
      <3>1. sold' = SumFunctionOnSet(Parts', Fired')
        BY <1>1, <1>2, <2>1, <2>3, <2>4, <2>5, <2>6 DEF LadderInv
      <3>2. \A j \in Index : status'[TP(j)] \in {"ACTIVE", "TRIGGERED"}
        BY <1>4, <2>6, LevelFacts DEF LadderInv
      <3>3. QED
        BY <1>1, <1>2, <1>5, <2>1, <2>2, <2>6, <3>1, <3>2 DEF LadderInv
    <2>7. CASE status[SL] = "TRIGGERED"
      <3>1. sold' >= bought
        BY <1>1, <2>1, <2>5, <2>7 DEF LadderInv
      <3>2. QED
        BY <1>1, <1>2, <1>5, <2>2, <2>7, <3>1 DEF LadderInv
    <2>8. CASE status[SL] = "CANCELLED"
      <3>1. pos <= 0
        BY <1>1, <1>7, <2>8 DEF LadderInv
      <3>2. QED
        BY <1>1, <1>2, <1>5, <2>2, <2>8, <3>1 DEF LadderInv
    <2>9. QED
      BY <2>6, <2>7, <2>8 DEF LadderInv
  <1>8. QED
    BY <1>3, <1>6, <1>7

LEMMA LadderClosed ==
  ASSUME TypeOK, OrdersInv, LadderInv, plan.ladder, NEW c \in Conds,
         NEW ro \in BOOLEAN, NEW whole \in BOOLEAN, TriggerClosed(c, ro, whole)
  PROVE  LadderInv'
  <1>1. /\ status[c] = "ACTIVE" /\ pos <= 0
        /\ status' = [d \in Conds |->
             IF d = c \/ (status[d] = "ACTIVE" /\ (d = TS) = (c = TS))
             THEN "CANCELLED" ELSE status[d]]
        /\ UNCHANGED <<plan, bought, pos, qty, step, hit, sold>>
    BY DEF TriggerClosed, Visit
  <1>2. /\ Index' = Index /\ Parts' = Parts /\ qty' = qty
        /\ bought' = bought /\ pos' = pos
    BY <1>1 DEF Index, Parts, LevelQty
  <1>3. c # TS /\ TS \in Conds /\ SL \in Conds /\ SL # TS
    BY <1>1, LevelFacts DEF LadderInv
  <1>4. status'[TS] = "none"
    BY <1>1, <1>3 DEF LadderInv
  <1>5. \/ status'[SL] = "CANCELLED"
        \/ status'[SL] = "TRIGGERED" /\ status[SL] = "TRIGGERED"
    BY <1>1, <1>3 DEF LadderInv
  <1>6. QED
    BY <1>1, <1>2, <1>4, <1>5 DEF LadderInv

\* The last take profit to go takes the stop loss with it.
LEMMA LastLevelCancels ==
  ASSUME NEW c, c \in TPs, SL \notin TPs, Active(TPs) = {}
  PROVE  Cancelled(c) = {SL}
  <1>1. c # SL /\ c # TS
    BY DEF TPs, SL, TS
  <1>2. QED
    BY <1>1, Zenon DEF Cancelled

LEMMA LadderLink ==
  ASSUME TypeOK, OrdersInv, LadderInv, plan.ladder, Link
  PROVE  LadderInv'
  <1>1. /\ step = "link" /\ step' = "idle"
        /\ UNCHANGED <<plan, bought, pos, hit, sold, qty>>
        /\ status' = [d \in Conds |->
             IF d \in Cancelled(hit) /\ status[d] = "ACTIVE" THEN "CANCELLED"
             ELSE status[d]]
    BY DEF Link
  <1>2. /\ Index' = Index /\ Parts' = Parts /\ qty' = qty
        /\ bought' = bought /\ pos' = pos /\ sold' = sold
    BY <1>1 DEF Index, Parts, LevelQty
  <1>3. /\ TS \in Conds /\ SL \in Conds /\ \A i \in Index : TP(i) \in Conds
        /\ SL \notin TPs
    BY LevelFacts
  <1>4. status'[TS] = "none"
    BY <1>1, <1>3 DEF LadderInv
  <1>5. CASE status[SL] = "ACTIVE"
    <2>1. hit \in TPs
      BY <1>1, <1>5 DEF LadderInv
    <2>2. CASE Active(TPs) = {}
      <3>1. Cancelled(hit) = {SL}
        BY <1>3, <2>1, <2>2, LastLevelCancels
      <3>2. status'[SL] = "CANCELLED"
        BY <1>1, <1>3, <1>5, <3>1
      <3>3. \A i \in Index : status[TP(i)] = "TRIGGERED"
        BY <1>5, <2>2, LevelFacts DEF Active, LadderInv
      <3>4. \A i \in Index : status'[TP(i)] = "TRIGGERED"
        BY <1>1, <1>3, <3>3
      <3>5. Fired = Index
        BY <3>3 DEF Fired
      <3>6. sold = SumFunction(Parts)
        BY <1>5, <3>5, LevelFacts DEF LadderInv
      <3>7. QED
        BY <1>1, <1>2, <1>4, <3>2, <3>4, <3>6 DEF LadderInv
    <2>3. CASE Active(TPs) # {}
      <3>1. Cancelled(hit) = {}
        BY <1>3, <2>1, <2>3 DEF Cancelled
      <3>2. \A d \in Conds : status'[d] = status[d]
        BY <1>1, <3>1
      <3>3. Fired' = Fired
        BY <1>2, <1>3, <3>2 DEF Fired
      <3>4. QED
        BY <1>1, <1>2, <1>3, <1>4, <1>5, <3>2, <3>3 DEF LadderInv
    <2>4. QED
      BY <2>2, <2>3
  <1>6. CASE status[SL] = "TRIGGERED"
    <2>1. status'[SL] = "TRIGGERED"
      BY <1>1, <1>3, <1>6
    <2>2. QED
      BY <1>1, <1>2, <1>4, <1>6, <2>1 DEF LadderInv
  <1>7. CASE status[SL] = "CANCELLED"
    <2>1. status'[SL] = "CANCELLED"
      BY <1>1, <1>3, <1>7
    <2>2. (\A i \in Index : status[TP(i)] = "TRIGGERED")
            => \A i \in Index : status'[TP(i)] = "TRIGGERED"
      BY <1>1, <1>3
    <2>3. QED
      BY <1>1, <1>2, <1>4, <1>7, <2>1, <2>2 DEF LadderInv
  <1>8. QED
    BY <1>5, <1>6, <1>7 DEF LadderInv

\* The steps that leave the conditions alone; nothing opens a closed position.
LEMMA OtherSteps ==
  ASSUME TypeOK, GroupInv,
         UNCHANGED <<plan, bought, status, qty, step, hit, sold, fails>>,
         OrdersInv', pos' \in Int, pos' <= pos
  PROVE  GroupInv'
  <1>1. /\ Index' = Index /\ Parts' = Parts /\ TPs' = TPs /\ Fired' = Fired
        /\ Half' = Half /\ Remain' = Remain
    BY DEF Index, Parts, LevelQty, TPs, Fired, Half, Remain
  <1>2. pos <= 0 => pos' <= 0
    BY DEF TypeOK
  <1>3. LadderInv => LadderInv'
    BY <1>1, <1>2 DEF LadderInv
  <1>4. SingleInv => SingleInv'
    BY <1>1, <1>2 DEF SingleInv
  <1>5. QED
    BY <1>3, <1>4 DEF GroupInv

LEMMA GroupKeeps ==
  ASSUME TypeOK, GroupInv, [Next]_vars PROVE GroupInv'
  <1>1. OrdersInv /\ pos \in Int
    BY DEF GroupInv, TypeOK
  <1>2. plan.ladder \in BOOLEAN /\ (plan.ladder => LadderInv)
        /\ (~plan.ladder => SingleInv)
    BY OrderAssumption DEF GroupInv, TypeOK
  <1>3. ASSUME NEW c \in Conds, NEW ro \in BOOLEAN, NEW whole \in BOOLEAN,
               Trigger(c, ro, whole)
        PROVE  GroupInv'
    <2>1. OrdersInv' /\ plan' = plan /\ bought' = bought
      BY <1>1, <1>3, TriggerOrders DEF Trigger
    <2>2. QED
      BY <1>1, <1>2, <1>3, <2>1, SingleTrigger, LadderTrigger DEF GroupInv
  <1>4. ASSUME NEW c \in Conds, NEW ro \in BOOLEAN, NEW whole \in BOOLEAN,
               TriggerClosed(c, ro, whole)
        PROVE  GroupInv'
    <2>1. UNCHANGED <<plan, bought, pos, orders, sold>>
      BY <1>4 DEF TriggerClosed
    <2>2. \A d \in Conds : status[d] # "ACTIVE" => status'[d] = status[d]
      BY <1>4 DEF TriggerClosed, Visit
    <2>3. OrdersInv'
      BY <1>1, <2>1, <2>2, QuietOrders
    <2>4. QED
      BY <1>1, <1>2, <1>4, <2>1, <2>3, SingleClosed, LadderClosed DEF GroupInv
  <1>5. CASE Link
    <2>1. UNCHANGED <<plan, bought, pos, orders, sold>>
      BY <1>5 DEF Link
    <2>2. \A d \in Conds : status[d] # "ACTIVE" => status'[d] = status[d]
      BY <1>5 DEF Link
    <2>3. OrdersInv'
      BY <1>1, <2>1, <2>2, QuietOrders
    <2>4. QED
      BY <1>1, <1>2, <1>5, <2>1, <2>3, SingleLink, LadderLink DEF GroupInv
  <1>6. ASSUME NEW ok \in BOOLEAN, Register(ok) PROVE GroupInv'
    <2>1. ~plan.ladder
      BY <1>2, <1>6 DEF Register, LadderInv
    <2>2. SingleInv' /\ status[TS] = "none"
      BY <1>1, <1>2, <1>6, <2>1, SingleRegister
    <2>3. /\ UNCHANGED <<plan, bought, pos, orders, sold>>
          /\ status' = status \/ status' = [status EXCEPT ![TS] = "ACTIVE"]
      BY <1>6 DEF Register
    <2>4. \A d \in Conds \ {TS} : status'[d] = status[d]
      BY <2>3 DEF TypeOK
    <2>5. OrdersInv'
      BY <1>1, <2>2, <2>3, <2>4, QuietOrders
    <2>6. QED
      BY <2>1, <2>2, <2>3, <2>5 DEF GroupInv
  <1>7. ASSUME NEW o \in orders, Fill(o) PROVE GroupInv'
    <2>1. OrdersInv' /\ pos' \in Int /\ pos' <= pos
      BY <1>1, <1>7, FillOrders
    <2>2. QED
      BY <1>7, <2>1, OtherSteps DEF Fill
  <1>8. ASSUME UNCHANGED <<plan, bought, status, qty, step, hit, sold, fails,
                           orders>>,
               pos' \in Int, pos' <= pos
        PROVE  GroupInv'
    <2>1. OrdersInv'
      BY <1>1, <1>8, QuietOrders
    <2>2. QED
      BY <1>8, <2>1, OtherSteps
  <1>9. CASE Follow \/ UNCHANGED vars
    BY <1>1, <1>8, <1>9 DEF Follow, vars
  <1>10. ASSUME NEW p \in Prices, Move(p) PROVE GroupInv'
    BY <1>1, <1>8, <1>10 DEF Move
  <1>11. ASSUME NEW k \in 1 .. bought \div Step, ReduceByHand(k * Step)
         PROVE  GroupInv'
    <2>1. PICK q \in Nat : q = k * Step
      BY StepAssumption
    <2>2. pos' = pos - q
      BY <1>11, <2>1 DEF ReduceByHand
    <2>3. QED
      BY <1>1, <1>8, <1>11, <2>2 DEF ReduceByHand
  <1>12. QED
    BY <1>3, <1>4, <1>5, <1>6, <1>7, <1>9, <1>10, <1>11 DEF Next

LEMMA GroupStart == Init => GroupInv
  <1> SUFFICES ASSUME Init PROVE GroupInv
    OBVIOUS
  <1>1. TypeOK /\ plan \in Orders
    BY TypeStart DEF Init
  <1>2. /\ status = [c \in Conds |->
             IF c \in TPs \cup {SL} THEN "ACTIVE" ELSE "none"]
        /\ qty = [c \in Conds |-> IF c \in TPs THEN LevelQty(c)
                                  ELSE IF c = SL THEN bought ELSE 0]
        /\ pos = bought /\ orders = {} /\ step = "idle" /\ sold = 0
    BY DEF Init
  <1>3. /\ TPs = {TP(i) : i \in Index} /\ TPs \subseteq Conds
        /\ SL \in Conds /\ TS \in Conds /\ SL # TS
        /\ SL \notin TPs /\ TS \notin TPs
        /\ ~plan.ladder => TPs = {TP1}
    BY <1>1, PlanFacts
  <1>4. /\ status[TS] = "none" /\ status[SL] = "ACTIVE" /\ qty[SL] = bought
        /\ \A i \in Index : /\ status[TP(i)] = "ACTIVE"
                            /\ qty[TP(i)] = LevelQty(TP(i))
    BY <1>2, <1>3
  <1>5. OrdersInv
    <2>1. Resting \in Nat
      <3>1. IsFiniteSet(orders) /\ \A o \in orders : o.qty \in Nat
        BY <1>2, FS_EmptySet
      <3>2. QED
        BY <3>1, TotalFacts, RestingIs
    <2>2. pos <= Unsold + Resting
      BY <1>1, <1>2, <2>1 DEF Unsold, TypeOK
    <2>3. QED
      BY <1>2, <2>2, FS_EmptySet DEF OrdersInv
  <1>6. ASSUME plan.ladder PROVE LadderInv
    <2>1. Fired = {}
      BY <1>4 DEF Fired
    <2>2. sold = SumFunctionOnSet(Parts, Fired)
      BY <1>2, <2>1, SumEmpty
    <2>3. \A i \in Index : qty[TP(i)] = Parts[i]
      BY <1>1, <1>4, <1>6, LadderFacts DEF TypeOK
    <2>4. QED
      BY <1>2, <1>4, <2>2, <2>3 DEF LadderInv
  <1>7. ASSUME ~plan.ladder PROVE SingleInv
    <2>1. status[TP1] = "ACTIVE" /\ qty[TP1] = bought
      BY <1>2, <1>3, <1>7 DEF LevelQty
    <2>2. QED
      BY <1>2, <1>4, <2>1 DEF SingleInv
  <1>8. bought % Step = 0 \/ Precision = 0
    BY OpenFacts DEF Init
  <1>9. QED
    BY <1>5, <1>6, <1>7, <1>8 DEF GroupInv

LEMMA Kept == Spec => [](TypeOK /\ GroupInv)
  BY TypeStart, TypeKeeps, GroupStart, GroupKeeps, PTL DEF Spec

\* What the armed stops would sell: both, one or neither.
LEMMA StopSum ==
  ASSUME TypeOK, OrdersInv
  PROVE  LET stop == SumFunctionOnSet(qty, Active({SL, TS}))
         IN  /\ stop \in Nat
             /\ status[SL] = "ACTIVE" => stop >= qty[SL]
             /\ status[TS] = "ACTIVE" => stop >= qty[TS]
  <1> DEFINE A == Active({SL, TS})
  <1>1. SL \in Conds /\ TS \in Conds
    BY DEF Conds
  <1>2. IsFiniteSet(A) /\ \A c \in A : qty[c] \in Nat
    <2>1. IsFiniteSet({SL, TS})
      <3>1. IsFiniteSet({} \cup {SL})
        BY FS_EmptySet, FS_AddElement
      <3>2. IsFiniteSet(({} \cup {SL}) \cup {TS})
        BY <3>1, FS_AddElement
      <3>3. QED
        BY <3>2
    <2>2. A \subseteq {SL, TS}
      BY DEF Active
    <2>3. QED
      BY <1>1, <2>1, <2>2, FS_Subset DEF TypeOK
  <1>3. status[SL] = "ACTIVE" => SL \in A
    BY DEF Active
  <1>4. status[TS] = "ACTIVE" => TS \in A
    BY DEF Active
  <1> HIDE DEF A
  <1>5. SumFunctionOnSet(qty, A) \in Nat
    BY <1>2, SumNat
  <1>6. ASSUME NEW c \in A
        PROVE  SumFunctionOnSet(qty, A) >= qty[c]
    <2>1. IsFiniteSet(A \ {c}) /\ \A d \in A : qty[d] \in Int
      BY <1>2, FS_Subset
    <2>2. PICK r \in Nat : r = SumFunctionOnSet(qty, A \ {c})
      BY <1>2, <2>1, SumNat
    <2>3. SumFunctionOnSet(qty, A) = qty[c] + SumFunctionOnSet(qty, A \ {c})
      BY <1>2, <2>1, SumRemove
    <2>4. qty[c] \in Nat
      BY <1>2
    <2>5. QED
      BY <2>2, <2>3, <2>4
  <1>7. /\ status[SL] = "ACTIVE" => SumFunctionOnSet(qty, A) >= qty[SL]
        /\ status[TS] = "ACTIVE" => SumFunctionOnSet(qty, A) >= qty[TS]
    BY <1>3, <1>4, <1>6
  <1>8. QED
    BY <1>5, <1>7 DEF A

LEMMA SingleCovered ==
  ASSUME Precision # 0, TypeOK, GroupInv, ~plan.ladder, fails = 0
  PROVE  StopCoversPosition
  <1> DEFINE stop == SumFunctionOnSet(qty, Active({SL, TS}))
  <1>1. OrdersInv /\ SingleInv /\ bought % Step = 0
    BY DEF GroupInv
  <1>2. PICK s \in Nat : s = stop
    BY <1>1, StopSum
  <1>3. /\ status[SL] = "ACTIVE" => s >= qty[SL]
        /\ status[TS] = "ACTIVE" => s >= qty[TS]
    BY <1>1, <1>2, StopSum
  <1>4. PICK rest \in Nat : rest = Resting
    BY <1>1, RestingFacts
  <1>5. pos \in Int /\ bought \in Nat /\ sold \in Nat /\ fails \in Nat
    BY DEF TypeOK
  <1>6. pos <= Unsold + rest
    BY <1>1, <1>4 DEF OrdersInv
  <1>7. Half \in Nat /\ Remain \in Nat /\ Half + Remain = bought
    BY <1>1, <1>5, HalfFacts
  <1>8. Unsold <= s \/ pos <= 0
    BY <1>1, <1>3, <1>5, <1>7 DEF SingleInv, Unsold
  <1>9. pos <= s + rest
    BY <1>2, <1>4, <1>5, <1>6, <1>8 DEF Unsold
  <1>10. Dust = 0
    BY DEF Dust
  <1>11. QED
    BY <1>2, <1>4, <1>9, <1>10 DEF StopCoversPosition

LEMMA LadderCovered ==
  ASSUME TypeOK, GroupInv, plan.ladder
  PROVE  StopCoversPosition
  <1> DEFINE stop == SumFunctionOnSet(qty, Active({SL, TS}))
  <1>1. OrdersInv /\ LadderInv
    BY DEF GroupInv
  <1>2. PICK s \in Nat : s = stop
    BY <1>1, StopSum
  <1>3. status[SL] = "ACTIVE" => s >= qty[SL]
    BY <1>1, <1>2, StopSum
  <1>4. PICK rest \in Nat : rest = Resting
    BY <1>1, RestingFacts
  <1>5. pos \in Int /\ bought \in Nat /\ sold \in Nat
    BY DEF TypeOK
  <1>6. pos <= Unsold + rest
    BY <1>1, <1>4 DEF OrdersInv
  <1>7. PICK d \in Nat : d = Dust /\ d = bought - SumFunction(Parts)
    BY <1>5, LadderFacts DEF Dust, TypeOK
  <1>8. Unsold <= s + d \/ pos <= 0
    <2>1. CASE status[SL] = "ACTIVE"
      BY <1>1, <1>3, <1>5, <2>1 DEF LadderInv, Unsold
    <2>2. CASE status[SL] = "TRIGGERED" /\ sold >= bought
      BY <1>5, <2>2 DEF Unsold
    <2>3. CASE sold = SumFunction(Parts)
      BY <1>5, <1>7, <2>3 DEF Unsold
    <2>4. QED
      BY <1>1, <2>1, <2>2, <2>3 DEF LadderInv
  <1>9. pos <= s + rest + d
    BY <1>2, <1>4, <1>5, <1>6, <1>7, <1>8 DEF Unsold
  <1>10. QED
    BY <1>2, <1>4, <1>7, <1>9 DEF StopCoversPosition

\* What is open is covered by an armed stop, by orders on their way or is the
\* dust of a ladder's rounding, at every step of every trigger of
\* checkAndTrigger, unless a trailing stop could not be registered; for every
\* symbol with digits after the point.  Without them formatQuantity removes the
\* zeros of the number itself, and a trailing stop of 100 is one of 1.
THEOREM Covered ==
  ASSUME Precision # 0
  PROVE  Spec => []CoveredUnlessRegistrationFails
  <1>1. TypeOK /\ GroupInv => CoveredUnlessRegistrationFails
    BY SingleCovered, LadderCovered DEF CoveredUnlessRegistrationFails
  <1>2. QED
    BY <1>1, Kept, PTL

\* The take profit, the trailing stop and the stop loss of an order together
\* never sell more than it bought, in whichever order they fire and whatever
\* fails (reduceOrderViaWs, RegisterTrailingStop, handleLinkedCancellation).
THEOREM NeverSellsMore == Spec => []NeverSellsMoreThanBought
  <1>1. ASSUME TypeOK, GroupInv, ~plan.ladder PROVE sold <= bought
    <2>1. SingleInv /\ bought \in Nat
      BY <1>1 DEF GroupInv, TypeOK
    <2>2. Half \in Nat /\ Remain \in Nat /\ Half + Remain <= bought
      BY <2>1, HalfFacts
    <2>3. sold \in {0, Half, Half + Remain, bought}
      BY <2>1 DEF SingleInv
    <2>4. QED
      BY <2>1, <2>2, <2>3
  <1>2. TypeOK /\ GroupInv => NeverSellsMoreThanBought
    BY <1>1 DEF NeverSellsMoreThanBought
  <1>3. QED
    BY <1>2, Kept, PTL

\* Once a trailing stop has followed a price it only moves in the position's
\* favour (updateTrailingStop), whatever the price does: it is registered once,
\* and nothing but a visit of the monitor writes its extreme.
THEOREM TrailingFollows == Spec => TrailingNeverLoosens
  <1> DEFINE Tight == (status[TS] = "ACTIVE" /\ extreme # 0)
                        => Favours(extreme', extreme)
  <1>1. ASSUME TypeOK, GroupInv, [Next]_vars PROVE Tight \/ UNCHANGED vars
    <2>1. extreme \in Nat /\ long \in BOOLEAN /\ price \in Nat
      BY <1>1 DEF TypeOK
    <2>2. extreme' \in {extreme, Followed(price)} => Tight
      BY <2>1 DEF Followed, Favours
    <2>3. ASSUME NEW ok \in BOOLEAN, Register(ok) PROVE Tight
      <3>1. OrdersInv /\ (plan.ladder => LadderInv)
            /\ (~plan.ladder => SingleInv)
        BY <1>1, OrderAssumption DEF GroupInv, TypeOK
      <3>2. ~plan.ladder
        BY <2>3, <3>1 DEF Register, LadderInv
      <3>3. status[TS] = "none"
        BY <1>1, <2>3, <3>1, <3>2, SingleRegister
      <3>4. QED
        BY <3>3
    <2>4. ASSUME NEW c \in Conds, NEW ro \in BOOLEAN, NEW whole \in BOOLEAN,
                 Trigger(c, ro, whole) \/ TriggerClosed(c, ro, whole)
          PROVE  Tight
      BY <2>2, <2>4 DEF Trigger, TriggerClosed, Visit
    <2>5. CASE Follow \/ Link
      BY <2>2, <2>5 DEF Follow, Link, Visit
    <2>6. ASSUME NEW p \in Prices, Move(p) PROVE Tight
      BY <2>2, <2>6 DEF Move
    <2>7. ASSUME NEW o \in orders, Fill(o) PROVE Tight
      BY <2>2, <2>7 DEF Fill
    <2>8. ASSUME NEW k \in 1 .. bought \div Step, ReduceByHand(k * Step)
          PROVE  Tight
      BY <2>2, <2>8 DEF ReduceByHand
    <2>9. QED
      BY <1>1, <2>3, <2>4, <2>5, <2>6, <2>7, <2>8 DEF Next
  <1>2. TypeOK /\ GroupInv /\ [Next]_vars
          => [(status[TS] = "ACTIVE" /\ extreme # 0)
                => Favours(extreme', extreme)]_vars
    BY <1>1
  <1>3. QED
    BY <1>2, Kept, PTL DEF Spec, TrailingNeverLoosens

-----------------------------------------------------------------------------
(* The trade table.                                                        *)
(* Its profit is a sum over its rows.                                      *)

LEMMA TableSum ==
  Ledger!TableProfit =
    SumFunctionOnSet([r \in DOMAIN ledger_recs |-> ledger_recs[r].pnl], DOMAIN ledger_recs)
  BY DEF Ledger!TableProfit, Ledger!SumFunction, Ledger!SumFunctionOnSet,
         Ledger!FoldFunctionOnSet, Ledger!MapThenFoldSet,
         SumFunctionOnSet, FoldFunctionOnSet, MapThenFoldSet

-----------------------------------------------------------------------------
LedgerKinds == {"open", "counter", "reduce"}
LedgerEvent == [order : Ledger!Order, status : {"FILLED", "PARTIALLY_FILLED", "CANCELED"},
                pnl : {0, 1}]
LedgerWork  == [at : {"update", "check", "look", "create", "latest", "add"},
                ev : LedgerEvent, row : Nat, copy : Ledger!Rec]

LedgerTyped ==
  /\ ledger_kind \in Seq(LedgerKinds) /\ Len(ledger_kind) <= MaxOrder
  /\ ledger_fills \in [Ledger!Order -> Nat] /\ ledger_over \subseteq Ledger!Placed
  /\ ledger_pos \in Nat /\ ledger_daily \in Nat /\ ledger_faults \in 0 .. MaxFault
  /\ ledger_events \in Seq(LedgerEvent)
  /\ ledger_recs \in Seq(Ledger!Rec)
  /\ ledger_saver \in [Ledger!Order -> {"none", "look", "create", "merge", "done"}]
  /\ ledger_stream \in {Ledger!Idle} \cup LedgerWork

\* The rows of the table.
Rows == 1 .. Len(ledger_recs)

\* The handler holds the record it will write back as the table has it, and a
\* goroutine that merges has a record to merge with.
RowsInv ==
  /\ \A o \in Ledger!Order : ledger_saver[o] = "merge" => \E r \in Rows : ledger_recs[r].order = o
  /\ ledger_stream.at \in {"update", "add"} =>
       ledger_stream.row \in Rows /\ ledger_stream.copy = ledger_recs[ledger_stream.row]
  /\ ledger_stream.at = "update" => ledger_stream.copy.order = ledger_stream.ev.order
  /\ ledger_stream.at \in {"check", "look"} => ledger_stream.row = 0
  /\ ledger_stream.at = "create" /\ ledger_stream.row # 0 =>
       /\ ledger_stream.row \in Rows
       /\ ledger_recs[ledger_stream.row].order = ledger_stream.ev.order

\* Find gives the first record of an order, LatestOpen the last open one.
LEMMA FindFacts ==
  ASSUME ledger_recs \in Seq(Ledger!Rec), NEW o
  PROVE  \/ Ledger!Find(o) = 0 /\ \A r \in Rows : ledger_recs[r].order # o
         \/ Ledger!Find(o) \in Rows /\ ledger_recs[Ledger!Find(o)].order = o
  <1> DEFINE of == {r \in DOMAIN ledger_recs : ledger_recs[r].order = o}
  <1>1. DOMAIN ledger_recs = Rows /\ Len(ledger_recs) \in Nat
    BY DEF Rows
  <1>2. CASE of = {}
    BY <1>1, <1>2 DEF Ledger!Find
  <1>3. CASE of # {}
    <2>1. IsFiniteSet(of) /\ of \subseteq Int
      <3>1. IsFiniteSet(Rows)
        BY <1>1, FS_Interval DEF Rows
      <3>2. QED
        BY <1>1, <3>1, FS_Subset DEF Rows
    <2>2. \E r \in of : \A q \in of : r <= q
      <3> HIDE DEF of
      <3>1. QED
        BY <1>3, <2>1, Extremes
    <2>3. Ledger!Find(o) \in of
      BY <1>3, <2>2 DEF Ledger!Find
    <2>4. QED
      BY <1>1, <2>3
  <1>4. QED
    BY <1>2, <1>3

LEMMA LatestFacts ==
  ASSUME ledger_recs \in Seq(Ledger!Rec)
  PROVE  Ledger!LatestOpen \in {0} \cup Rows
  <1> DEFINE open == {r \in DOMAIN ledger_recs : ledger_recs[r].status = "OPEN"}
  <1>1. DOMAIN ledger_recs = Rows /\ Len(ledger_recs) \in Nat
    BY DEF Rows
  <1>2. CASE open = {}
    BY <1>2 DEF Ledger!LatestOpen
  <1>3. CASE open # {}
    <2>1. IsFiniteSet(open) /\ open \subseteq Int
      <3>1. IsFiniteSet(Rows)
        BY <1>1, FS_Interval DEF Rows
      <3>2. QED
        BY <1>1, <3>1, FS_Subset DEF Rows
    <2>2. \E r \in open : \A q \in open : r >= q
      <3>1. \E r \in open : \A q \in open : q <= r
        <4> HIDE DEF open
        <4>1. QED
          BY <1>3, <2>1, Extremes
      <3>2. QED
        BY <2>1, <3>1
    <2>3. Ledger!LatestOpen \in open
      BY <1>3, <2>2 DEF Ledger!LatestOpen
    <2>4. QED
      BY <1>1, <2>3
  <1>4. QED
    BY <1>2, <1>3

LEMMA MergedFacts ==
  ASSUME NEW old \in Ledger!Rec, NEW new \in Ledger!Rec
  PROVE  /\ Ledger!Merged(old, new) \in Ledger!Rec
         /\ Ledger!Merged(old, new).order = old.order
         /\ new.status # "OPEN" => Ledger!Merged(old, new).status = new.status
         /\ new.status = "OPEN" /\ new.pnl = 0 => Ledger!Merged(old, new) = old
  BY DEF Ledger!Merged, Ledger!Rec

-----------------------------------------------------------------------------
\* What a step does to the table: nothing, a row more, or one row that keeps
\* its order and does not open again.
Added(x) == x \in Ledger!Rec /\ ledger_recs' = Append(ledger_recs, x)
Changed(r, x) ==
  /\ r \in Rows /\ x \in Ledger!Rec /\ ledger_recs' = [ledger_recs EXCEPT ![r] = x]
  /\ x.order = ledger_recs[r].order
  /\ ledger_recs[r].status # "OPEN" => x.status # "OPEN"

LEMMA FreshFacts ==
  ASSUME NEW o \in Ledger!Order
  PROVE  /\ Ledger!Fresh(o) \in Ledger!Rec /\ Ledger!Fresh(o).order = o
         /\ Ledger!Fresh(o).status = "OPEN" /\ Ledger!Fresh(o).pnl = 0
  BY DEF Ledger!Fresh, Ledger!Rec

\* The late goroutine adds a row or leaves the table as it is.
LEMMA SaverTable ==
  ASSUME LedgerTyped, RowsInv, NEW o \in Ledger!Order, Ledger!SaverWrites(o)
  PROVE  ledger_recs' = ledger_recs \/ (ledger_saver[o] = "create" /\ Added(Ledger!Fresh(o)))
  <1>1. CASE ledger_saver[o] = "create"
    BY <1>1, FreshFacts DEF Ledger!SaverWrites, Added
  <1>2. CASE ledger_saver[o] = "merge"
    <2> DEFINE r == Ledger!Find(o)
    <2>1. r \in Rows /\ DOMAIN ledger_recs = Rows
      BY <1>2, FindFacts DEF RowsInv, LedgerTyped, Rows
    <2>2. ledger_recs[r] \in Ledger!Rec
      BY <2>1 DEF LedgerTyped, Rows
    <2>3. Ledger!Merged(ledger_recs[r], Ledger!Fresh(o)) = ledger_recs[r]
      BY <2>2, FreshFacts, MergedFacts
    <2>4. \/ ledger_recs' = ledger_recs
          \/ ledger_recs' = [ledger_recs EXCEPT ![r] = Ledger!Merged(@, Ledger!Fresh(o))]
      BY <1>2 DEF Ledger!SaverWrites
    <2> HIDE DEF r
    <2>5. [ledger_recs EXCEPT ![r] = ledger_recs[r]] = ledger_recs
      BY <2>1 DEF LedgerTyped
    <2>6. QED
      BY <2>1, <2>3, <2>4, <2>5
  <1>3. QED
    BY <1>1, <1>2 DEF Ledger!SaverWrites

\* What the handler is at is of the types of its record.
LEMMA WorkFacts ==
  ASSUME LedgerTyped, ledger_stream.at # "idle"
  PROVE  /\ ledger_stream \in LedgerWork
         /\ ledger_stream.ev \in LedgerEvent /\ ledger_stream.row \in Nat
         /\ ledger_stream.ev.order \in Ledger!Order /\ ledger_stream.ev.pnl \in {0, 1}
         /\ ledger_stream.copy \in Ledger!Rec
  BY DEF LedgerTyped, LedgerWork, LedgerEvent, Ledger!Idle

RowWith(c, p, st) == [c EXCEPT !.pnl = p, !.status = st]

LEMMA RowFacts ==
  ASSUME NEW c \in Ledger!Rec, NEW p \in Nat, NEW st \in {"OPEN", "CLOSED", "CANCELED"}
  PROVE  /\ RowWith(c, p, st) \in Ledger!Rec
         /\ RowWith(c, p, st).order = c.order
         /\ RowWith(c, p, st).pnl = p
         /\ RowWith(c, p, st).status = st
  BY DEF Ledger!Rec, RowWith

UpdatedCopy ==
  [ledger_stream.copy EXCEPT
     !.pnl = IF ledger_stream.ev.pnl # 0 THEN ledger_stream.ev.pnl ELSE @,
     !.status = IF ledger_stream.ev.status = "CANCELED" THEN "CANCELED" ELSE @]

LEMMA UpdateTable ==
  ASSUME LedgerTyped, RowsInv, Ledger!updateTradeFromOrder
  PROVE  \/ ledger_recs' = ledger_recs
         \/ /\ Changed(ledger_stream.row, UpdatedCopy)
            /\ UpdatedCopy.pnl = IF ledger_stream.ev.pnl # 0 THEN ledger_stream.ev.pnl
                                 ELSE ledger_recs[ledger_stream.row].pnl
  <1>1. ledger_stream.at = "update"
    BY DEF Ledger!updateTradeFromOrder
  <1>2. /\ ledger_stream.copy \in Ledger!Rec /\ ledger_stream.ev.pnl \in {0, 1}
        /\ ledger_stream.row \in Rows /\ ledger_stream.copy = ledger_recs[ledger_stream.row]
    BY <1>1, WorkFacts DEF RowsInv
  <1>3. /\ UpdatedCopy \in Ledger!Rec /\ UpdatedCopy.order = ledger_stream.copy.order
        /\ UpdatedCopy.pnl = IF ledger_stream.ev.pnl # 0 THEN ledger_stream.ev.pnl
                             ELSE ledger_stream.copy.pnl
        /\ ledger_stream.copy.status # "OPEN" => UpdatedCopy.status # "OPEN"
    <2> DEFINE p  == IF ledger_stream.ev.pnl # 0 THEN ledger_stream.ev.pnl
                     ELSE ledger_stream.copy.pnl
               st == IF ledger_stream.ev.status = "CANCELED" THEN "CANCELED"
                     ELSE ledger_stream.copy.status
    <2>1. p \in Nat /\ st \in {"OPEN", "CLOSED", "CANCELED"}
          /\ (ledger_stream.copy.status # "OPEN" => st # "OPEN")
      BY <1>2 DEF Ledger!Rec
    <2>2. UpdatedCopy = RowWith(ledger_stream.copy, p, st)
      BY <1>2 DEF UpdatedCopy, Ledger!Rec, RowWith
    <2> HIDE DEF p, st
    <2>3. UpdatedCopy \in Ledger!Rec /\ UpdatedCopy.order = ledger_stream.copy.order
          /\ UpdatedCopy.pnl = p /\ UpdatedCopy.status = st
      BY <1>2, <2>1, <2>2, RowFacts
    <2>4. QED
      BY <2>1, <2>3 DEF p
  <1>4. \/ ledger_recs' = ledger_recs
        \/ ledger_recs' = [ledger_recs EXCEPT ![ledger_stream.row] = UpdatedCopy]
    BY DEF Ledger!updateTradeFromOrder, UpdatedCopy
  <1>5. QED
    BY <1>2, <1>3, <1>4 DEF Changed

ClosingRow == [order |-> ledger_stream.ev.order, status |-> "CLOSED",
               pnl |-> ledger_stream.ev.pnl]

LEMMA CloseTable ==
  ASSUME LedgerTyped, RowsInv, Ledger!CloseWrites
  PROVE  \/ ledger_recs' = ledger_recs /\ ledger_daily' = ledger_daily
            /\ ledger_faults' = ledger_faults + 1 /\ ledger_stream' = Ledger!Idle
         \/ /\ ledger_stream.row = 0 /\ Added(ClosingRow)
            /\ ledger_daily' = ledger_daily + ledger_stream.ev.pnl
            /\ ledger_faults' = ledger_faults
         \/ /\ ledger_stream.row # 0 /\ \E x : Changed(ledger_stream.row, x)
            /\ ledger_daily' = ledger_daily + ledger_stream.ev.pnl
            /\ ledger_faults' = ledger_faults
  <1>1. ledger_stream.at = "create"
    BY DEF Ledger!CloseWrites
  <1>2. /\ ledger_stream.ev.order \in Ledger!Order /\ ledger_stream.ev.pnl \in {0, 1}
        /\ ledger_stream.row # 0 => ledger_stream.row \in Rows
    BY <1>1, WorkFacts DEF RowsInv
  <1>3. ClosingRow \in Ledger!Rec /\ ClosingRow.status = "CLOSED"
    BY <1>2 DEF ClosingRow, Ledger!Rec
  <1>4. \/ ledger_recs' = ledger_recs /\ ledger_daily' = ledger_daily
            /\ ledger_faults' = ledger_faults + 1 /\ ledger_stream' = Ledger!Idle
        \/ /\ ledger_recs' = IF ledger_stream.row = 0 THEN Append(ledger_recs, ClosingRow)
                             ELSE [ledger_recs EXCEPT ![ledger_stream.row] =
                                     Ledger!Merged(@, ClosingRow)]
           /\ ledger_daily' = ledger_daily + ledger_stream.ev.pnl
           /\ ledger_faults' = ledger_faults
    BY DEF Ledger!CloseWrites, ClosingRow, Ledger!Fault
  <1>5. ASSUME ledger_stream.row # 0,
               ledger_recs' = [ledger_recs EXCEPT ![ledger_stream.row] =
                                 Ledger!Merged(@, ClosingRow)]
        PROVE  \E x : Changed(ledger_stream.row, x)
    <2> DEFINE x == Ledger!Merged(ledger_recs[ledger_stream.row], ClosingRow)
    <2>1. ledger_recs[ledger_stream.row] \in Ledger!Rec
      BY <1>2, <1>5 DEF LedgerTyped, Rows
    <2>2. x \in Ledger!Rec /\ x.order = ledger_recs[ledger_stream.row].order
          /\ x.status = "CLOSED"
      BY <1>3, <2>1, MergedFacts
    <2>3. ledger_recs' = [ledger_recs EXCEPT ![ledger_stream.row] = x]
      BY <1>2, <1>5 DEF LedgerTyped, Rows
    <2> HIDE DEF x
    <2>4. Changed(ledger_stream.row, x)
      BY <1>2, <1>5, <2>2, <2>3 DEF Changed
    <2>5. QED
      BY <2>4
  <1>6. QED
    BY <1>3, <1>4, <1>5 DEF Added

LEMMA MarkTable ==
  ASSUME LedgerTyped, Ledger!markLatestOpenTradeClosed
  PROVE  \/ ledger_recs' = ledger_recs
         \/ \E r \in Rows, x \in Ledger!Rec :
              Changed(r, x) /\ x.pnl = ledger_recs[r].pnl
  <1> DEFINE r == Ledger!LatestOpen
             x == [ledger_recs[r] EXCEPT !.status = "CLOSED"]
  <1>1. CASE ledger_recs' = ledger_recs
    BY <1>1
  <1>2. CASE r # 0 /\ ledger_recs' = [ledger_recs EXCEPT ![r].status = "CLOSED"]
    <2>1. r \in Rows
      BY <1>2, LatestFacts DEF LedgerTyped
    <2>2. ledger_recs[r] \in Ledger!Rec
      BY <2>1 DEF LedgerTyped, Rows
    <2>3. ledger_recs' = [ledger_recs EXCEPT ![r] = x]
      BY <1>2
    <2>4. x \in Ledger!Rec /\ x.order = ledger_recs[r].order /\ x.status = "CLOSED"
          /\ x.pnl = ledger_recs[r].pnl
      BY <2>2 DEF Ledger!Rec
    <2> HIDE DEF x, r
    <2>5. Changed(r, x)
      BY <2>1, <2>3, <2>4 DEF Changed
    <2>6. QED
      BY <2>1, <2>4, <2>5
  <1>3. QED
    BY <1>1, <1>2 DEF Ledger!markLatestOpenTradeClosed

LEMMA AddTable ==
  ASSUME LedgerTyped, RowsInv, Ledger!updateOpenTradeWithPnl
  PROVE  \/ ledger_recs' = ledger_recs /\ ledger_faults' = ledger_faults + 1
         \/ /\ \E x \in Ledger!Rec :
                 /\ Changed(ledger_stream.row, x)
                 /\ x.pnl = ledger_recs[ledger_stream.row].pnl + ledger_stream.ev.pnl
            /\ ledger_faults' = ledger_faults
  <1>1. ledger_stream.at = "add"
    BY DEF Ledger!updateOpenTradeWithPnl
  <1>2. /\ ledger_stream.copy \in Ledger!Rec /\ ledger_stream.ev.pnl \in {0, 1}
        /\ ledger_stream.row \in Rows /\ ledger_stream.copy = ledger_recs[ledger_stream.row]
    BY <1>1, WorkFacts DEF RowsInv
  <1>3. ASSUME NEW ends \in BOOLEAN,
               ledger_recs' = [ledger_recs EXCEPT ![ledger_stream.row] =
                                 [ledger_stream.copy EXCEPT
                                    !.pnl = @ + ledger_stream.ev.pnl,
                                    !.status = IF ends THEN "CLOSED" ELSE @]]
        PROVE  \E x \in Ledger!Rec :
                 /\ Changed(ledger_stream.row, x)
                 /\ x.pnl = ledger_recs[ledger_stream.row].pnl + ledger_stream.ev.pnl
    <2> DEFINE x == [ledger_stream.copy EXCEPT !.pnl = @ + ledger_stream.ev.pnl,
                                              !.status = IF ends THEN "CLOSED" ELSE @]
    <2>1. /\ x \in Ledger!Rec /\ x.order = ledger_stream.copy.order
          /\ x.pnl = ledger_stream.copy.pnl + ledger_stream.ev.pnl
          /\ ledger_stream.copy.status # "OPEN" => x.status # "OPEN"
      <3> DEFINE p  == ledger_stream.copy.pnl + ledger_stream.ev.pnl
                 st == IF ends THEN "CLOSED" ELSE ledger_stream.copy.status
      <3>1. p \in Nat /\ st \in {"OPEN", "CLOSED", "CANCELED"}
            /\ (ledger_stream.copy.status # "OPEN" => st # "OPEN")
        BY <1>2 DEF Ledger!Rec
      <3>2. x = RowWith(ledger_stream.copy, p, st)
        BY <1>2 DEF Ledger!Rec, RowWith
      <3> HIDE DEF p, st, x
      <3>3. x \in Ledger!Rec /\ x.order = ledger_stream.copy.order /\ x.pnl = p
            /\ x.status = st
        BY <1>2, <3>1, <3>2, RowFacts
      <3>4. QED
        BY <3>1, <3>3 DEF p
    <2>2. ledger_recs' = [ledger_recs EXCEPT ![ledger_stream.row] = x]
      BY <1>3
    <2> HIDE DEF x
    <2>3. Changed(ledger_stream.row, x)
      BY <1>2, <2>1, <2>2 DEF Changed
    <2>4. QED
      BY <1>2, <2>1, <2>3
  <1>4. (ledger_pos = 0) \in BOOLEAN
    OBVIOUS
  <1>5. QED
    BY <1>3, <1>4 DEF Ledger!updateOpenTradeWithPnl, Ledger!Fault

LEMMA RowsKept ==
  ASSUME LedgerTyped,
         ledger_recs' = ledger_recs \/ (\E x : Added(x)) \/ (\E r, x : Changed(r, x))
  PROVE  /\ ledger_recs' \in Seq(Ledger!Rec) /\ Rows \subseteq Rows'
         /\ \A r \in Rows : /\ ledger_recs'[r].order = ledger_recs[r].order
                            /\ ledger_recs[r].status # "OPEN" => ledger_recs'[r].status # "OPEN"
         /\ (~\E r, x : Changed(r, x)) => \A r \in Rows : ledger_recs'[r] = ledger_recs[r]
  <1>1. ledger_recs \in Seq(Ledger!Rec) /\ Len(ledger_recs) \in Nat
    BY DEF LedgerTyped
  <1>2. CASE ledger_recs' = ledger_recs
    BY <1>1, <1>2 DEF Rows
  <1>3. ASSUME NEW x, Added(x)
        PROVE  /\ ledger_recs' \in Seq(Ledger!Rec) /\ Rows \subseteq Rows'
               /\ \A r \in Rows : ledger_recs'[r] = ledger_recs[r]
    BY <1>1, <1>3 DEF Rows, Added
  <1>4. ASSUME NEW r, NEW x, Changed(r, x)
        PROVE  /\ ledger_recs' \in Seq(Ledger!Rec) /\ Rows \subseteq Rows'
               /\ \A q \in Rows : /\ ledger_recs'[q].order = ledger_recs[q].order
                                  /\ ledger_recs[q].status # "OPEN" =>
                                       ledger_recs'[q].status # "OPEN"
    <2>1. /\ r \in Rows /\ x \in Ledger!Rec /\ ledger_recs' = [ledger_recs EXCEPT ![r] = x]
          /\ x.order = ledger_recs[r].order
          /\ ledger_recs[r].status # "OPEN" => x.status # "OPEN"
      BY <1>4 DEF Changed
    <2>2. ledger_recs' \in Seq(Ledger!Rec) /\ Len(ledger_recs') = Len(ledger_recs)
      BY <1>1, <2>1 DEF Rows
    <2>3. ledger_recs'[r] = x /\ \A q \in Rows \ {r} : ledger_recs'[q] = ledger_recs[q]
      BY <1>1, <2>1 DEF Rows
    <2>4. QED
      BY <2>1, <2>2, <2>3 DEF Rows
  <1>5. QED
    BY <1>2, <1>3, <1>4

LEMMA TableSteps ==
  ASSUME LedgerTyped, RowsInv, Ledger!Next
  PROVE  ledger_recs' = ledger_recs \/ (\E x : Added(x)) \/ (\E r, x : Changed(r, x))
  <1>1. ASSUME NEW o \in Ledger!Order, Ledger!SaverWrites(o)
        PROVE  ledger_recs' = ledger_recs \/ (\E x : Added(x))
    BY <1>1, SaverTable
  <1>2. CASE Ledger!updateTradeFromOrder
    BY <1>2, UpdateTable
  <1>3. CASE Ledger!CloseWrites
    BY <1>3, CloseTable
  <1>4. CASE Ledger!markLatestOpenTradeClosed
    BY <1>4, MarkTable
  <1>5. CASE Ledger!updateOpenTradeWithPnl
    BY <1>5, AddTable
  <1>6. QED
    BY <1>1, <1>2, <1>3, <1>4, <1>5
    DEF Ledger!Next, Ledger!Place, Ledger!Fills, Ledger!Cancelled, Ledger!SaverLooks,
        Ledger!StreamBreaks, Ledger!StreamReturns, Ledger!handleOrderUpdate,
        Ledger!CloseChecks

\* What the handler takes up.
LEMMA HandlerTakes ==
  ASSUME LedgerTyped, Ledger!handleOrderUpdate
  PROVE  /\ ledger_stream.at = "idle" /\ ledger_events # <<>>
         /\ Head(ledger_events) \in LedgerEvent
         /\ ledger_events' = Tail(ledger_events)
         /\ UNCHANGED <<ledger_kind, ledger_over, ledger_recs, ledger_saver, ledger_daily,
                        ledger_faults, ledger_pos, ledger_fills>>
         /\ \/ ledger_stream' = Ledger!Idle
            \/ /\ ledger_stream' \in LedgerWork
               /\ ledger_stream'.ev = Head(ledger_events)
               /\ \/ /\ ledger_stream'.at = "update" /\ ledger_stream'.row \in Rows
                     /\ ledger_stream'.copy = ledger_recs[ledger_stream'.row]
                     /\ ledger_stream'.copy.order = Head(ledger_events).order
                  \/ /\ ledger_stream'.at = "check" /\ ledger_stream'.row = 0
                     /\ Ledger!Closes(Head(ledger_events))
                  \/ /\ ledger_stream'.at = "add" /\ ledger_stream'.row \in Rows
                     /\ ledger_stream'.copy = ledger_recs[ledger_stream'.row]
  <1> DEFINE ev == Head(ledger_events)
             r == Ledger!Find(ev.order)
             goes(at, row) == [at |-> at, ev |-> ev, row |-> row,
                               copy |-> IF row = 0 THEN Ledger!Fresh(ev.order)
                                        ELSE ledger_recs[row]]
  <1>1. /\ ledger_stream.at = "idle" /\ ledger_events # <<>>
        /\ ledger_events' = Tail(ledger_events)
        /\ ledger_stream' = IF r # 0 THEN goes("update", r)
                            ELSE IF Ledger!Closes(ev) THEN goes("check", 0)
                            ELSE IF ev.pnl # 0 /\ Ledger!LatestOpen # 0
                                 THEN goes("add", Ledger!LatestOpen)
                            ELSE Ledger!Idle
        /\ UNCHANGED <<ledger_kind, ledger_over, ledger_recs, ledger_saver, ledger_daily,
                        ledger_faults, ledger_pos, ledger_fills>>
    BY DEF Ledger!handleOrderUpdate
  <1>2. ev \in LedgerEvent
    <2>1. ledger_events \in Seq(LedgerEvent) /\ ledger_events # <<>>
      BY <1>1 DEF LedgerTyped
    <2>2. QED
      BY <2>1
  <1>3. ev.order \in Ledger!Order
    BY <1>2 DEF LedgerEvent
  <1>4. r = 0 \/ (r \in Rows /\ ledger_recs[r].order = ev.order)
    BY FindFacts DEF LedgerTyped
  <1>5. Ledger!LatestOpen \in {0} \cup Rows
    BY LatestFacts DEF LedgerTyped
  <1>6. /\ 0 \notin Rows /\ Rows \subseteq Nat
        /\ \A q \in Rows : ledger_recs[q] \in Ledger!Rec
    BY DEF Rows, LedgerTyped
  <1> HIDE DEF ev, r
  <1>7. ASSUME NEW at \in {"update", "add"}, NEW row \in Rows, ledger_stream' = goes(at, row)
        PROVE  /\ ledger_stream' \in LedgerWork
               /\ ledger_stream'.ev = ev /\ ledger_stream'.at = at /\ ledger_stream'.row = row
               /\ ledger_stream'.copy = ledger_recs[row]
    <2>1. ledger_stream' = [at |-> at, ev |-> ev, row |-> row, copy |-> ledger_recs[row]]
      BY <1>6, <1>7
    <2>2. QED
      BY <1>2, <1>6, <2>1 DEF LedgerWork
  <1>8. ASSUME ledger_stream' = goes("check", 0)
        PROVE  /\ ledger_stream' \in LedgerWork
               /\ ledger_stream'.ev = ev /\ ledger_stream'.at = "check" /\ ledger_stream'.row = 0
    BY <1>2, <1>3, <1>8, FreshFacts DEF LedgerWork
  <1> HIDE DEF goes
  <1>9. CASE r # 0
    BY <1>1, <1>2, <1>4, <1>7, <1>9 DEF ev
  <1>10. CASE r = 0 /\ Ledger!Closes(ev)
    BY <1>1, <1>2, <1>8, <1>10 DEF ev
  <1>11. CASE r = 0 /\ ~Ledger!Closes(ev)
    BY <1>1, <1>2, <1>5, <1>7, <1>11 DEF ev
  <1>12. QED
    BY <1>9, <1>10, <1>11

\* CloseChecks and CloseWrites only move the handler on.
Moved(at)        == [ledger_stream EXCEPT !.at = at]
MovedTo(at, row) == [ledger_stream EXCEPT !.at = at, !.row = row]

LEMMA HandlerMoves ==
  ASSUME LedgerTyped, ledger_stream.at # "idle",
         NEW at \in {"look", "create", "latest"}, NEW row \in Nat
  PROVE  /\ MovedTo(at, row) \in LedgerWork
         /\ MovedTo(at, row).ev = ledger_stream.ev
         /\ MovedTo(at, row).at = at /\ MovedTo(at, row).row = row
         /\ Moved(at) \in LedgerWork
         /\ Moved(at).ev = ledger_stream.ev
         /\ Moved(at).at = at /\ Moved(at).row = ledger_stream.row
  BY WorkFacts DEF LedgerWork, Moved, MovedTo

LEMMA CheckMoves ==
  ASSUME LedgerTyped, Ledger!CloseChecks
  PROVE  \/ ledger_stream' = Ledger!Idle
         \/ /\ ledger_stream' \in LedgerWork /\ ledger_stream'.ev = ledger_stream.ev
            /\ ledger_stream'.at \in {"look", "create"}
            /\ \/ ledger_stream'.row = ledger_stream.row
               \/ /\ ledger_stream'.at = "create" /\ ledger_stream'.row \in Rows
                  /\ ledger_recs[ledger_stream'.row].order = ledger_stream.ev.order
  <1> DEFINE r == Ledger!Find(ledger_stream.ev.order)
  <1>1. /\ ledger_stream.at \in {"check", "look"}
        /\ ledger_stream' = IF r = 0
                 THEN Moved(IF ledger_stream.at = "check" THEN "look" ELSE "create")
                 ELSE IF ledger_stream.at = "check" THEN Ledger!Idle
                 ELSE MovedTo("create", r)
    BY DEF Ledger!CloseChecks, Moved, MovedTo
  <1>2. r = 0 \/ (r \in Rows /\ ledger_recs[r].order = ledger_stream.ev.order)
    BY FindFacts DEF LedgerTyped
  <1>3. Rows \subseteq Nat /\ 0 \in Nat
    BY DEF Rows
  <1> HIDE DEF r
  <1>4. \/ \E at \in {"look", "create"} : ledger_stream' = Moved(at)
        \/ ledger_stream' = Ledger!Idle
        \/ r # 0 /\ ledger_stream' = MovedTo("create", r)
    BY <1>1
  <1>5. ASSUME NEW at \in {"look", "create"}, ledger_stream' = Moved(at)
        PROVE  /\ ledger_stream' \in LedgerWork /\ ledger_stream'.ev = ledger_stream.ev
               /\ ledger_stream'.at = at /\ ledger_stream'.row = ledger_stream.row
    BY <1>1, <1>3, <1>5, HandlerMoves
  <1>6. ASSUME r # 0, ledger_stream' = MovedTo("create", r)
        PROVE  /\ ledger_stream' \in LedgerWork /\ ledger_stream'.ev = ledger_stream.ev
               /\ ledger_stream'.at = "create" /\ ledger_stream'.row = r
    <2>1. r \in Nat /\ "create" \in {"look", "create", "latest"} /\ ledger_stream.at # "idle"
      BY <1>1, <1>2, <1>3, <1>6
    <2>2. QED
      BY <1>6, <2>1, HandlerMoves
  <1>7. QED
    BY <1>2, <1>4, <1>5, <1>6

LEMMA LedgerTypeStart == Ledger!Init => LedgerTyped
  <1> SUFFICES ASSUME Ledger!Init PROVE LedgerTyped
    OBVIOUS
  <1>1. /\ <<>> \in Seq(LedgerKinds) /\ Len(<<>>) = 0 /\ <<>> \in Seq(LedgerEvent)
        /\ <<>> \in Seq(Ledger!Rec)
    OBVIOUS
  <1>2. QED
    BY <1>1, LedgerAssumption
    DEF Ledger!Init, LedgerTyped, Ledger!BoundAssumption, Ledger!Idle

LEMMA LedgerTypeKeeps ==
  ASSUME LedgerTyped, RowsInv, [Ledger!Next]_ledgerVars
  PROVE  LedgerTyped'
  <1> USE LedgerAssumption DEF Ledger!BoundAssumption
  <1>1. CASE UNCHANGED ledgerVars
    BY <1>1 DEF ledgerVars, LedgerTyped, LedgerEvent, LedgerWork, Ledger!Rec, Ledger!Placed
  <1> SUFFICES ASSUME Ledger!Next PROVE LedgerTyped'
    BY <1>1
  <1>2. ledger_recs' \in Seq(Ledger!Rec)
    BY TableSteps, RowsKept
  <1>3. ledger_faults \in 0 .. MaxFault
    BY DEF LedgerTyped
  <1>4. Ledger!Fault => ledger_faults' \in 0 .. MaxFault
    BY <1>3 DEF Ledger!Fault
  <1>5. ASSUME NEW k \in LedgerKinds, Ledger!Place(k) PROVE LedgerTyped'
    <2>1. /\ ledger_kind' \in Seq(LedgerKinds) /\ Len(ledger_kind') = Len(ledger_kind) + 1
          /\ Len(ledger_kind') <= MaxOrder
          /\ Len(ledger_kind) + 1 \in Ledger!Order
          /\ DOMAIN ledger_kind \subseteq DOMAIN ledger_kind'
      BY <1>5 DEF LedgerTyped, Ledger!Place, Ledger!Order
    <2>2. ledger_saver' \in [Ledger!Order -> {"none", "look", "create", "merge", "done"}]
      BY <1>5, <2>1 DEF LedgerTyped, Ledger!Place
    <2>3. QED
      BY <1>5, <2>1, <2>2 DEF LedgerTyped, Ledger!Place, Ledger!Placed
  <1>6. ASSUME NEW o \in Ledger!Order, NEW st \in {"FILLED", "PARTIALLY_FILLED", "CANCELED"},
               NEW p \in {0, 1}, Ledger!Report(o, st, p)
        PROVE  ledger_events' \in Seq(LedgerEvent)
    <2>1. [order |-> o, status |-> st, pnl |-> p] \in LedgerEvent
      BY DEF LedgerEvent
    <2>2. QED
      BY <1>6, <2>1 DEF Ledger!Report, LedgerTyped
  <1>7. ASSUME NEW o \in Ledger!Order, Ledger!Fills(o) PROVE LedgerTyped'
    <2>1. ledger_events' \in Seq(LedgerEvent)
      <3>1. (IF ledger_kind[o] = "open" THEN 0 ELSE 1) \in {0, 1}
        OBVIOUS
      <3>2. QED
        BY <1>6, <1>7, <3>1 DEF Ledger!Fills
    <2>2. ledger_pos' \in Nat
      BY <1>7 DEF Ledger!Fills, LedgerTyped
    <2>3. ledger_over' \subseteq Ledger!Placed /\ UNCHANGED ledger_kind
      BY <1>7 DEF Ledger!Fills, LedgerTyped
    <2>4. ledger_fills' \in [Ledger!Order -> Nat]
      BY <1>7 DEF Ledger!Fills, LedgerTyped
    <2>5. QED
      BY <1>7, <2>1, <2>2, <2>3, <2>4 DEF Ledger!Fills, LedgerTyped, Ledger!Placed
  <1>8. ASSUME NEW o \in Ledger!Order, Ledger!Cancelled(o) PROVE LedgerTyped'
    <2>1. ledger_events' \in Seq(LedgerEvent)
      BY <1>6, <1>8 DEF Ledger!Cancelled
    <2>2. ledger_over' \subseteq Ledger!Placed /\ UNCHANGED ledger_kind
      BY <1>8 DEF Ledger!Cancelled, LedgerTyped
    <2>3. QED
      BY <1>8, <2>1, <2>2 DEF Ledger!Cancelled, LedgerTyped, Ledger!Placed
  <1>9. ASSUME NEW o \in Ledger!Order, Ledger!SaverLooks(o) PROVE LedgerTyped'
    BY <1>9 DEF Ledger!SaverLooks, LedgerTyped, Ledger!Placed
  <1>10. ASSUME NEW o \in Ledger!Order, Ledger!SaverWrites(o) PROVE LedgerTyped'
    <2>1. ledger_faults' \in 0 .. MaxFault
      BY <1>3, <1>4, <1>10 DEF Ledger!SaverWrites
    <2>2. QED
      BY <1>2, <1>10, <2>1 DEF Ledger!SaverWrites, LedgerTyped, Ledger!Placed
  <1>11. CASE Ledger!StreamBreaks \/ Ledger!StreamReturns
    <2>1. ledger_faults' \in 0 .. MaxFault
      BY <1>3, <1>4, <1>11 DEF Ledger!StreamBreaks, Ledger!StreamReturns
    <2>2. QED
      BY <1>11, <2>1 DEF Ledger!StreamBreaks, Ledger!StreamReturns, LedgerTyped, Ledger!Placed
  <1>12. CASE Ledger!handleOrderUpdate
    <2>1. ledger_events' \in Seq(LedgerEvent)
      <3>1. ledger_events' = Tail(ledger_events) /\ ledger_events # <<>>
        BY <1>12, HandlerTakes
      <3>2. QED
        BY <3>1 DEF LedgerTyped
    <2>2. ledger_stream' \in {Ledger!Idle} \cup LedgerWork
      BY <1>12, HandlerTakes
    <2>3. QED
      BY <1>2, <1>12, <2>1, <2>2, HandlerTakes DEF LedgerTyped, Ledger!Placed
  <1>13. CASE Ledger!CloseChecks
    BY <1>13, CheckMoves DEF Ledger!CloseChecks, LedgerTyped, Ledger!Placed
  <1>14. CASE Ledger!CloseWrites
    <2>1. ledger_stream' \in {Ledger!Idle} \cup LedgerWork
      <3>1. ledger_stream.at # "idle"
        BY <1>14 DEF Ledger!CloseWrites
      <3>2. ledger_stream' \in {Ledger!Idle, Moved("latest")}
        BY <1>14 DEF Ledger!CloseWrites, Moved
      <3>3. 0 \in Nat
        OBVIOUS
      <3>4. QED
        BY <3>1, <3>2, <3>3, HandlerMoves
    <2>2. ledger_daily' \in Nat
      <3>1. ledger_stream.ev.pnl \in {0, 1}
        BY <1>14, WorkFacts DEF Ledger!CloseWrites
      <3>2. QED
        BY <1>14, <3>1 DEF Ledger!CloseWrites, LedgerTyped
    <2>3. ledger_faults' \in 0 .. MaxFault
      BY <1>3, <1>4, <1>14 DEF Ledger!CloseWrites
    <2>4. QED
      BY <1>2, <1>14, <2>1, <2>2, <2>3 DEF Ledger!CloseWrites, LedgerTyped, Ledger!Placed
  <1>15. CASE Ledger!updateTradeFromOrder \/ Ledger!markLatestOpenTradeClosed
    <2>1. ledger_faults' \in 0 .. MaxFault
      BY <1>3, <1>4, <1>15 DEF Ledger!updateTradeFromOrder, Ledger!markLatestOpenTradeClosed
    <2>2. QED
      BY <1>2, <1>15, <2>1
      DEF Ledger!updateTradeFromOrder, Ledger!markLatestOpenTradeClosed, LedgerTyped,
          Ledger!Placed
  <1>16. CASE Ledger!updateOpenTradeWithPnl
    <2>1. ledger_faults' \in 0 .. MaxFault
      BY <1>3, <1>4, <1>16 DEF Ledger!updateOpenTradeWithPnl
    <2>2. ledger_daily' \in Nat
      <3>1. ledger_stream.ev.pnl \in {0, 1}
        BY <1>16, WorkFacts DEF Ledger!updateOpenTradeWithPnl
      <3>2. QED
        BY <1>16, <3>1 DEF Ledger!updateOpenTradeWithPnl, LedgerTyped
    <2>3. QED
      BY <1>2, <1>16, <2>1, <2>2 DEF Ledger!updateOpenTradeWithPnl, LedgerTyped, Ledger!Placed
  <1>17. QED
    BY <1>5, <1>7, <1>8, <1>9, <1>10, <1>11, <1>12, <1>13, <1>14, <1>15, <1>16
    DEF Ledger!Next, LedgerKinds

LEMMA RowsKeeps ==
  ASSUME LedgerTyped, RowsInv, [Ledger!Next]_ledgerVars
  PROVE  RowsInv'
  <1>1. CASE UNCHANGED ledgerVars
    BY <1>1 DEF ledgerVars, RowsInv, Rows
  <1> SUFFICES ASSUME Ledger!Next PROVE RowsInv'
    BY <1>1
  <1>2. /\ Rows \subseteq Rows'
        /\ \A r \in Rows : ledger_recs'[r].order = ledger_recs[r].order
    BY TableSteps, RowsKept
  <1>3. ASSUME UNCHANGED ledger_saver
        PROVE  \A o \in Ledger!Order :
                 ledger_saver'[o] = "merge" => \E r \in Rows' : ledger_recs'[r].order = o
    BY <1>2, <1>3 DEF RowsInv
  <1>4. ASSUME UNCHANGED <<ledger_recs, ledger_stream>>,
               \A o \in Ledger!Order :
                 ledger_saver'[o] = "merge" => \E r \in Rows : ledger_recs[r].order = o
        PROVE  RowsInv'
    BY <1>4 DEF RowsInv, Rows
  <1>5. ASSUME UNCHANGED ledger_saver, ledger_stream'.at \in {"idle", "latest"}
        PROVE  RowsInv'
    BY <1>3, <1>5 DEF RowsInv
  <1>6. ASSUME NEW k \in LedgerKinds, Ledger!Place(k) PROVE RowsInv'
    <2>1. Len(ledger_kind) + 1 \in Ledger!Order
      BY <1>6, LedgerAssumption
      DEF LedgerTyped, Ledger!Place, Ledger!Order, Ledger!BoundAssumption
    <2>2. QED
      BY <1>4, <1>6, <2>1 DEF Ledger!Place, RowsInv, LedgerTyped
  <1>7. CASE \/ \E o \in Ledger!Order : Ledger!Fills(o) \/ Ledger!Cancelled(o)
             \/ Ledger!StreamBreaks \/ Ledger!StreamReturns
    BY <1>4, <1>7 DEF Ledger!Fills, Ledger!Cancelled, Ledger!StreamBreaks,
                      Ledger!StreamReturns, RowsInv
  <1>8. ASSUME NEW o \in Ledger!Order, Ledger!SaverLooks(o) PROVE RowsInv'
    <2>1. Ledger!Find(o) # 0 => \E r \in Rows : ledger_recs[r].order = o
      BY FindFacts DEF LedgerTyped
    <2>2. QED
      BY <1>4, <1>8, <2>1 DEF Ledger!SaverLooks, RowsInv, LedgerTyped
  <1>9. ASSUME NEW o \in Ledger!Order, Ledger!SaverWrites(o) PROVE RowsInv'
    <2>1. \A r \in Rows : ledger_recs'[r] = ledger_recs[r]
      <3>1. CASE ledger_recs' = ledger_recs
        BY <3>1
      <3>2. CASE Added(Ledger!Fresh(o))
        BY <3>2 DEF Added, Rows, LedgerTyped
      <3>3. QED
        BY <1>9, <3>1, <3>2, SaverTable
    <2>2. UNCHANGED ledger_stream
      BY <1>9 DEF Ledger!SaverWrites
    <2>3. ASSUME NEW q \in Ledger!Order, ledger_saver'[q] = "merge"
          PROVE  ledger_saver[q] = "merge"
      BY <1>9, <2>3 DEF Ledger!SaverWrites, LedgerTyped
    <2>4. QED
      BY <1>2, <2>1, <2>2, <2>3 DEF RowsInv
  <1>10. CASE Ledger!handleOrderUpdate
    <2>1. UNCHANGED <<ledger_recs, ledger_saver>>
      BY <1>10, HandlerTakes
    <2>2. CASE ledger_stream' = Ledger!Idle
      BY <1>5, <2>1, <2>2 DEF Ledger!Idle
    <2>3. CASE ledger_stream' # Ledger!Idle
      <3>1. /\ ledger_stream'.at \in {"update", "add"} =>
                 ledger_stream'.row \in Rows /\ ledger_stream'.copy = ledger_recs[ledger_stream'.row]
            /\ ledger_stream'.at = "update" => ledger_stream'.copy.order = ledger_stream'.ev.order
            /\ ledger_stream'.at \in {"check", "look"} => ledger_stream'.row = 0
            /\ ledger_stream'.at # "create"
        BY <1>10, <2>3, HandlerTakes
      <3>2. QED
        BY <1>3, <2>1, <3>1 DEF RowsInv, Rows
    <2>4. QED
      BY <2>2, <2>3
  <1>11. CASE Ledger!CloseChecks
    <2>1. UNCHANGED <<ledger_recs, ledger_saver>> /\ ledger_stream.at \in {"check", "look"}
      BY <1>11 DEF Ledger!CloseChecks
    <2>2. CASE ledger_stream' = Ledger!Idle
      BY <1>5, <2>1, <2>2 DEF Ledger!Idle
    <2>3. CASE ledger_stream' # Ledger!Idle
      <3>1. /\ ledger_stream'.at \in {"look", "create"}
            /\ ledger_stream'.ev = ledger_stream.ev
            /\ \/ ledger_stream'.row = 0
               \/ /\ ledger_stream'.at = "create" /\ ledger_stream'.row \in Rows
                  /\ ledger_recs[ledger_stream'.row].order = ledger_stream.ev.order
        BY <1>11, <2>1, <2>3, CheckMoves DEF RowsInv
      <3>2. QED
        BY <1>3, <2>1, <3>1, <1>11 DEF RowsInv, Rows, Ledger!CloseChecks
    <2>4. QED
      BY <2>2, <2>3
  <1>12. CASE Ledger!CloseWrites
    <2>1. UNCHANGED ledger_saver
      BY <1>12 DEF Ledger!CloseWrites
    <2>2. ledger_stream'.at \in {"idle", "latest"}
      <3>1. ledger_stream' \in {Ledger!Idle, Moved("latest")}
            /\ ledger_stream.at # "idle"
        BY <1>12 DEF Ledger!CloseWrites, Moved
      <3>2. 0 \in Nat
        OBVIOUS
      <3>3. QED
        BY <3>1, <3>2, HandlerMoves DEF Ledger!Idle
    <2>3. QED
      BY <1>5, <2>1, <2>2
  <1>13. CASE \/ Ledger!updateTradeFromOrder \/ Ledger!markLatestOpenTradeClosed
              \/ Ledger!updateOpenTradeWithPnl
    BY <1>5, <1>13 DEF Ledger!updateTradeFromOrder, Ledger!markLatestOpenTradeClosed,
                       Ledger!updateOpenTradeWithPnl, Ledger!Idle
  <1>14. QED
    BY <1>6, <1>7, <1>8, <1>9, <1>10, <1>11, <1>12, <1>13 DEF Ledger!Next, LedgerKinds

-----------------------------------------------------------------------------
Final(e) == e.status # "PARTIALLY_FILLED"
Handled  == ledger_stream.at \notin {"idle", "latest"}

\* An event that was reported: of a placed order, without a profit if the
\* order opens, and its last if it says so.
Right(e) == /\ e.order \in Ledger!Placed
            /\ ledger_kind[e.order] = "open" => e.pnl = 0
            /\ Final(e) => e.order \in ledger_over

\* Nothing more will be heard of the order.
Past(o) == /\ o \in ledger_over
           /\ \A j \in 1 .. Len(ledger_events) : ledger_events[j].order # o
           /\ Handled => ledger_stream.ev.order # o

\* Events come in the order they happened, an order's last one last.
FlowInv ==
  /\ \A i \in 1 .. Len(ledger_events) : Right(ledger_events[i])
  /\ \A i, j \in 1 .. Len(ledger_events) :
       i < j /\ Final(ledger_events[i]) => ledger_events[j].order # ledger_events[i].order
  /\ Handled => /\ Right(ledger_stream.ev)
                /\ Final(ledger_stream.ev) =>
                     \A j \in 1 .. Len(ledger_events) :
                       ledger_events[j].order # ledger_stream.ev.order

\* A reduction has no record before its last event is handled.
RecordInv ==
  /\ \A o \in Ledger!Order : ledger_saver[o] \in {"look", "create", "merge"} =>
       o \in Ledger!Placed /\ ledger_kind[o] # "reduce"
  /\ \A r \in Rows : /\ ledger_recs[r].order \in Ledger!Placed
                     /\ ledger_kind[ledger_recs[r].order] = "reduce" =>
                          Past(ledger_recs[r].order)
  /\ ledger_stream.at \in {"check", "look", "create"} => Ledger!Closes(ledger_stream.ev)

LEMMA FlowStart == Ledger!Init => RowsInv /\ FlowInv /\ RecordInv
  <1> SUFFICES ASSUME Ledger!Init PROVE RowsInv /\ FlowInv /\ RecordInv
    OBVIOUS
  <1>1. 1 .. Len(ledger_events) = {} /\ Rows = {}
    <2>1. Len(<<>>) = 0
      OBVIOUS
    <2>2. QED
      BY <2>1 DEF Ledger!Init, Rows
  <1>2. QED
    BY <1>1 DEF Ledger!Init, RowsInv, FlowInv, RecordInv, Handled

\* A queue of events with one more, and without its head.
LEMMA Later ==
  ASSUME NEW b \in Seq(LedgerEvent), NEW e \in LedgerEvent
  PROVE  /\ Len(b) \in Nat
         /\ Append(b, e) \in Seq(LedgerEvent) /\ Len(Append(b, e)) = Len(b) + 1
         /\ \A i \in 1 .. Len(b) : Append(b, e)[i] = b[i]
         /\ Append(b, e)[Len(b) + 1] = e
         /\ b # <<>> => /\ Head(b) = b[1] /\ 1 \in 1 .. Len(b)
                        /\ \A i \in 1 .. Len(Tail(b)) :
                             i \in Nat /\ i + 1 \in 1 .. Len(b) /\ Tail(b)[i] = b[i + 1]
  OBVIOUS

\* The exchange reports on an order that is not over.
LEMMA FlowReports ==
  ASSUME LedgerTyped, FlowInv, RecordInv, NEW o \in Ledger!Placed \ ledger_over,
         NEW e \in LedgerEvent, e.order = o,
         ledger_kind[o] = "open" => e.pnl = 0,
         ledger_over' \in {ledger_over, ledger_over \cup {o}},
         Final(e) => ledger_over' = ledger_over \cup {o},
         ledger_events' \in {ledger_events, Append(ledger_events, e)},
         UNCHANGED <<ledger_kind, ledger_recs, ledger_saver, ledger_stream>>
  PROVE  FlowInv' /\ RecordInv'
  <1>1. /\ Len(ledger_events) \in Nat
        /\ Len(Append(ledger_events, e)) = Len(ledger_events) + 1
        /\ \A i \in 1 .. Len(ledger_events) : Append(ledger_events, e)[i] = ledger_events[i]
        /\ Append(ledger_events, e)[Len(ledger_events) + 1] = e
    BY Later DEF LedgerTyped
  <1>2. /\ ledger_over \subseteq ledger_over'
        /\ \A x : Final(x)' <=> Final(x)
        /\ \A x : Right(x) => Right(x)'
        /\ Right(e)'
        /\ Handled' <=> Handled
    BY DEF Right, Ledger!Placed, Final, Handled
  <1>3. CASE ledger_events' = ledger_events
    <2>1. \A p : Past(p) => Past(p)'
      BY <1>2, <1>3 DEF Past, Handled
    <2>2. FlowInv'
      BY <1>2, <1>3 DEF FlowInv, Final
    <2>3. RecordInv'
      BY <2>1 DEF RecordInv, Rows, Ledger!Closes, Ledger!Placed
    <2>4. QED
      BY <2>2, <2>3
  <1>4. CASE ledger_events' = Append(ledger_events, e)
    <2> DEFINE n == Len(ledger_events)
    <2>1. /\ n \in Nat /\ Len(ledger_events') = n + 1
          /\ \A i \in 1 .. n : ledger_events'[i] = ledger_events[i]
          /\ ledger_events'[n + 1] = e
      BY <1>1, <1>4
    <2> HIDE DEF n
    <2>2. \A j \in 1 .. n + 1 : j \in 1 .. n \/ j = n + 1
      BY <2>1
    <2>3. n = Len(ledger_events)
      BY DEF n
    <2>4. ASSUME NEW p \in ledger_over, \A j \in 1 .. n : ledger_events[j].order # p
          PROVE  \A j \in 1 .. n + 1 : ledger_events'[j].order # p
      BY <2>1, <2>2, <2>4
    <2>5. \A p : Past(p) => Past(p)'
      <3> SUFFICES ASSUME NEW p, Past(p) PROVE Past(p)'
        OBVIOUS
      <3>1. \A j \in 1 .. n + 1 : ledger_events'[j].order # p
        BY <2>3, <2>4 DEF Past
      <3>2. QED
        BY <1>2, <2>1, <3>1 DEF Past
    <2>6. FlowInv'
      <3>1. ASSUME NEW i \in 1 .. n + 1 PROVE Right(ledger_events[i])'
        <4>1. CASE i \in 1 .. n
          <5>1. Right(ledger_events[i]) /\ ledger_events'[i] = ledger_events[i]
            BY <2>1, <2>3, <4>1 DEF FlowInv
          <5>2. QED
            BY <5>1 DEF Right, Ledger!Placed, Final
        <4>2. CASE i = n + 1
          <5>1. ledger_events'[i] = e
            BY <2>1, <4>2
          <5>2. QED
            BY <5>1 DEF Right, Ledger!Placed, Final
        <4>3. QED
          BY <2>2, <4>1, <4>2
      <3>2. ASSUME NEW i \in 1 .. n + 1, NEW j \in 1 .. n + 1, i < j,
                   Final(ledger_events'[i])
            PROVE  ledger_events'[j].order # ledger_events'[i].order
        <4>1. i \in 1 .. n /\ ledger_events'[i] = ledger_events[i]
          BY <2>1, <3>2
        <4>2. CASE j \in 1 .. n
          BY <2>1, <2>3, <3>2, <4>1, <4>2 DEF FlowInv
        <4>3. CASE j = n + 1
          <5>1. ledger_events[i].order \in ledger_over
            BY <2>3, <3>2, <4>1 DEF FlowInv, Right
          <5>2. QED
            BY <2>1, <4>1, <4>3, <5>1
        <4>4. QED
          BY <2>2, <4>2, <4>3
      <3>3. ASSUME Handled
            PROVE  /\ Right(ledger_stream.ev)'
                   /\ Final(ledger_stream.ev) =>
                        \A j \in 1 .. n + 1 : ledger_events'[j].order # ledger_stream.ev.order
        <4>1. Right(ledger_stream.ev)
          BY <3>3 DEF FlowInv
        <4>2. ASSUME Final(ledger_stream.ev)
              PROVE  \A j \in 1 .. n + 1 : ledger_events'[j].order # ledger_stream.ev.order
          <5>1. ledger_stream.ev.order \in ledger_over
            BY <4>1, <4>2 DEF Right
          <5>2. QED
            BY <2>3, <2>4, <3>3, <4>2, <5>1 DEF FlowInv
        <4>3. Right(ledger_stream.ev)'
          BY <1>2, <4>1
        <4>4. QED
          BY <4>2, <4>3
      <3>4. \A x : Final(x)' <=> Final(x)
        BY <1>2
      <3>5. QED
        BY <1>2, <2>1, <3>1, <3>2, <3>3 DEF FlowInv, Final
    <2>7. RecordInv'
      BY <2>5 DEF RecordInv, Rows, Ledger!Closes, Ledger!Placed
    <2>8. QED
      BY <2>6, <2>7
  <1>5. QED
    BY <1>3, <1>4

\* Nothing is reported or taken up.
LEMMA FlowQuiet ==
  ASSUME FlowInv, UNCHANGED <<ledger_events, ledger_kind, ledger_over>>,
         Handled' => Handled /\ ledger_stream'.ev = ledger_stream.ev
  PROVE  FlowInv' /\ \A p : Past(p) => Past(p)'
  <1>1. \A p : Past(p) => Past(p)'
    BY DEF Past
  <1>2. FlowInv'
    BY DEF FlowInv, Right, Final, Ledger!Placed
  <1>3. QED
    BY <1>1, <1>2

\* Rows keep their orders; those that are added are told what they need.
LEMMA RecordsKept ==
  ASSUME LedgerTyped, RecordInv, UNCHANGED ledger_kind,
         \A p : Past(p) => Past(p)',
         ledger_recs' = ledger_recs \/ (\E r, x : Changed(r, x))
  PROVE  \A r \in Rows' : /\ ledger_recs'[r].order \in Ledger!Placed
                          /\ ledger_kind[ledger_recs'[r].order] = "reduce" =>
                               Past(ledger_recs[r].order)'
  <1>1. /\ \A r \in Rows : ledger_recs'[r].order = ledger_recs[r].order
        /\ Rows' = Rows
    <2>1. \A r \in Rows : ledger_recs'[r].order = ledger_recs[r].order
      BY RowsKept
    <2>2. ASSUME NEW r, NEW x, Changed(r, x) PROVE Rows' = Rows
      BY <2>2 DEF Changed, Rows, LedgerTyped
    <2>3. QED
      BY <2>1, <2>2 DEF Rows
  <1>2. ASSUME NEW r \in Rows, ledger_kind[ledger_recs[r].order] = "reduce"
        PROVE  Past(ledger_recs[r].order)'
    <2>1. Past(ledger_recs[r].order)
      BY <1>2 DEF RecordInv
    <2>2. ledger_recs'[r].order = ledger_recs[r].order
      BY <1>1
    <2> DEFINE p == ledger_recs[r].order
    <2>3. \A p1 : p1 = ledger_recs[r].order => Past(p1)'
      BY <2>1
    <2>4. QED
      BY <2>2, <2>3 DEF Past
  <1>3. QED
    BY <1>1, <1>2 DEF RecordInv

LEMMA FlowKeeps ==
  ASSUME LedgerTyped, RowsInv, FlowInv, RecordInv, [Ledger!Next]_ledgerVars
  PROVE  FlowInv' /\ RecordInv'
  <1>1. CASE UNCHANGED ledgerVars
    BY <1>1 DEF ledgerVars, FlowInv, RecordInv, Past, Handled, Right, Final, Rows,
                Ledger!Closes, Ledger!Placed
  <1> SUFFICES ASSUME Ledger!Next PROVE FlowInv' /\ RecordInv'
    BY <1>1
  <1>2. ASSUME NEW k \in LedgerKinds, Ledger!Place(k) PROVE FlowInv' /\ RecordInv'
    <2>1. /\ ledger_kind' = Append(ledger_kind, k)
          /\ UNCHANGED <<ledger_events, ledger_over, ledger_recs, ledger_stream>>
          /\ \E to \in {"look", "done"} :
               /\ k = "reduce" => to = "done"
               /\ ledger_saver' = [ledger_saver EXCEPT ![Len(ledger_kind) + 1] = to]
      BY <1>2 DEF Ledger!Place
    <2>2. /\ DOMAIN ledger_kind \subseteq DOMAIN ledger_kind'
          /\ \A o \in DOMAIN ledger_kind : ledger_kind'[o] = ledger_kind[o]
          /\ Len(ledger_kind) + 1 \in DOMAIN ledger_kind'
          /\ ledger_kind'[Len(ledger_kind) + 1] = k
      BY <2>1 DEF LedgerTyped
    <2>3. FlowInv'
      BY <2>1, <2>2 DEF FlowInv, Right, Final, Handled, Ledger!Placed
    <2>4. \A p : Past(p) => Past(p)'
      BY <2>1 DEF Past, Handled
    <2>5. ASSUME NEW o \in Ledger!Order, ledger_saver'[o] \in {"look", "create", "merge"}
          PROVE  o \in DOMAIN ledger_kind' /\ ledger_kind'[o] # "reduce"
      <3>1. CASE o = Len(ledger_kind) + 1
        BY <2>1, <2>2, <2>5, <3>1 DEF LedgerTyped
      <3>2. CASE o # Len(ledger_kind) + 1
        <4>1. ledger_saver'[o] = ledger_saver[o]
          BY <2>1, <3>2 DEF LedgerTyped
        <4>2. QED
          BY <2>2, <2>5, <4>1 DEF RecordInv, Ledger!Placed
      <3>3. QED
        BY <3>1, <3>2
    <2>6. \A r \in Rows : /\ ledger_recs[r].order \in DOMAIN ledger_kind'
                          /\ ledger_kind'[ledger_recs[r].order] = "reduce" =>
                               Past(ledger_recs[r].order)
      BY <2>2 DEF RecordInv, Ledger!Placed
    <2>7. ledger_stream.at \in {"check", "look", "create"} => Ledger!Closes(ledger_stream.ev)'
      BY <2>1, <2>2 DEF RecordInv, FlowInv, Handled, Right, Ledger!Closes, Ledger!Placed
    <2>8. RecordInv'
      BY <2>1, <2>4, <2>5, <2>6, <2>7 DEF RecordInv, Rows, Ledger!Placed, Past, Handled
    <2>9. QED
      BY <2>3, <2>8
  <1>3. ASSUME NEW o \in Ledger!Order, Ledger!Fills(o) PROVE FlowInv' /\ RecordInv'
    <2> DEFINE p == IF ledger_kind[o] = "open" THEN 0 ELSE 1
               e(st) == [order |-> o, status |-> st, pnl |-> p]
    <2>1. /\ o \in Ledger!Placed \ ledger_over
          /\ UNCHANGED <<ledger_kind, ledger_recs, ledger_saver, ledger_stream>>
          /\ \/ /\ ledger_over' = ledger_over \cup {o}
                /\ ledger_events' \in {ledger_events, Append(ledger_events, e("FILLED"))}
             \/ /\ ledger_over' = ledger_over
                /\ ledger_events' \in {ledger_events, Append(ledger_events, e("PARTIALLY_FILLED"))}
      BY <1>3 DEF Ledger!Fills, Ledger!Report
    <2>2. /\ \A st \in {"FILLED", "PARTIALLY_FILLED"} :
               /\ e(st) \in LedgerEvent /\ e(st).order = o
               /\ ledger_kind[o] = "open" => e(st).pnl = 0
          /\ ~Final(e("PARTIALLY_FILLED"))
      BY DEF LedgerEvent, Final
    <2> HIDE DEF e, p
    <2>3. QED
      BY <2>1, <2>2, FlowReports
  <1>4. ASSUME NEW o \in Ledger!Order, Ledger!Cancelled(o) PROVE FlowInv' /\ RecordInv'
    <2> DEFINE e == [order |-> o, status |-> "CANCELED", pnl |-> 0]
    <2>1. /\ o \in Ledger!Placed \ ledger_over
          /\ UNCHANGED <<ledger_kind, ledger_recs, ledger_saver, ledger_stream>>
          /\ ledger_over' = ledger_over \cup {o}
          /\ ledger_events' \in {ledger_events, Append(ledger_events, e)}
      BY <1>4 DEF Ledger!Cancelled, Ledger!Report
    <2>2. e \in LedgerEvent /\ e.order = o /\ e.pnl = 0
      BY DEF LedgerEvent
    <2> HIDE DEF e
    <2>3. QED
      BY <2>1, <2>2, FlowReports
  <1>5. CASE Ledger!StreamBreaks \/ Ledger!StreamReturns
    <2>1. UNCHANGED <<ledger_kind, ledger_events, ledger_over, ledger_recs, ledger_saver,
                      ledger_stream>>
      BY <1>5 DEF Ledger!StreamBreaks, Ledger!StreamReturns
    <2>2. QED
      BY <2>1 DEF FlowInv, RecordInv, Past, Handled, Right, Final, Rows,
                  Ledger!Closes, Ledger!Placed
  <1>6. ASSUME NEW o \in Ledger!Order, Ledger!SaverLooks(o) PROVE FlowInv' /\ RecordInv'
    <2>1. /\ ledger_saver[o] = "look"
          /\ \E to \in {"create", "merge"} : ledger_saver' = [ledger_saver EXCEPT ![o] = to]
          /\ UNCHANGED <<ledger_kind, ledger_events, ledger_over, ledger_recs, ledger_stream>>
      BY <1>6 DEF Ledger!SaverLooks
    <2>2. FlowInv' /\ \A p : Past(p) => Past(p)'
      BY <2>1, FlowQuiet DEF Handled
    <2>3. \A q \in Ledger!Order : ledger_saver'[q] \in {"look", "create", "merge"} =>
            ledger_saver[q] \in {"look", "create", "merge"}
      BY <2>1 DEF LedgerTyped
    <2>4. \A r \in Rows' : /\ ledger_recs'[r].order \in Ledger!Placed
                           /\ ledger_kind[ledger_recs'[r].order] = "reduce" =>
                                Past(ledger_recs[r].order)'
      BY <2>1, <2>2, RecordsKept
    <2>5. QED
      BY <2>1, <2>2, <2>3, <2>4 DEF RecordInv, Ledger!Closes, Ledger!Placed
  <1>7. ASSUME NEW o \in Ledger!Order, Ledger!SaverWrites(o) PROVE FlowInv' /\ RecordInv'
    <2>1. /\ ledger_saver[o] \in {"create", "merge"}
          /\ ledger_saver' = [ledger_saver EXCEPT ![o] = "done"]
          /\ UNCHANGED <<ledger_kind, ledger_events, ledger_over, ledger_stream>>
      BY <1>7 DEF Ledger!SaverWrites
    <2>2. FlowInv' /\ \A p : Past(p) => Past(p)'
      BY <2>1, FlowQuiet DEF Handled
    <2>3. \A q \in Ledger!Order : ledger_saver'[q] \in {"look", "create", "merge"} =>
            ledger_saver[q] \in {"look", "create", "merge"}
      BY <2>1 DEF LedgerTyped
    <2>4. \A r \in Rows' : /\ ledger_recs'[r].order \in Ledger!Placed
                           /\ ledger_kind[ledger_recs'[r].order] = "reduce" =>
                                Past(ledger_recs[r].order)'
      <3>1. CASE ledger_recs' = ledger_recs
        BY <2>1, <2>2, <3>1, RecordsKept
      <3>2. CASE ledger_saver[o] = "create" /\ Added(Ledger!Fresh(o))
        <4>1. o \in Ledger!Placed /\ ledger_kind[o] # "reduce"
          BY <2>1 DEF RecordInv
        <4>2. /\ \A r \in Rows' : r \in Rows \/ r = Len(ledger_recs) + 1
              /\ \A r \in Rows : ledger_recs'[r] = ledger_recs[r]
              /\ ledger_recs'[Len(ledger_recs) + 1].order = o
          BY <3>2, FreshFacts DEF Added, Rows, LedgerTyped
        <4>3. ASSUME NEW r \in Rows
              PROVE  /\ ledger_recs'[r].order \in Ledger!Placed
                     /\ ledger_kind[ledger_recs'[r].order] = "reduce" =>
                          Past(ledger_recs[r].order)'
          <5>1. ledger_recs'[r] = ledger_recs[r]
            BY <4>2
          <5>2. ledger_kind[ledger_recs[r].order] = "reduce" => Past(ledger_recs[r].order)
            BY DEF RecordInv
          <5>3. Past(ledger_recs[r].order) => Past(ledger_recs[r].order)'
            BY <2>1, <5>1 DEF Past, Handled
          <5>4. QED
            BY <5>1, <5>2, <5>3 DEF RecordInv
        <4>4. QED
          BY <4>1, <4>2, <4>3
      <3>3. QED
        BY <1>7, <3>1, <3>2, SaverTable
    <2>5. QED
      BY <2>1, <2>2, <2>3, <2>4 DEF RecordInv, Ledger!Closes, Ledger!Placed
  <1>8. CASE Ledger!handleOrderUpdate
    <2> DEFINE n == Len(ledger_events')
    <2>1. /\ ledger_stream.at = "idle" /\ ledger_events # <<>>
          /\ ledger_events' = Tail(ledger_events)
          /\ UNCHANGED <<ledger_kind, ledger_over, ledger_recs, ledger_saver>>
          /\ \/ ledger_stream' = Ledger!Idle
             \/ /\ ledger_stream'.ev = Head(ledger_events)
                /\ \/ ledger_stream'.at \in {"update", "add"}
                   \/ /\ ledger_stream'.at = "check"
                      /\ Ledger!Closes(Head(ledger_events))
      BY <1>8, HandlerTakes
    <2>2. /\ Head(ledger_events) = ledger_events[1] /\ 1 \in 1 .. Len(ledger_events)
          /\ \A i \in 1 .. n : /\ i \in Nat /\ i + 1 \in 1 .. Len(ledger_events)
                               /\ ledger_events'[i] = ledger_events[i + 1]
      <3>1. ledger_events \in Seq(LedgerEvent)
        BY DEF LedgerTyped
      <3>2. Head(ledger_events) \in LedgerEvent
        BY <1>8, HandlerTakes
      <3>3. QED
        BY <2>1, <3>1, <3>2, Later
    <2> HIDE DEF n
    <2>3. n = Len(ledger_events')
      BY DEF n
    <2>4. /\ \A i \in 1 .. n : Right(ledger_events[i])'
          /\ Right(Head(ledger_events))
      BY <2>1, <2>2 DEF FlowInv, Right, Final, Ledger!Placed
    <2>5. \A i, j \in 1 .. n : i < j /\ Final(ledger_events'[i]) =>
            ledger_events'[j].order # ledger_events'[i].order
      <3> SUFFICES ASSUME NEW i \in 1 .. n, NEW j \in 1 .. n, i < j,
                          Final(ledger_events'[i])
                   PROVE  ledger_events'[j].order # ledger_events'[i].order
        OBVIOUS
      <3>1. i + 1 < j + 1
        BY <2>2
      <3>2. QED
        BY <2>2, <3>1 DEF FlowInv
    <2>6. Final(Head(ledger_events)) =>
            \A j \in 1 .. n : ledger_events'[j].order # Head(ledger_events).order
      <3> SUFFICES ASSUME Final(Head(ledger_events)), NEW j \in 1 .. n
                   PROVE  ledger_events'[j].order # Head(ledger_events).order
        OBVIOUS
      <3>1. 1 < j + 1
        BY <2>2
      <3>2. QED
        BY <2>2, <3>1 DEF FlowInv
    <2>7. Handled' => ledger_stream'.ev = Head(ledger_events)
      BY <2>1 DEF Handled, Ledger!Idle
    <2>8. FlowInv'
      <3>1. Handled' => /\ Right(ledger_stream.ev)'
                        /\ Final(ledger_stream.ev)' =>
                             \A j \in 1 .. n : ledger_events'[j].order # ledger_stream'.ev.order
        BY <2>1, <2>4, <2>6, <2>7 DEF Right, Final, Ledger!Placed
      <3>2. QED
        BY <2>3, <2>4, <2>5, <3>1 DEF FlowInv, Final
    <2>9. ASSUME NEW p, Past(p) PROVE Past(p)'
      <3>1. \A j \in 1 .. n : ledger_events'[j].order # p
        BY <2>2, <2>9 DEF Past
      <3>2. Handled' => ledger_stream'.ev.order # p
        BY <2>2, <2>7, <2>9 DEF Past
      <3>3. QED
        BY <2>1, <2>3, <2>9, <3>1, <3>2 DEF Past
    <2>10. ledger_stream'.at \in {"check", "look", "create"} =>
             Ledger!Closes(ledger_stream.ev)'
      BY <2>1 DEF Ledger!Closes, Ledger!Idle
    <2>11. \A r \in Rows' : /\ ledger_recs'[r].order \in Ledger!Placed
                            /\ ledger_kind[ledger_recs'[r].order] = "reduce" =>
                                 Past(ledger_recs[r].order)'
      BY <2>1, <2>9, RecordsKept
    <2>12. RecordInv'
      BY <2>1, <2>10, <2>11 DEF RecordInv, Ledger!Placed
    <2>13. QED
      BY <2>8, <2>12
  <1>9. CASE Ledger!CloseChecks
    <2>1. /\ ledger_stream.at \in {"check", "look"}
          /\ UNCHANGED <<ledger_kind, ledger_events, ledger_over, ledger_recs, ledger_saver>>
      BY <1>9 DEF Ledger!CloseChecks
    <2>2. \/ ledger_stream' = Ledger!Idle
          \/ ledger_stream'.ev = ledger_stream.ev /\ ledger_stream'.at \in {"look", "create"}
      BY <1>9, CheckMoves
    <2>3. FlowInv' /\ \A p : Past(p) => Past(p)'
      BY <2>1, <2>2, FlowQuiet DEF Handled, Ledger!Idle
    <2>4. \A r \in Rows' : /\ ledger_recs'[r].order \in Ledger!Placed
                           /\ ledger_kind[ledger_recs'[r].order] = "reduce" =>
                                Past(ledger_recs[r].order)'
      BY <2>1, <2>3, RecordsKept
    <2>5. ledger_stream'.at \in {"check", "look", "create"} =>
            Ledger!Closes(ledger_stream.ev)'
      BY <2>1, <2>2 DEF RecordInv, Ledger!Closes, Ledger!Idle
    <2>6. QED
      BY <2>1, <2>3, <2>4, <2>5 DEF RecordInv, Ledger!Placed
  <1>10. ASSUME UNCHANGED <<ledger_kind, ledger_events, ledger_over, ledger_saver>>,
                ledger_stream'.at \in {"idle", "latest"},
                ledger_recs' = ledger_recs \/ (\E r, x : Changed(r, x))
         PROVE  FlowInv' /\ RecordInv'
    <2>1. FlowInv' /\ \A p : Past(p) => Past(p)'
      BY <1>10, FlowQuiet DEF Handled
    <2>2. \A r \in Rows' : /\ ledger_recs'[r].order \in Ledger!Placed
                           /\ ledger_kind[ledger_recs'[r].order] = "reduce" =>
                                Past(ledger_recs[r].order)'
      BY <1>10, <2>1, RecordsKept
    <2>3. QED
      BY <1>10, <2>1, <2>2 DEF RecordInv, Ledger!Placed
  <1>11. CASE Ledger!CloseWrites
    <2>1. /\ ledger_stream.at = "create"
          /\ UNCHANGED <<ledger_kind, ledger_events, ledger_over, ledger_saver>>
          /\ ledger_stream' \in {Ledger!Idle, Moved("latest")}
      BY <1>11 DEF Ledger!CloseWrites, Moved
    <2>2. ledger_stream'.at \in {"idle", "latest"}
      <3>1. 0 \in Nat
        OBVIOUS
      <3>2. QED
        BY <2>1, <3>1, HandlerMoves DEF Ledger!Idle
    <2>3. CASE Added(ClosingRow)
      <3>1. FlowInv' /\ \A p : Past(p) => Past(p)'
        BY <2>1, <2>2, FlowQuiet DEF Handled
      <3>2. /\ ledger_stream.ev.order \in Ledger!Placed
            /\ \A q : q = ledger_stream.ev.order => Past(q)'
        <4>1. Right(ledger_stream.ev) /\ Final(ledger_stream.ev)
          BY <2>1 DEF FlowInv, RecordInv, Handled, Ledger!Closes, Final
        <4>2. \A j \in 1 .. Len(ledger_events) :
                ledger_events[j].order # ledger_stream.ev.order
          BY <2>1, <4>1 DEF FlowInv, Handled
        <4>3. /\ ledger_stream.ev.order \in Ledger!Placed
              /\ ledger_stream.ev.order \in ledger_over
          BY <4>1 DEF Right
        <4>4. ~Handled'
          BY <2>2 DEF Handled
        <4>5. QED
          BY <2>1, <4>2, <4>3, <4>4 DEF Past
      <3>3. /\ \A r \in Rows' : r \in Rows \/ r = Len(ledger_recs) + 1
            /\ \A r \in Rows : ledger_recs'[r] = ledger_recs[r]
            /\ ledger_recs'[Len(ledger_recs) + 1].order = ledger_stream.ev.order
        BY <2>3 DEF Added, ClosingRow, Rows, LedgerTyped
      <3>4. ASSUME NEW r \in Rows'
            PROVE  /\ ledger_recs'[r].order \in Ledger!Placed
                   /\ ledger_kind[ledger_recs'[r].order] = "reduce" =>
                        Past(ledger_recs[r].order)'
        <4>1. CASE r \in Rows
          <5>1. ledger_recs'[r] = ledger_recs[r]
            BY <3>3, <4>1
          <5>2. ledger_kind[ledger_recs[r].order] = "reduce" => Past(ledger_recs[r].order)
            BY <4>1 DEF RecordInv
          <5>3. Past(ledger_recs[r].order) => Past(ledger_recs[r].order)'
            BY <2>1, <2>2, <5>1 DEF Past, Handled
          <5>4. QED
            BY <4>1, <5>1, <5>2, <5>3 DEF RecordInv
        <4>2. CASE r = Len(ledger_recs) + 1
          <5>1. ledger_recs'[r].order = ledger_stream.ev.order
            BY <3>3, <4>2
          <5>2. QED
            BY <3>2, <5>1 DEF Past
        <4>3. QED
          BY <3>3, <4>1, <4>2
      <3>5. QED
        BY <2>1, <2>2, <3>1, <3>4 DEF RecordInv, Ledger!Placed
    <2>4. CASE ~Added(ClosingRow)
      BY <1>10, <1>11, <2>1, <2>2, <2>4, CloseTable
    <2>5. QED
      BY <2>3, <2>4
  <1>12. CASE Ledger!updateTradeFromOrder
    BY <1>10, <1>12, UpdateTable DEF Ledger!updateTradeFromOrder, Ledger!Idle
  <1>13. CASE Ledger!markLatestOpenTradeClosed
    BY <1>10, <1>13, MarkTable DEF Ledger!markLatestOpenTradeClosed, Ledger!Idle
  <1>14. CASE Ledger!updateOpenTradeWithPnl
    BY <1>10, <1>14, AddTable DEF Ledger!updateOpenTradeWithPnl, Ledger!Idle
  <1>15. QED
    BY <1>2, <1>3, <1>4, <1>5, <1>6, <1>7, <1>8, <1>9, <1>11, <1>12, <1>13, <1>14
    DEF Ledger!Next, LedgerKinds

-----------------------------------------------------------------------------
\* The profit a table shows, and what a row more or another row does to it.
Profit(s) == SumFunctionOnSet([r \in DOMAIN s |-> s[r].pnl], DOMAIN s)

LEMMA ProfitFacts ==
  ASSUME NEW s \in Seq(Ledger!Rec)
  PROVE  Profit(s) \in Nat /\ IsFiniteSet(DOMAIN s)
  <1>1. DOMAIN s = 1 .. Len(s) /\ Len(s) \in Nat
    OBVIOUS
  <1>2. IsFiniteSet(DOMAIN s)
    BY <1>1, FS_Interval
  <1>3. \A r \in DOMAIN s : s[r] \in Ledger!Rec
    BY <1>1
  <1>4. \A r \in DOMAIN s : s[r].pnl \in Nat
    BY <1>3 DEF Ledger!Rec
  <1>5. \A r \in DOMAIN s : [q \in DOMAIN s |-> s[q].pnl][r] \in Nat
    BY <1>4
  <1>6. QED
    BY <1>2, <1>5, SumNat DEF Profit

LEMMA ProfitAdded ==
  ASSUME NEW s \in Seq(Ledger!Rec), NEW x \in Ledger!Rec
  PROVE  Profit(Append(s, x)) = Profit(s) + x.pnl
  <1> DEFINE t == Append(s, x)
             f == [r \in DOMAIN s |-> s[r].pnl]
             g == [r \in DOMAIN t |-> t[r].pnl]
             n == Len(s) + 1
  <1>1. /\ DOMAIN t = DOMAIN s \cup {n} /\ n \notin DOMAIN s
        /\ \A r \in DOMAIN s : t[r] = s[r]
        /\ t[n] = x
        /\ \A r \in DOMAIN s : s[r] \in Ledger!Rec
    OBVIOUS
  <1> HIDE DEF t, n
  <1>2. /\ \A r \in DOMAIN s : g[r] = f[r] /\ g[r] \in Int
        /\ g[n] = x.pnl
    BY <1>1 DEF Ledger!Rec
  <1>3. IsFiniteSet(DOMAIN s)
    BY ProfitFacts
  <1> HIDE DEF f, g
  <1>4. SumFunctionOnSet(g, DOMAIN s \cup {n}) = g[n] + SumFunctionOnSet(g, DOMAIN s)
    <2>1. x.pnl \in Int
      BY DEF Ledger!Rec
    <2>2. \A r \in DOMAIN s \cup {n} : g[r] \in Int
      BY <1>2, <2>1
    <2>3. QED
      BY <1>1, <1>3, <2>2, SumAdd
  <1>5. SumFunctionOnSet(g, DOMAIN s) = SumFunctionOnSet(f, DOMAIN s)
    BY <1>2, <1>3, SumSame
  <1>6. Profit(t) = x.pnl + Profit(s)
    BY <1>1, <1>2, <1>4, <1>5 DEF Profit, f, g
  <1>7. x.pnl \in Nat /\ Profit(s) \in Nat
    BY ProfitFacts DEF Ledger!Rec
  <1>8. QED
    BY <1>6, <1>7 DEF t

LEMMA ProfitChanged ==
  ASSUME NEW s \in Seq(Ledger!Rec), NEW r \in 1 .. Len(s), NEW x \in Ledger!Rec
  PROVE  Profit([s EXCEPT ![r] = x]) + s[r].pnl = Profit(s) + x.pnl
  <1> DEFINE t == [s EXCEPT ![r] = x]
             f == [q \in DOMAIN s |-> s[q].pnl]
             g == [q \in DOMAIN t |-> t[q].pnl]
             U == DOMAIN s \ {r}
  <1>1. /\ DOMAIN t = DOMAIN s /\ r \in DOMAIN s
        /\ \A q \in U : t[q] = s[q]
        /\ t[r] = x
        /\ \A q \in DOMAIN s : s[q] \in Ledger!Rec
    OBVIOUS
  <1> HIDE DEF t
  <1>2. /\ \A q \in DOMAIN s : f[q] \in Int /\ g[q] \in Int
        /\ \A q \in U : g[q] = f[q]
        /\ g[r] = x.pnl /\ f[r] = s[r].pnl
    BY <1>1 DEF Ledger!Rec
  <1>3. IsFiniteSet(DOMAIN s) /\ IsFiniteSet(U)
    BY ProfitFacts, FS_Subset
  <1> HIDE DEF f, g, U
  <1>a. SumFunctionOnSet(g, DOMAIN s) = g[r] + SumFunctionOnSet(g, U)
    <2>1. \A q \in DOMAIN s : g[q] \in Int
      BY <1>2
    <2>2. QED
      BY <1>1, <1>3, <2>1, SumRemove DEF U
  <1>b. SumFunctionOnSet(f, DOMAIN s) = f[r] + SumFunctionOnSet(f, U)
    <2>1. \A q \in DOMAIN s : f[q] \in Int
      BY <1>2
    <2>2. QED
      BY <1>1, <1>3, <2>1, SumRemove DEF U
  <1>4. /\ SumFunctionOnSet(g, DOMAIN s) = g[r] + SumFunctionOnSet(g, U)
        /\ SumFunctionOnSet(f, DOMAIN s) = f[r] + SumFunctionOnSet(f, U)
    BY <1>a, <1>b
  <1>5. SumFunctionOnSet(g, U) = SumFunctionOnSet(f, U)
    BY <1>2, <1>3, SumSame
  <1>6. SumFunctionOnSet(f, U) \in Int
    BY <1>2, <1>3, SumInt DEF U
  <1>7. Profit(t) = g[r] + SumFunctionOnSet(f, U) /\ Profit(s) = f[r] + SumFunctionOnSet(f, U)
    BY <1>1, <1>4, <1>5 DEF Profit, f, g
  <1>8. s[r].pnl \in Int
    BY <1>1 DEF Ledger!Rec
  <1>9. QED
    BY <1>1, <1>2, <1>6, <1>7, <1>8 DEF t

NoCounter == \A o \in Ledger!Placed : ledger_kind[o] # "counter"

\* The day's profit is the table's, or more after a failure.
DayInv ==
  NoCounter => /\ Profit(ledger_recs) <= ledger_daily
               /\ ledger_faults = 0 => Profit(ledger_recs) = ledger_daily

LEMMA DayStart == Ledger!Init => DayInv
  <1> SUFFICES ASSUME Ledger!Init PROVE Profit(<<>>) = 0
    BY DEF DayInv, Ledger!Init
  <1>1. DOMAIN <<>> = {}
    OBVIOUS
  <1>2. QED
    BY <1>1, SumEmpty DEF Profit

LEMMA DayKeeps ==
  ASSUME LedgerTyped, RowsInv, FlowInv, RecordInv, DayInv, [Ledger!Next]_ledgerVars
  PROVE  DayInv'
  <1>1. /\ ledger_recs \in Seq(Ledger!Rec) /\ ledger_daily \in Nat
        /\ ledger_faults \in Nat /\ Profit(ledger_recs) \in Nat
    BY LedgerAssumption, ProfitFacts DEF LedgerTyped, Ledger!BoundAssumption
  <1>2. NoCounter' => NoCounter
    <2>1. CASE \E k \in LedgerKinds : Ledger!Place(k)
      <3>1. PICK k \in LedgerKinds : ledger_kind' = Append(ledger_kind, k)
        BY <2>1 DEF Ledger!Place
      <3>2. \A o \in DOMAIN ledger_kind : o \in DOMAIN ledger_kind'
                                         /\ ledger_kind'[o] = ledger_kind[o]
        BY <3>1 DEF LedgerTyped
      <3>3. QED
        BY <3>2 DEF NoCounter, Ledger!Placed
    <2>2. CASE ~\E k \in LedgerKinds : Ledger!Place(k)
      <3>1. UNCHANGED ledger_kind
        BY <2>2
        DEF ledgerVars, Ledger!Next, LedgerKinds, Ledger!Fills, Ledger!Cancelled,
            Ledger!StreamBreaks, Ledger!StreamReturns, Ledger!SaverLooks,
            Ledger!SaverWrites, Ledger!handleOrderUpdate, Ledger!updateTradeFromOrder,
            Ledger!CloseChecks, Ledger!CloseWrites, Ledger!markLatestOpenTradeClosed,
            Ledger!updateOpenTradeWithPnl
      <3>2. QED
        BY <3>1 DEF NoCounter, Ledger!Placed
    <2>3. QED
      BY <2>1, <2>2
  <1> SUFFICES ASSUME NoCounter
               PROVE  /\ Profit(ledger_recs') <= ledger_daily'
                      /\ ledger_faults' = 0 => Profit(ledger_recs') = ledger_daily'
    BY <1>2 DEF DayInv, Profit
  <1>3. /\ Profit(ledger_recs) <= ledger_daily
        /\ ledger_faults = 0 => Profit(ledger_recs) = ledger_daily
    BY DEF DayInv
  <1>4. ASSUME UNCHANGED <<ledger_daily, ledger_faults>>,
               Profit(ledger_recs') = Profit(ledger_recs)
        PROVE  /\ Profit(ledger_recs') <= ledger_daily'
               /\ ledger_faults' = 0 => Profit(ledger_recs') = ledger_daily'
    BY <1>3, <1>4
  <1>5. ASSUME UNCHANGED <<ledger_daily>>, ledger_faults' = ledger_faults + 1,
               Profit(ledger_recs') = Profit(ledger_recs)
        PROVE  /\ Profit(ledger_recs') <= ledger_daily'
               /\ ledger_faults' = 0 => Profit(ledger_recs') = ledger_daily'
    BY <1>1, <1>3, <1>5
  <1>6. ASSUME NEW r, NEW x, Changed(r, x)
        PROVE  /\ Profit(ledger_recs') + ledger_recs[r].pnl = Profit(ledger_recs) + x.pnl
               /\ x.pnl \in Nat /\ ledger_recs[r].pnl \in Nat
               /\ Profit(ledger_recs') \in Nat
    <2>1. r \in 1 .. Len(ledger_recs) /\ x \in Ledger!Rec
          /\ ledger_recs' = [ledger_recs EXCEPT ![r] = x]
      BY <1>6 DEF Changed, Rows
    <2>2. ledger_recs[r] \in Ledger!Rec
      BY <1>1, <2>1
    <2>3. ledger_recs' \in Seq(Ledger!Rec)
      BY <1>1, <2>1
    <2>4. x.pnl \in Nat /\ ledger_recs[r].pnl \in Nat /\ Profit(ledger_recs') \in Nat
      BY <2>1, <2>2, <2>3, ProfitFacts DEF Ledger!Rec
    <2>5. QED
      BY <1>1, <2>1, <2>4, ProfitChanged
  <1>7. ASSUME NEW o \in Ledger!Order, Ledger!SaverWrites(o)
        PROVE  /\ Profit(ledger_recs') <= ledger_daily'
               /\ ledger_faults' = 0 => Profit(ledger_recs') = ledger_daily'
    <2>1. Profit(ledger_recs') = Profit(ledger_recs)
      <3>1. CASE Added(Ledger!Fresh(o))
        <4>1. Profit(Append(ledger_recs, Ledger!Fresh(o)))
                = Profit(ledger_recs) + Ledger!Fresh(o).pnl
          BY <1>1, FreshFacts, ProfitAdded
        <4>2. QED
          BY <1>1, <3>1, <4>1, FreshFacts DEF Added
      <3>2. QED
        BY <1>7, <3>1, SaverTable
    <2>2. UNCHANGED ledger_daily
          /\ (UNCHANGED ledger_faults \/ ledger_faults' = ledger_faults + 1)
      BY <1>7 DEF Ledger!SaverWrites, Ledger!Fault
    <2>3. QED
      BY <1>4, <1>5, <2>1, <2>2
  <1>8. CASE Ledger!updateTradeFromOrder
    <2>1. /\ ledger_stream.at = "update" /\ UNCHANGED ledger_daily
          /\ UNCHANGED ledger_faults \/ ledger_faults' = ledger_faults + 1
      BY <1>8 DEF Ledger!updateTradeFromOrder, Ledger!Fault
    <2>2. ledger_stream.ev.pnl = 0
      <3>1. /\ ledger_stream.row \in Rows
            /\ ledger_recs[ledger_stream.row].order = ledger_stream.ev.order
        BY <2>1 DEF RowsInv
      <3>2. ledger_stream.ev.order \in Ledger!Placed
            /\ ledger_kind[ledger_stream.ev.order] # "reduce"
        BY <2>1, <3>1 DEF RecordInv, Past, Handled
      <3>3. ledger_kind[ledger_stream.ev.order] = "open"
        BY <3>2 DEF NoCounter, LedgerTyped, LedgerKinds, Ledger!Placed
      <3>4. QED
        BY <2>1, <3>3 DEF FlowInv, Handled, Right
    <2>3. Profit(ledger_recs') = Profit(ledger_recs)
      <3>1. CASE ledger_recs' = ledger_recs
        BY <3>1
      <3>2. CASE /\ Changed(ledger_stream.row, UpdatedCopy)
                 /\ UpdatedCopy.pnl = ledger_recs[ledger_stream.row].pnl
        <4>1. /\ Profit(ledger_recs') + ledger_recs[ledger_stream.row].pnl
                   = Profit(ledger_recs) + UpdatedCopy.pnl
              /\ ledger_recs[ledger_stream.row].pnl \in Nat
              /\ Profit(ledger_recs') \in Nat
          BY <1>6, <3>2
        <4>2. QED
          BY <1>1, <3>2, <4>1
      <3>3. QED
        BY <1>8, <2>2, <3>1, <3>2, UpdateTable
    <2>4. QED
      BY <1>4, <1>5, <2>1, <2>3
  <1>9. CASE Ledger!CloseWrites
    <2>1. /\ ledger_stream.at = "create"
          /\ ledger_stream.ev.pnl \in {0, 1}
      BY <1>9, WorkFacts DEF Ledger!CloseWrites
    <2>2. ledger_stream.row = 0
      <3> SUFFICES ASSUME ledger_stream.row # 0 PROVE FALSE
        OBVIOUS
      <3>1. /\ ledger_stream.row \in Rows
            /\ ledger_recs[ledger_stream.row].order = ledger_stream.ev.order
        BY <2>1 DEF RowsInv
      <3>2. ledger_stream.ev.order \in Ledger!Placed
            /\ ledger_kind[ledger_stream.ev.order] # "reduce"
        BY <2>1, <3>1 DEF RecordInv, Past, Handled
      <3>3. ledger_kind[ledger_stream.ev.order] = "open"
        BY <3>2 DEF NoCounter, LedgerTyped, LedgerKinds, Ledger!Placed
      <3>4. QED
        BY <2>1, <3>3 DEF FlowInv, RecordInv, Handled, Right, Ledger!Closes
    <2>3. CASE ledger_recs' = ledger_recs /\ ledger_daily' = ledger_daily
               /\ ledger_faults' = ledger_faults + 1
      BY <1>5, <2>3
    <2>4. CASE /\ Added(ClosingRow)
               /\ ledger_daily' = ledger_daily + ledger_stream.ev.pnl
               /\ ledger_faults' = ledger_faults
      <3>1. ClosingRow \in Ledger!Rec /\ ClosingRow.pnl = ledger_stream.ev.pnl
        BY <2>4 DEF Added, ClosingRow
      <3>2. Profit(ledger_recs') = Profit(ledger_recs) + ledger_stream.ev.pnl
        BY <1>1, <2>4, <3>1, ProfitAdded DEF Added
      <3>3. QED
        BY <1>1, <1>3, <2>1, <2>4, <3>2
    <2>5. QED
      BY <1>9, <2>2, <2>3, <2>4, CloseTable
  <1>10. CASE Ledger!markLatestOpenTradeClosed
    <2>1. Profit(ledger_recs') = Profit(ledger_recs)
      <3>1. CASE ledger_recs' = ledger_recs
        BY <3>1
      <3>2. ASSUME NEW r, NEW x, Changed(r, x), x.pnl = ledger_recs[r].pnl
            PROVE  Profit(ledger_recs') = Profit(ledger_recs)
        <4>1. /\ Profit(ledger_recs') + ledger_recs[r].pnl = Profit(ledger_recs) + x.pnl
              /\ ledger_recs[r].pnl \in Nat /\ Profit(ledger_recs') \in Nat
          BY <1>6, <3>2
        <4>2. QED
          BY <1>1, <3>2, <4>1
      <3>3. QED
        BY <1>10, <3>1, <3>2, MarkTable
    <2>2. UNCHANGED ledger_daily
          /\ (UNCHANGED ledger_faults \/ ledger_faults' = ledger_faults + 1)
      BY <1>10 DEF Ledger!markLatestOpenTradeClosed, Ledger!Fault
    <2>3. QED
      BY <1>4, <1>5, <2>1, <2>2
  <1>11. CASE Ledger!updateOpenTradeWithPnl
    <2>1. /\ ledger_stream.at = "add" /\ ledger_stream.ev.pnl \in {0, 1}
          /\ ledger_daily' = ledger_daily + ledger_stream.ev.pnl
      BY <1>11, WorkFacts DEF Ledger!updateOpenTradeWithPnl
    <2>2. CASE ledger_recs' = ledger_recs /\ ledger_faults' = ledger_faults + 1
      BY <1>1, <1>3, <2>1, <2>2
    <2>3. ASSUME NEW x, Changed(ledger_stream.row, x),
                 x.pnl = ledger_recs[ledger_stream.row].pnl + ledger_stream.ev.pnl,
                 ledger_faults' = ledger_faults
          PROVE  /\ Profit(ledger_recs') <= ledger_daily'
                 /\ ledger_faults' = 0 => Profit(ledger_recs') = ledger_daily'
      <3>1. /\ Profit(ledger_recs') + ledger_recs[ledger_stream.row].pnl
                 = Profit(ledger_recs) + x.pnl
            /\ ledger_recs[ledger_stream.row].pnl \in Nat /\ Profit(ledger_recs') \in Nat
        BY <1>6, <2>3
      <3>2. Profit(ledger_recs') = Profit(ledger_recs) + ledger_stream.ev.pnl
        <4> DEFINE a == Profit(ledger_recs')
                   b == Profit(ledger_recs)
                   c == ledger_recs[ledger_stream.row].pnl
                   d == ledger_stream.ev.pnl
        <4>1. a \in Nat /\ b \in Nat /\ c \in Nat /\ d \in Nat /\ a + c = b + (c + d)
          <5>1. a \in Nat /\ b \in Nat /\ c \in Nat /\ d \in Nat
            BY <1>1, <2>1, <3>1
          <5>2. a + c = b + x.pnl /\ x.pnl = c + d
            BY <2>3, <3>1
          <5>3. QED
            BY <5>1, <5>2
        <4> HIDE DEF a, b, c, d
        <4>2. a = b + d
          BY <4>1
        <4>3. QED
          BY <4>2 DEF a, b, d
      <3>3. QED
        BY <1>1, <1>3, <2>1, <2>3, <3>2
    <2>4. QED
      BY <1>11, <2>2, <2>3, AddTable
  <1>12. CASE /\ ~\E o \in Ledger!Order : Ledger!SaverWrites(o)
              /\ ~Ledger!updateTradeFromOrder /\ ~Ledger!CloseWrites
              /\ ~Ledger!markLatestOpenTradeClosed /\ ~Ledger!updateOpenTradeWithPnl
    <2>1. /\ UNCHANGED <<ledger_recs, ledger_daily>>
          /\ UNCHANGED ledger_faults \/ ledger_faults' = ledger_faults + 1
      BY <1>12
      DEF ledgerVars, Ledger!Next, Ledger!Place, Ledger!Fills, Ledger!Cancelled,
          Ledger!StreamBreaks, Ledger!StreamReturns, Ledger!SaverLooks,
          Ledger!handleOrderUpdate, Ledger!CloseChecks, Ledger!Fault
    <2>2. QED
      BY <1>4, <1>5, <2>1
  <1>13. QED
    BY <1>7, <1>8, <1>9, <1>10, <1>11, <1>12

-----------------------------------------------------------------------------
(* The five components together: whichever moves, every one of them takes a *)
(* step of its own or none, so what each keeps holds of the whole.          *)

LEMMA DeskSteps ==
  ASSUME [AllNext]_all
  PROVE  /\ [Next]_vars /\ [Paper!Next]_paperVars /\ [Ws!Next]_wsVars
         /\ [Watcher!Next]_watchVars /\ [Ledger!Next]_ledgerVars
  BY DEF AllNext, all

\* What was shown of a group holds of it here.
LEMMA GroupPart == AllSpec => Spec
  <1>1. AllInit => Init
    BY DEF AllInit
  <1>2. [AllNext]_all => [Next]_vars
    BY DeskSteps
  <1>3. QED
    BY <1>1, <1>2, PTL DEF AllSpec, Spec

LedgerInv == LedgerTyped /\ RowsInv /\ FlowInv /\ RecordInv /\ DayInv

LEMMA LedgerKept == AllSpec => []LedgerInv
  <1>1. AllInit => LedgerInv
    BY LedgerTypeStart, FlowStart, DayStart DEF AllInit, LedgerInv
  <1>2. LedgerInv /\ [AllNext]_all => LedgerInv'
    <2> SUFFICES ASSUME LedgerInv, [AllNext]_all PROVE LedgerInv'
      OBVIOUS
    <2>1. [Ledger!Next]_ledgerVars
      BY DeskSteps
    <2>2. LedgerTyped /\ RowsInv /\ FlowInv /\ RecordInv /\ DayInv
      BY DEF LedgerInv
    <2>3. LedgerTyped' /\ RowsInv'
      BY <2>1, <2>2, LedgerTypeKeeps, RowsKeeps
    <2>4. FlowInv' /\ RecordInv'
      BY <2>1, <2>2, FlowKeeps
    <2>5. DayInv'
      BY <2>1, <2>2, DayKeeps
    <2>6. QED
      BY <2>3, <2>4, <2>5 DEF LedgerInv
  <1>3. QED
    BY <1>1, <1>2, PTL DEF AllSpec

\* As long as only reductions close, the profit the stream gave to risk control
\* (handleOrderUpdate and its helpers) is the table's: exactly while nothing
\* failed, and never less than the table's, whatever statements fail, fills are
\* partial, events are lost and goroutines come late.
THEOREM DayIsTheTables == AllSpec => []DayMatchesTable
  <1>1. LedgerInv => DayMatchesTable
    BY TableSum DEF LedgerInv, DayInv, NoCounter, Profit, DayMatchesTable,
                    Ledger!DayMatchesTable
  <1>2. QED
    BY <1>1, LedgerKept, PTL

\* A record that was closed or cancelled is never opened again: neither by the
\* goroutine that comes late with its OPEN (mergeTradeRecord) nor by the
\* handler that writes back the whole record it read before
\* (updateTradeFromOrder, updateOpenTradeWithPnl).
THEOREM EndedRecordsStay == AllSpec => EndedStaysEnded
  <1> DEFINE Keep == \A r \in DOMAIN ledger_recs :
                        ledger_recs[r].status # "OPEN" => ledger_recs'[r].status # "OPEN"
  <1>1. LedgerInv /\ [AllNext]_all => [Keep]_ledger_recs
    <2> SUFFICES ASSUME LedgerInv, [AllNext]_all, ledger_recs' # ledger_recs PROVE Keep
      OBVIOUS
    <2>1. [Ledger!Next]_ledgerVars
      BY DeskSteps
    <2>2. Ledger!Next
      BY <2>1 DEF ledgerVars
    <2>3. LedgerTyped /\ RowsInv
      BY DEF LedgerInv
    <2>4. ledger_recs' = ledger_recs \/ (\E x : Added(x)) \/ (\E r, x : Changed(r, x))
      BY <2>2, <2>3, TableSteps
    <2>5. \A r \in Rows : ledger_recs[r].status # "OPEN" => ledger_recs'[r].status # "OPEN"
      BY <2>3, <2>4, RowsKept
    <2>6. DOMAIN ledger_recs = Rows
      BY <2>3 DEF LedgerTyped, Rows
    <2>7. QED
      BY <2>5, <2>6
  <1>2. QED
    BY <1>1, LedgerKept, PTL DEF AllSpec, EndedStaysEnded, Ledger!EndedStaysEnded

-----------------------------------------------------------------------------
(***************************************************************************)
(* The sizes of an order, and the watcher.                                 *)
(***************************************************************************)

\* The watcher's quantities are rounded by the same rules.
LEMMA SameRules ==
  ASSUME NEW q, NEW p
  PROVE  /\ Watcher!Share(q, p) = Share(q, p)
         /\ Watcher!Formatted(Watcher!RoundToStep(q, 1)) = Formatted(RoundToStep(q, 1))
  BY DEF Watcher!Share, Watcher!Formatted, Watcher!RoundToStep, Watcher!Stripped,
         Watcher!Max, Watcher!Tens, Share, Formatted, RoundToStep, Stripped, Max, Tens

\* With digits after the point a share is rounded down, by less than a step.
LEMMA ShareExact ==
  ASSUME Precision # 0, NEW q \in Nat, NEW p \in Nat
  PROVE  /\ Share(q, p) \in Nat
         /\ 100 * Share(q, p) <= p * q
         /\ p * q < 100 * (Share(q, p) + Step)
         /\ p = 100 /\ q % Step = 0 => Share(q, p) = q
  <1>1. PICK n \in Nat : n = q * p
    OBVIOUS
  <1>2. PICK r \in Nat : r = RoundToStep(n, 100) /\ r * 100 <= n /\ n < (r + Step) * 100
    BY RoundFacts
  <1>3. Share(q, p) = r
    BY <1>1, <1>2, FormattedFacts DEF Share
  <1>4. p * q = n
    BY <1>1
  <1>5. ASSUME p = 100, q % Step = 0 PROVE r = q
    <2>1. PICK s \in Nat \ {0} : s = Step
      BY StepAssumption
    <2>2. PICK k \in Nat : k = q \div s /\ q = k * s
      BY <1>5, <2>1
    <2>3. n = k * (100 * s) /\ 100 * s \in Nat \ {0}
      BY <1>1, <1>5, <2>2
    <2>4. n \div (100 * s) = k
      BY <2>3, Multiple
    <2>5. QED
      BY <1>2, <2>1, <2>2, <2>4 DEF RoundToStep
  <1>6. QED
    BY <1>2, <1>3, <1>4, <1>5, StepAssumption

\* A whole position is a whole position.
LEMMA WholeExact ==
  ASSUME Precision # 0, NEW q \in Nat, q % Step = 0
  PROVE  Formatted(RoundToStep(q, 1)) = q
  <1>1. PICK s \in Nat \ {0} : s = Step
    BY StepAssumption
  <1>2. PICK k \in Nat : q = k * s
    BY <1>1
  <1>3. RoundToStep(q, 1) = q
    BY <1>1, <1>2, RoundExact
  <1>4. QED
    BY <1>3, FormattedFacts

LEMMA NumberAsked ==
  ASSUME watch_req \in Watcher!Requests
  PROVE  /\ watch_req.n \in Nat
         /\ watch_req.kind \in {"quantity", "percent", "close", "reverse"}
  <1>1. Percents \subseteq Nat /\ Amounts \subseteq Nat
    BY WatcherAssumption DEF Watcher!RequestAssumption
  <1>2. CASE watch_req \in [kind : {"quantity"}, n : Amounts, ends : {FALSE}]
    BY <1>1, <1>2
  <1>3. CASE watch_req \in [kind : {"percent"}, n : Percents, ends : {FALSE}]
    BY <1>1, <1>3
  <1>4. CASE watch_req \in [kind : {"close"}, n : {0}, ends : BOOLEAN]
    BY <1>4
  <1>5. CASE watch_req \in [kind : {"reverse"}, n : Amounts, ends : {FALSE}]
    BY <1>1, <1>5
  <1>6. QED
    BY <1>2, <1>3, <1>4, <1>5 DEF Watcher!Requests

LEMMA AskedFacts ==
  ASSUME watch_req \in Watcher!Requests, NEW q \in Nat
  PROVE  /\ Watcher!Asked(q) \in Nat
         /\ (Precision # 0 /\ watch_req.kind = "percent") =>
              /\ 100 * Watcher!Asked(q) <= watch_req.n * q
              /\ watch_req.n * q < 100 * (Watcher!Asked(q) + Step)
         /\ (/\ Precision # 0 /\ q % Step = 0
             /\ watch_req.kind = "close" \/ (watch_req.kind = "percent" /\ watch_req.n = 100)) =>
              Watcher!Asked(q) = q
  <1>1. /\ watch_req.n \in Nat
        /\ watch_req.kind \in {"quantity", "percent", "close", "reverse"}
    BY NumberAsked
  <1>2. CASE watch_req.kind = "quantity"
    <2>1. Watcher!Asked(q) = Formatted(RoundToStep(watch_req.n, 1))
      BY <1>2, SameRules DEF Watcher!Asked
    <2>2. PICK r \in Nat : r = RoundToStep(watch_req.n, 1)
      BY <1>1, RoundFacts
    <2>3. QED
      BY <1>2, <2>1, <2>2, FormattedFacts
  <1>3. CASE watch_req.kind = "percent"
    <2>1. Watcher!Asked(q) = Share(q, watch_req.n)
      BY <1>3, SameRules DEF Watcher!Asked
    <2>2. QED
      BY <1>1, <1>3, <2>1, ShareFacts, ShareExact
  <1>4. CASE watch_req.kind \in {"close", "reverse"}
    <2>1. Watcher!Asked(q) = Formatted(RoundToStep(q, 1))
      BY <1>4, SameRules DEF Watcher!Asked
    <2>2. PICK r \in Nat : r = RoundToStep(q, 1)
      BY RoundFacts
    <2>3. QED
      BY <1>4, <2>1, <2>2, FormattedFacts, WholeExact
  <1>5. QED
    BY <1>1, <1>2, <1>3, <1>4

\* What the watcher keeps.  Its request is sized when the position is found;
\* until an order is sent the position is the one it found, and a plain order
\* never has more left to sell than the position, unless the user, or the
\* other half of a reversal, has changed it.
WatchTyped ==
  /\ Watcher!TypeOK
  /\ watch_step \in {"find", "send"} => watch_order = Watcher!NoOrder
  /\ watch_step = "find" => watch_qty = 0 /\ watch_seen = 0 /\ watch_pos >= 0
                            /\ watch_pos % Step = 0
  /\ watch_step = "place" => ~Watcher!Live

WatchInv ==
  /\ WatchTyped
  /\ Precision # 0 => Watcher!ReductionFits
  /\ watch_manuals = 0 /\ ~watch_opened /\ watch_qty <= watch_seen =>
       /\ watch_pos >= 0
       /\ watch_step = "send" => watch_pos = watch_seen
       /\ Watcher!Live /\ ~watch_order.ro => watch_order.left <= watch_pos
  /\ Watcher!AbandonedOnlyAfterError

LEMMA WatchStart == Watcher!Init => WatchInv
  <1> SUFFICES ASSUME Watcher!Init PROVE WatchInv
    OBVIOUS
  <1> USE DEF Watcher!Init
  <1>1. watch_pos \in Nat \ {0} /\ watch_pos % Step = 0 /\ MaxRetries \in Nat
    BY WatcherAssumption DEF Watcher!HeldAssumption, Watcher!WatchAssumption
  <1>2. /\ watch_order = [status |-> "none", left |-> 0, ro |-> TRUE]
        /\ ~Watcher!Live
    BY DEF Watcher!NoOrder, Watcher!Live
  <1>3. watch_order \in [status : Watcher!Statuses, left : 0 .. watch_qty, ro : BOOLEAN]
        /\ watch_order.status # "FILLED"
    BY <1>2 DEF Watcher!Statuses
  <1>4. Watcher!TypeOK
    <2>1. watch_pos \in Int /\ watch_step \in Watcher!Steps /\ watch_attempt \in 0 .. MaxRetries
      BY <1>1 DEF Watcher!Steps
    <2>2. QED
      BY <1>3, <2>1 DEF Watcher!TypeOK
  <1>5. QED
    BY <1>1, <1>2, <1>4
    DEF WatchInv, WatchTyped, Watcher!ReductionFits, Watcher!AbandonedOnlyAfterError

\* The order after a step: its status and what is left of it.
LEMMA OrderFacts ==
  ASSUME Watcher!TypeOK
  PROVE  /\ watch_order.left \in Nat /\ watch_order.left <= watch_qty
         /\ watch_order.status \in Watcher!Statuses /\ watch_order.ro \in BOOLEAN
         /\ watch_qty \in Nat /\ watch_seen \in Nat /\ watch_pos \in Int
         /\ watch_sold \in Nat
         /\ watch_order = [status |-> watch_order.status, left |-> watch_order.left,
                           ro |-> watch_order.ro]
  BY DEF Watcher!TypeOK

\* An order that was cancelled or has expired.
LEMMA CancelledFacts ==
  ASSUME Watcher!TypeOK,
         watch_order' = [watch_order EXCEPT !.status = "CANCELED"]
         \/ watch_order' = [watch_order EXCEPT !.status = "EXPIRED"]
  PROVE  /\ watch_order' \in [status : Watcher!Statuses, left : 0 .. watch_qty, ro : BOOLEAN]
         /\ watch_order'.status \in {"CANCELED", "EXPIRED"}
  BY DEF Watcher!TypeOK, Watcher!Statuses

LEMMA WatchKeeps ==
  ASSUME WatchInv, [Watcher!Next]_watchVars
  PROVE  WatchInv'
  <1> USE DEF Watcher!Live, Watcher!AbandonedOnlyAfterError, Watcher!Statuses, Watcher!Steps
  <1>a. /\ Watcher!TypeOK /\ WatchTyped /\ MaxRetries \in Nat
        /\ watch_order.left \in Nat /\ watch_order.left <= watch_qty
        /\ watch_qty \in Nat /\ watch_seen \in Nat /\ watch_pos \in Int
    BY WatcherAssumption, OrderFacts DEF WatchInv, WatchTyped, Watcher!WatchAssumption
  <1>b. ASSUME UNCHANGED <<watch_req, watch_seen, watch_qty>>, watch_step # "find",
               Precision # 0
        PROVE  Watcher!ReductionFits'
    BY <1>b DEF WatchInv, Watcher!ReductionFits
  <1>1. CASE UNCHANGED watchVars
    BY <1>1
    DEF watchVars, WatchInv, WatchTyped, Watcher!TypeOK, Watcher!ReductionFits
  <1>2. CASE Watcher!Find
    <2> USE <1>2 DEF Watcher!Find
    <2>1. CASE watch_pos > 0
      <3>1. watch_qty' \in Nat /\ watch_qty' = Watcher!Asked(watch_pos)
        BY <1>a, <2>1, AskedFacts DEF Watcher!TypeOK
      <3>2. /\ watch_step = "find" /\ watch_seen' = watch_pos /\ watch_step' = "send"
            /\ watch_order = Watcher!NoOrder
            /\ UNCHANGED <<watch_req, watch_pos, watch_order, watch_attempt, watch_opened,
                           watch_sold, watch_errors, watch_manuals>>
        BY <2>1 DEF WatchInv, WatchTyped
      <3>3. watch_order = [status |-> "none", left |-> 0, ro |-> TRUE]
        BY <3>2 DEF Watcher!NoOrder
      <3>4. WatchTyped'
        BY <1>a, <2>1, <3>1, <3>2, <3>3 DEF WatchTyped, Watcher!TypeOK, Watcher!NoOrder
      <3>5. Precision # 0 => Watcher!ReductionFits'
        <4>1. watch_pos \in Nat /\ watch_pos % Step = 0 /\ watch_req \in Watcher!Requests
          BY <1>a, <2>1, <3>2 DEF WatchTyped, Watcher!TypeOK
        <4>2. QED
          BY <3>1, <3>2, <4>1, AskedFacts DEF Watcher!ReductionFits
      <3>6. QED
        BY <1>a, <2>1, <3>2, <3>3, <3>4, <3>5 DEF WatchInv
    <2>2. CASE ~(watch_pos > 0)
      BY <1>a, <2>2 DEF WatchInv, WatchTyped, Watcher!TypeOK, Watcher!ReductionFits,
                        Watcher!NoOrder
    <2>3. QED
      BY <2>1, <2>2
  <1>3. ASSUME NEW ro \in BOOLEAN, Watcher!Send(ro) PROVE WatchInv'
    <2>1. watch_order' = [status |-> "NEW", left |-> watch_qty, ro |-> ro]
          /\ watch_step = "send" /\ watch_step' = "sleep"
          /\ UNCHANGED <<watch_req, watch_seen, watch_qty, watch_pos, watch_attempt,
                         watch_opened, watch_sold, watch_errors, watch_manuals>>
      BY <1>3 DEF Watcher!Send, Watcher!Resting
    <2>2. WatchTyped'
      BY <1>a, <2>1 DEF WatchTyped, Watcher!TypeOK
    <2>3. QED
      BY <1>a, <1>b, <2>1, <2>2 DEF WatchInv
  <1>4. CASE Watcher!Refuse
    <2>1. /\ watch_step = "send" /\ watch_step' = "done"
          /\ UNCHANGED <<watch_req, watch_seen, watch_qty, watch_pos, watch_order,
                         watch_attempt, watch_opened, watch_sold, watch_manuals>>
          /\ watch_errors' \in {watch_errors, watch_errors + 1}
      BY <1>4 DEF Watcher!Refuse, Watcher!Fails
    <2>2. WatchTyped' /\ watch_order.status = "none"
      BY <1>a, <2>1 DEF WatchTyped, Watcher!TypeOK, Watcher!NoOrder
    <2>3. QED
      BY <1>a, <1>b, <2>1, <2>2 DEF WatchInv
  <1>5. CASE Watcher!OpenReverse
    <2>1. /\ watch_opened' = TRUE /\ watch_pos' = watch_pos - watch_req.n
          /\ watch_order # Watcher!NoOrder
          /\ UNCHANGED <<watch_req, watch_seen, watch_qty, watch_order, watch_step,
                         watch_attempt, watch_sold, watch_errors, watch_manuals>>
      BY <1>5 DEF Watcher!OpenReverse
    <2>2. watch_step \notin {"find", "send"}
      BY <1>a, <2>1 DEF WatchTyped
    <2>3. watch_req.n \in Nat
      BY <1>a, NumberAsked DEF Watcher!TypeOK
    <2>4. WatchTyped'
      BY <1>a, <2>1, <2>2, <2>3 DEF WatchTyped, Watcher!TypeOK
    <2>5. QED
      BY <1>a, <1>b, <2>1, <2>2, <2>4 DEF WatchInv
  <1>6. CASE Watcher!Query \/ Watcher!QueryFails
    <2>1. /\ watch_step = "sleep" /\ watch_step' \in {"cancel", "done"}
          /\ UNCHANGED <<watch_req, watch_seen, watch_qty, watch_pos, watch_order,
                         watch_attempt, watch_opened, watch_sold, watch_manuals>>
          /\ watch_errors' \in {watch_errors, watch_errors + 1}
          /\ watch_step' = "done" /\ Watcher!Live => watch_errors' = watch_errors + 1 \/ watch_req.ends
      BY <1>6 DEF Watcher!Query, Watcher!QueryFails, Watcher!Unfilled, Watcher!Fails
    <2>2. WatchTyped'
      BY <1>a, <2>1 DEF WatchTyped, Watcher!TypeOK
    <2>3. watch_errors \in Nat
      BY <1>a DEF Watcher!TypeOK
    <2>4. QED
      BY <1>a, <1>b, <2>1, <2>2, <2>3 DEF WatchInv
  <1>7. CASE Watcher!Cancel \/ Watcher!CancelFails
    <2>1. /\ watch_step = "cancel" /\ watch_step' \in {"place", "done"}
          /\ UNCHANGED <<watch_req, watch_seen, watch_qty, watch_pos,
                         watch_attempt, watch_opened, watch_sold, watch_manuals>>
          /\ watch_errors' \in {watch_errors, watch_errors + 1}
          /\ \/ watch_order' = watch_order
             \/ watch_order' = [watch_order EXCEPT !.status = "CANCELED"]
          /\ watch_step' = "place" => watch_order' = [watch_order EXCEPT !.status = "CANCELED"]
          /\ watch_step' = "done" => ~Watcher!Live \/ watch_errors' = watch_errors + 1
      BY <1>7 DEF Watcher!Cancel, Watcher!CancelFails, Watcher!Fails
    <2>2. watch_errors \in Nat
      BY <1>a DEF Watcher!TypeOK
    <2>3. CASE watch_order' = watch_order /\ watch_step' = "done"
      <3>1. WatchTyped'
        BY <1>a, <2>1, <2>3 DEF WatchTyped, Watcher!TypeOK
      <3>2. QED
        BY <1>a, <1>b, <2>1, <2>2, <2>3, <3>1 DEF WatchInv
    <2>4. CASE watch_order' = [watch_order EXCEPT !.status = "CANCELED"]
      <3>1. /\ watch_order' \in [status : Watcher!Statuses, left : 0 .. watch_qty, ro : BOOLEAN]
            /\ watch_order'.status \in {"CANCELED", "EXPIRED"}
        BY <1>a, <2>4, CancelledFacts
      <3>2. WatchTyped'
        BY <1>a, <2>1, <3>1 DEF WatchTyped, Watcher!TypeOK
      <3>3. QED
        BY <1>a, <1>b, <2>1, <2>2, <3>1, <3>2 DEF WatchInv
    <2>5. QED
      BY <2>1, <2>3, <2>4
  <1>8. CASE Watcher!Replace \/ Watcher!PlaceFails
    <2>1. /\ watch_step = "place" /\ watch_step' \in {"sleep", "done"}
          /\ UNCHANGED <<watch_req, watch_seen, watch_qty, watch_pos,
                         watch_opened, watch_sold, watch_manuals>>
          /\ watch_attempt' \in {watch_attempt, watch_attempt + 1}
          /\ watch_attempt' = watch_attempt + 1 => watch_attempt < MaxRetries
          /\ watch_errors' \in {watch_errors, watch_errors + 1}
          /\ \/ watch_order' = watch_order
             \/ watch_order' = [status |-> "NEW", left |-> watch_qty, ro |-> TRUE]
          /\ (watch_order' # watch_order /\ watch_step' = "done")
               => watch_errors' = watch_errors + 1
      BY <1>8, <1>a DEF Watcher!Replace, Watcher!PlaceFails, Watcher!Fails, Watcher!LastTry,
                    Watcher!Replacement, Watcher!Resting, Watcher!TypeOK
    <2>2. watch_errors \in Nat /\ ~Watcher!Live
      BY <1>a, <2>1 DEF Watcher!TypeOK, WatchTyped
    <2>3. CASE watch_order' = watch_order
      <3>1. WatchTyped'
        BY <1>a, <2>1, <2>3 DEF WatchTyped, Watcher!TypeOK
      <3>2. QED
        BY <1>a, <1>b, <2>1, <2>2, <2>3, <3>1 DEF WatchInv
    <2>4. CASE watch_order' = [status |-> "NEW", left |-> watch_qty, ro |-> TRUE]
               /\ watch_order' # watch_order
      <3>1. WatchTyped'
        BY <1>a, <2>1, <2>4 DEF WatchTyped, Watcher!TypeOK
      <3>2. QED
        BY <1>a, <1>b, <2>1, <2>2, <2>4, <3>1 DEF WatchInv
    <2>5. QED
      BY <2>1, <2>3, <2>4
  <1>9. CASE Watcher!PlaceMarket
    <2> DEFINE q == IF watch_pos > 0 THEN Watcher!Least(watch_qty, watch_pos) ELSE 0
    <2>1. /\ watch_step = "place" /\ watch_step' = "done"
          /\ UNCHANGED <<watch_req, watch_seen, watch_qty, watch_attempt, watch_opened,
                         watch_errors, watch_manuals>>
          /\ watch_pos' = watch_pos - q /\ watch_sold' = watch_sold + q
          /\ watch_order' = IF q > 0 THEN [watch_order EXCEPT !.status = "FILLED", !.left = 0]
                            ELSE watch_order
      BY <1>9 DEF Watcher!PlaceMarket
    <2>2. q \in Nat /\ (watch_pos >= 0 => watch_pos - q >= 0)
      BY <1>a DEF Watcher!Least
    <2> HIDE DEF q
    <2>3. /\ watch_order' \in [status : Watcher!Statuses, left : 0 .. watch_qty, ro : BOOLEAN]
          /\ watch_order'.status \notin {"NEW", "PARTIALLY_FILLED"}
          /\ watch_order'.status = "FILLED" => watch_order'.left = 0
      <3>1. CASE q > 0
        <4>1. watch_order' = [status |-> "FILLED", left |-> 0, ro |-> watch_order.ro]
          BY <2>1, <3>1, OrderFacts, <1>a
        <4>2. QED
          BY <1>a, <4>1, OrderFacts
      <3>2. CASE ~(q > 0)
        BY <1>a, <2>1, <3>2 DEF Watcher!TypeOK, WatchTyped
      <3>3. QED
        BY <3>1, <3>2
    <2>4. WatchTyped'
      BY <1>a, <2>1, <2>2, <2>3 DEF WatchTyped, Watcher!TypeOK
    <2>5. QED
      BY <1>a, <1>b, <2>1, <2>2, <2>3, <2>4 DEF WatchInv
  <1>10. ASSUME NEW k \in 1 .. watch_order.left \div Step, Watcher!Fill(k * Step)
         PROVE  WatchInv'
    <2>1. PICK q \in Nat : q = k * Step
      BY <1>a, StepAssumption
    <2>2. /\ Watcher!Live /\ q <= watch_order.left /\ (watch_order.ro => q <= watch_pos)
          /\ watch_order' = [watch_order EXCEPT !.left = @ - q,
                 !.status = IF q = watch_order.left THEN "FILLED" ELSE "PARTIALLY_FILLED"]
          /\ watch_pos' = watch_pos - q /\ watch_sold' = watch_sold + q
          /\ UNCHANGED <<watch_req, watch_seen, watch_qty, watch_step, watch_attempt,
                         watch_opened, watch_errors, watch_manuals>>
      BY <1>10, <2>1 DEF Watcher!Fill
    <2>3. /\ watch_order' \in [status : Watcher!Statuses, left : 0 .. watch_qty, ro : BOOLEAN]
          /\ watch_order'.left = watch_order.left - q /\ watch_order'.ro = watch_order.ro
          /\ watch_order'.status = "FILLED" => watch_order'.left = 0
      <3> DEFINE st == IF q = watch_order.left THEN "FILLED" ELSE "PARTIALLY_FILLED"
                 l  == watch_order.left - q
      <3>1. watch_order' = [status |-> st, left |-> l, ro |-> watch_order.ro]
        BY <1>a, <2>2, OrderFacts
      <3>2. st \in {"FILLED", "PARTIALLY_FILLED"} /\ l \in 0 .. watch_qty
            /\ (st = "FILLED" => l = 0)
        BY <1>a, <2>2
      <3> HIDE DEF st, l
      <3>3. /\ watch_order'.status = st /\ watch_order'.left = l
            /\ watch_order'.ro = watch_order.ro /\ watch_order.ro \in BOOLEAN
            /\ watch_order' \in [status : Watcher!Statuses, left : 0 .. watch_qty, ro : BOOLEAN]
        BY <1>a, <3>1, <3>2, OrderFacts
      <3>4. QED
        BY <3>2, <3>3 DEF l
    <2>4. watch_step \notin {"find", "send", "place"}
      BY <1>a, <2>2 DEF WatchTyped, Watcher!NoOrder
    <2>5. WatchTyped'
      BY <1>a, <2>1, <2>2, <2>3, <2>4 DEF WatchTyped, Watcher!TypeOK
    <2>6. QED
      BY <1>a, <1>b, <2>1, <2>2, <2>3, <2>4, <2>5 DEF WatchInv
  <1>11. CASE Watcher!Expire
    <2>1. /\ watch_order' = [watch_order EXCEPT !.status = "EXPIRED"] /\ Watcher!Live
          /\ UNCHANGED <<watch_req, watch_seen, watch_qty, watch_pos, watch_step,
                         watch_attempt, watch_opened, watch_sold, watch_errors, watch_manuals>>
      BY <1>11 DEF Watcher!Expire
    <2>2. /\ watch_order' \in [status : Watcher!Statuses, left : 0 .. watch_qty, ro : BOOLEAN]
          /\ watch_order'.status \in {"CANCELED", "EXPIRED"}
      BY <1>a, <2>1, CancelledFacts
    <2>3. watch_step \notin {"find", "send", "place"}
      BY <1>a, <2>1 DEF WatchTyped, Watcher!NoOrder
    <2>4. WatchTyped'
      BY <1>a, <2>1, <2>2, <2>3 DEF WatchTyped, Watcher!TypeOK
    <2>5. QED
      BY <1>a, <1>b, <2>1, <2>2, <2>3, <2>4 DEF WatchInv
  <1>12. CASE Watcher!ByHand
    <2>1. /\ watch_manuals' = watch_manuals + 1 /\ watch_manuals \in Nat
          /\ UNCHANGED <<watch_req, watch_seen, watch_qty, watch_step, watch_attempt,
                         watch_opened, watch_sold, watch_errors>>
      BY <1>12, <1>a DEF Watcher!ByHand, Watcher!TypeOK
    <2>2. /\ watch_pos' \in Int
          /\ watch_step = "find" => watch_pos' >= 0 /\ watch_pos' % Step = 0
      <3>1. CASE UNCHANGED watch_pos
        BY <1>a, <3>1 DEF WatchTyped
      <3>2. ASSUME NEW k \in 1 .. watch_pos \div Step, watch_pos' = watch_pos - k * Step,
                   watch_pos > 0
            PROVE  /\ watch_pos' \in Int
                   /\ watch_step = "find" => watch_pos' >= 0 /\ watch_pos' % Step = 0
        <4>1. PICK s \in Nat \ {0} : s = Step
          BY StepAssumption
        <4>2. PICK j \in Nat : j = watch_pos \div s /\ j * s <= watch_pos
          BY <1>a, <3>2, <4>1, Quotient
        <4>3. k <= j /\ k \in Nat
          BY <3>2, <4>1, <4>2
        <4>4. k * s <= j * s /\ k * s \in Nat
          BY <4>3
        <4>5. watch_pos' \in Int /\ watch_pos' >= 0
          BY <1>a, <3>2, <4>1, <4>2, <4>4
        <4>6. watch_pos % s = 0 => watch_pos' % s = 0
          <5>1. ASSUME watch_pos % s = 0 PROVE watch_pos' % s = 0
            <6>1. watch_pos = j * s
              BY <1>a, <3>2, <4>2, <5>1
            <6>2. PICK i \in Nat : i = j - k
              BY <4>3
            <6>3. watch_pos' = i * s
              BY <3>2, <4>1, <4>3, <6>1, <6>2
            <6>4. QED
              BY <6>3, Multiple
          <5>2. QED
            BY <5>1
        <4>7. QED
          BY <1>a, <4>1, <4>5, <4>6 DEF WatchTyped
      <3>3. QED
        BY <1>12, <3>1, <3>2 DEF Watcher!ByHand
    <2>3. /\ watch_order' \in [status : Watcher!Statuses, left : 0 .. watch_qty, ro : BOOLEAN]
          /\ watch_order'.status = "FILLED" => watch_order'.left = 0
          /\ watch_order' = watch_order \/ Watcher!Live
          /\ watch_order' = watch_order \/ watch_order'.status = "CANCELED"
      <3>1. CASE watch_order' = watch_order
        BY <1>a, <3>1 DEF Watcher!TypeOK
      <3>2. CASE Watcher!Live /\ watch_order' = [watch_order EXCEPT !.status = "CANCELED"]
        BY <1>a, <3>2, CancelledFacts, OrderFacts
      <3>3. QED
        BY <1>12, <3>1, <3>2 DEF Watcher!ByHand
    <2>4. watch_step \in {"find", "send", "place"} => watch_order' = watch_order
      BY <1>a, <2>3 DEF WatchTyped, Watcher!NoOrder
    <2>5. WatchTyped'
      BY <1>a, <2>1, <2>2, <2>3, <2>4 DEF WatchTyped, Watcher!TypeOK
    <2>6. /\ Precision # 0 => Watcher!ReductionFits'
          /\ Watcher!AbandonedOnlyAfterError'
      <3>1. Watcher!AbandonedOnlyAfterError'
        BY <2>1, <2>3 DEF WatchInv
      <3>2. Precision # 0 => Watcher!ReductionFits'
        BY <2>1 DEF WatchInv, Watcher!ReductionFits
      <3>3. QED
        BY <3>1, <3>2
    <2>7. QED
      BY <2>1, <2>5, <2>6 DEF WatchInv
  <1>13. QED
    BY <1>1, <1>2, <1>3, <1>4, <1>5, <1>6, <1>7, <1>8, <1>9, <1>10, <1>11, <1>12
    DEF Watcher!Next, Watcher!Placing, Watcher!Watch, watchVars, Watcher!vars

-----------------------------------------------------------------------------
(* The sizes of an order and of its levels, which are fixed when it opens.  *)

\* Each x of U gives more than its share, so together they give more.
LEMMA SumAbove ==
  ASSUME NEW f, NEW g, NEW U, IsFiniteSet(U), U # {},
         NEW a \in Nat, NEW b \in Nat, NEW c \in Nat,
         \A x \in U : f[x] \in Nat /\ g[x] \in Nat /\ a * f[x] < b * (g[x] + c)
  PROVE  a * SumFunctionOnSet(f, U) < b * (SumFunctionOnSet(g, U) + c * Cardinality(U))
  <1> DEFINE F(s) == SumFunctionOnSet(f, s)
             G(s) == SumFunctionOnSet(g, s)
             N(s) == Cardinality(s)
             T == {s \in SUBSET U : IF s = {} THEN TRUE ELSE a * F(s) < b * (G(s) + c * N(s))}
  <1>1. ASSUME NEW s \in SUBSET U, \A r \in SUBSET s : r # s => r \in T
        PROVE  s \in T
    <2>1. CASE s = {}
      BY <2>1
    <2>2. CASE s # {}
      <3> DEFINE p == Pick(s)
                 r == s \ {p}
      <3>1. p \in s /\ r \in T /\ IsFiniteSet(s) /\ IsFiniteSet(r)
        BY <1>1, <2>2, PickIn, FS_Subset
      <3>2. F(s) = f[p] + F(r) /\ G(s) = g[p] + G(r)
        BY <2>2, <3>1, SumPicks
      <3>3. F(r) \in Nat /\ G(r) \in Nat
        BY <3>1, SumNat
      <3>4. f[p] \in Nat /\ g[p] \in Nat /\ a * f[p] < b * (g[p] + c)
        BY <3>1
      <3>5. N(s) = N(r) + 1 /\ N(r) \in Nat
        BY <3>1, FS_RemoveElement, FS_CardinalityType
      <3>6. r = {} => F(r) = 0 /\ G(r) = 0 /\ N(r) = 0
        BY SumEmpty, FS_EmptySet
      <3>7. r # {} => a * F(r) < b * (G(r) + c * N(r))
        BY <3>1
      <3> DEFINE F1 == F(r)
                 G1 == G(r)
                 N1 == N(r)
                 x  == f[p]
                 y  == g[p]
      <3>8. /\ F1 \in Nat /\ G1 \in Nat /\ N1 \in Nat /\ x \in Nat /\ y \in Nat
            /\ F(s) = x + F1 /\ G(s) = y + G1 /\ N(s) = N1 + 1
            /\ a * x < b * (y + c)
            /\ (F1 = 0 /\ G1 = 0 /\ N1 = 0) \/ a * F1 < b * (G1 + c * N1)
        BY <3>2, <3>3, <3>4, <3>5, <3>6, <3>7
      <3> HIDE DEF F1, G1, N1, x, y, F, G, N
      <3>9. a * (x + F1) = a * x + a * F1
        BY <3>8
      <3>10. b * ((y + G1) + c * (N1 + 1)) = b * (y + c) + b * (G1 + c * N1)
        <4>1. PICK d \in Nat : d = c * N1
          BY <3>8
        <4>2. c * (N1 + 1) = d + c
          BY <3>8, <4>1
        <4>3. b * ((y + G1) + (d + c)) = b * (y + c) + b * (G1 + d)
          BY <3>8, <4>1
        <4>4. QED
          BY <4>1, <4>2, <4>3
      <3>11. a * F1 <= b * (G1 + c * N1)
        BY <3>8
      <3>12. /\ a * x \in Nat /\ a * F1 \in Nat /\ b * (y + c) \in Nat
             /\ b * (G1 + c * N1) \in Nat
        <4>1. PICK d \in Nat : d = c * N1
          BY <3>8
        <4>2. QED
          BY <3>8, <4>1
      <3>13. a * F(s) < b * (G(s) + c * N(s))
        <4> DEFINE h1 == a * x
                   h2 == a * F1
                   h3 == b * (y + c)
                   h4 == b * (G1 + c * N1)
        <4>1. h1 \in Nat /\ h2 \in Nat /\ h3 \in Nat /\ h4 \in Nat /\ h1 < h3 /\ h2 <= h4
          BY <3>8, <3>11, <3>12
        <4>2. a * F(s) = h1 + h2 /\ b * (G(s) + c * N(s)) = h3 + h4
          BY <3>8, <3>9, <3>10
        <4> HIDE DEF h1, h2, h3, h4
        <4>3. QED
          BY <4>1, <4>2
      <3>14. QED
        BY <2>2, <3>13 DEF F, G, N
    <2>3. QED
      BY <2>1, <2>2
  <1>2. SUBSET U \subseteq T
    <2> HIDE DEF T
    <2>1. QED
      BY <1>1, SubsetInduction
  <1>3. QED
    BY <1>2

\* What calculateQuantityFromUSDT lets through, and the levels of a ladder.
LEMMA SizeFacts ==
  ASSUME Precision # 0, plan \in Orders, bought = OpenQuantity(plan), bought > 0
  PROVE  SizesFit
  <1>1. PICK n \in Int : n = plan.usdt * plan.leverage * 10 ^ Precision
    <2>1. plan.usdt \in Nat /\ plan.leverage \in Nat
      BY OrderAssumption
    <2>2. 10 ^ Precision \in Int
      BY PrecisionAssumption
    <2>3. QED
      BY <2>1, <2>2
  <1>2. PICK s \in Nat \ {0}, e \in Nat \ {0} : s = Step /\ e = Entry
    BY StepAssumption, PriceAssumption
  <1>3. PICK k \in Int : k = n \div (e * s)
    BY <1>2
  <1>4. k * (e * s) <= n /\ n < k * (e * s) + e * s
    <2>1. PICK d \in Nat \ {0} : d = e * s
      BY <1>2
    <2>2. k = n \div d
      BY <1>3, <2>1
    <2>3. \A i \in Int, j \in Nat \ {0} : (i \div j) * j <= i /\ i < (i \div j) * j + j
      OBVIOUS
    <2>4. k * d <= n /\ n < k * d + d
      BY <2>1, <2>2, <2>3, Zenon
    <2>5. QED
      BY <2>1, <2>4
  <1>5. RoundToStep(n, Entry) = k * s
    BY <1>2, <1>3 DEF RoundToStep
  <1>6. PICK r \in Int : r = k * s
    BY <1>2
  <1>7. /\ ~(r < MinQty) /\ ~(r * Entry < MinNotional * 10 ^ Precision)
        /\ bought = Formatted(r)
    BY <1>1, <1>5, <1>6 DEF OpenQuantity
  <1>8. r \in Nat /\ bought = r /\ k \in Nat
    <2>1. r >= MinQty /\ MinQty \in Nat
      BY <1>7, RuleAssumption
    <2>2. r \in Nat
      BY <2>1
    <2>3. k \in Nat
      BY <1>2, <1>6, <2>2
    <2>4. QED
      BY <1>7, <2>2, <2>3, FormattedFacts
  <1>9. OpeningFits
    <2>1. bought % Step = 0
      BY <1>2, <1>6, <1>8, Multiple
    <2>2. bought >= MinQty
      BY <1>7, <1>8, RuleAssumption
    <2>3. bought * Entry >= MinNotional * 10 ^ Precision
      <3>1. PICK m \in Int : m = MinNotional * 10 ^ Precision
        BY RuleAssumption, PrecisionAssumption
      <3>2. PICK w \in Int : w = r * Entry
        BY <1>2
      <3>3. QED
        BY <1>7, <1>8, <3>1, <3>2
    <2>4. r * e = k * (e * s) /\ (r + s) * e = k * (e * s) + e * s
      <3>1. r * e = k * (e * s)
        BY <1>2, <1>6, <1>8
      <3>2. (r + s) * e = r * e + e * s
        BY <1>2, <1>8
      <3>3. QED
        BY <3>1, <3>2
    <2>5. bought * Entry <= n /\ n < (bought + Step) * Entry
      BY <1>2, <1>4, <1>8, <2>4
    <2>6. QED
      BY <1>1, <2>1, <2>2, <2>3, <2>5 DEF OpeningFits
  <1>10. ASSUME plan.ladder PROVE 0 <= Dust /\ Dust < Step * Len(plan.rewards)
    <2> DEFINE p == plan.percents
    <2>1. /\ \A i \in Index : Parts[i] \in Nat /\ Parts[i] = LevelQty(TP(i))
          /\ SumFunction(Parts) = SumFunctionOnSet(Parts, Index)
          /\ SumFunction(Parts) \in Nat /\ SumFunction(Parts) <= bought
      BY <1>8, <1>10, LadderFacts
    <2>2. /\ IsFiniteSet(Index) /\ DOMAIN p = Index /\ SumFunction(p) = 100
          /\ \A i \in Index : p[i] \in Nat
      BY <1>10, PlanFacts
    <2>3. Index = 1 .. Len(plan.rewards) /\ Len(plan.rewards) \in Nat \ {0}
      BY OrderAssumption DEF Index
    <2>4. Cardinality(Index) = Len(plan.rewards) /\ Index # {}
      <3>1. PICK m \in Nat \ {0} : m = Len(plan.rewards)
        BY <2>3
      <3>2. Cardinality(1 .. m) = m
        BY FS_Interval
      <3>3. 1 \in 1 .. m
        OBVIOUS
      <3>4. QED
        BY <2>3, <3>1, <3>2, <3>3
    <2>5. ASSUME NEW i \in Index
          PROVE  p[i] \in Nat /\ Parts[i] \in Nat /\ bought * p[i] < 100 * (Parts[i] + Step)
      <3>1. Parts[i] = Share(bought, p[i])
        BY <1>10, <2>1, <2>5 DEF LevelQty, TP
      <3>2. PICK z \in Nat : z = p[i]
        BY <2>2, <2>5
      <3>3. Share(bought, z) \in Nat /\ z * bought < 100 * (Share(bought, z) + Step)
        BY <1>8, <3>2, ShareExact
      <3>4. z * bought = bought * z
        BY <1>8
      <3>5. QED
        BY <2>1, <3>1, <3>2, <3>3, <3>4
    <2>6. bought * SumFunctionOnSet(p, Index)
            < 100 * (SumFunctionOnSet(Parts, Index) + Step * Cardinality(Index))
      <3> HIDE DEF p
      <3>1. QED
        BY <1>2, <1>8, <2>2, <2>4, <2>5, SumAbove
    <2>7. SumFunctionOnSet(p, Index) = 100
      BY <2>2 DEF SumFunction
    <2>8. PICK u \in Nat, v \in Nat : u = SumFunction(Parts) /\ v = Step * Len(plan.rewards)
      BY <1>2, <2>1, <2>3
    <2>9. bought * 100 < 100 * (u + v)
      BY <2>1, <2>4, <2>6, <2>7, <2>8
    <2>10. bought - u < v /\ 0 <= bought - u
      BY <1>8, <2>1, <2>8, <2>9
    <2>11. QED
      BY <1>10, <2>8, <2>10 DEF Dust
  <1>11. QED
    BY <1>9, <1>10 DEF SizesFit, LadderFits

SizeInv == plan \in Orders /\ bought = OpenQuantity(plan) /\ bought > 0

LEMMA SizeKept == AllSpec => []SizeInv
  <1>1. AllInit => SizeInv
    BY DEF AllInit, Init, SizeInv
  <1>2. SizeInv /\ [AllNext]_all => SizeInv'
    <2> SUFFICES ASSUME SizeInv, [AllNext]_all PROVE SizeInv'
      OBVIOUS
    <2>1. [Next]_vars
      BY DeskSteps
    <2>2. UNCHANGED <<plan, bought>>
      BY <2>1 DEF vars, Next, Trigger, TriggerClosed, Follow, Link, Register, Move, Fill,
                  ReduceByHand, Visit
    <2>3. QED
      BY <2>2 DEF SizeInv, OpenQuantity
  <1>3. QED
    BY <1>1, <1>2, PTL DEF AllSpec

LEMMA WatchKept == AllSpec => []WatchInv
  <1>1. AllInit => WatchInv
    BY WatchStart DEF AllInit
  <1>2. WatchInv /\ [AllNext]_all => WatchInv'
    BY DeskSteps, WatchKeeps
  <1>3. QED
    BY <1>1, <1>2, PTL DEF AllSpec

\* Where quantities have digits after the point: an opening order meets every
\* filter of the exchange and is within its budget by less than a step, the
\* levels of a ladder leave less than a step each (calculateQuantityFromUSDT,
\* placeTPSLOrders), a reduction is the share that was asked for
\* (ReducePositionViaWs), and no interleaving of fills, cancellations and
\* orders placed again carries the position past zero (ensureOrderFilled).
THEOREM AllQuantitiesFit ==
  ASSUME Precision # 0
  PROVE  AllSpec => []QuantitiesFit
  <1>1. SizeInv /\ WatchInv => QuantitiesFit
    <2> SUFFICES ASSUME SizeInv, WatchInv PROVE QuantitiesFit
      OBVIOUS
    <2>1. SizesFit
      BY SizeFacts DEF SizeInv
    <2>2. Watcher!ReductionFits /\ Watcher!NeverTurnedRound
      BY DEF WatchInv, Watcher!NeverTurnedRound
    <2>3. QED
      BY <2>1, <2>2 DEF QuantitiesFit
  <1>2. QED
    BY <1>1, SizeKept, WatchKept, PTL

\* The watcher leaves no order on the book that it could have seen to: when it
\* is done with one that still rests, a request of its own failed or the
\* caller's context had ended (ensureOrderFilled).
THEOREM NothingAbandoned == AllSpec => [](Watcher!AbandonedOnlyAfterError)
  <1>1. WatchInv => Watcher!AbandonedOnlyAfterError
    BY DEF WatchInv
  <1>2. QED
    BY <1>1, WatchKept, PTL

-----------------------------------------------------------------------------
(***************************************************************************)
(* Types.  What a call gave up on and what a reconnect waits for are       *)
(* clients that were made, because a call that writes or waits has one.    *)
(***************************************************************************)
ClientsTyped ==
  /\ ws_slot \in Ws!Made \cup {Ws!None} /\ ws_made \in 0 .. MaxClient
  /\ ws_rc \in [pc : {"free", "close", "dial", "logon"}, old : Ws!Made \cup {Ws!None}]
  /\ ws_due \in [Ws!Client -> Nat] /\ ws_booted \in BOOLEAN
  /\ ws_up \subseteq ws_reading /\ ws_reading \subseteq Ws!Made
  /\ ws_stopped \subseteq Ws!Made \ ws_up

CallsTyped ==
  /\ ws_pending \in [Ws!Client -> SUBSET Call]
  /\ ws_pc \in [Call -> Ws!Places] /\ ws_via \in [Call -> Ws!Made \cup {Ws!None}]

NetworkTyped ==
  /\ ws_wire \subseteq Call
  /\ ws_answer \in [Call -> Ws!Answers] /\ ws_chan \in [Call -> Ws!Answers]
  /\ ws_placed \in [Call -> Nat]

CountsTyped == ws_breaks \in Nat /\ ws_rejects \in Nat /\ ws_logonFails \in Nat

\* The slot while a goroutine holds the mutex: closed and not yet emptied, or
\* empty.
SlotInv ==
  /\ ws_rc.pc \in {"dial", "logon"} => ws_slot = Ws!None
  /\ ws_rc.pc = "close" <=> ws_slot \in ws_stopped
  /\ ws_rc.pc = "logon" => ws_made # 0
  /\ ~ws_booted => ws_made = 0 /\ ws_slot = Ws!None /\ ws_rc = Ws!Free
  /\ \A n \in Ws!Client : ws_due[n] > 0 => n \in Ws!Made

\* A call that writes or waits does so on a client.
TakenInv == \A c \in Call : ws_pc[c] \in {"write", "wait"} => ws_via[c] # Ws!None

WsTypeInv ==
  /\ ClientsTyped /\ CallsTyped /\ NetworkTyped /\ CountsTyped
  /\ SlotInv /\ TakenInv

\* The cardinality of the component is the cardinality.
LEMMA SameCardinality == ASSUME NEW S PROVE Ws!Cardinality(S) = Cardinality(S)
  BY DEF Ws!Cardinality, Cardinality

LEMMA WsTypeInit ==
  ASSUME Ws!BoundAssumption, Ws!Init
  PROVE  WsTypeInv
  <1>1. MaxClient \in Nat
    BY DEF Ws!BoundAssumption
  <1>2. ClientsTyped
    <2>1. ws_booted \in BOOLEAN
      BY Zenon DEF Ws!Init
    <2>2. QED
      BY <1>1, <2>1 DEF Ws!Init, ClientsTyped, Ws!Made, Ws!None, Ws!Free, Ws!Client
  <1>3. CallsTyped /\ NetworkTyped /\ CountsTyped
    BY DEF Ws!Init, CallsTyped, NetworkTyped, CountsTyped, Ws!Made, Ws!None, Ws!Client,
       Ws!Places, Ws!Answers
  <1>4. SlotInv /\ TakenInv
    BY DEF Ws!Init, SlotInv, TakenInv, Ws!Free
  <1>5. QED
    BY <1>2, <1>3, <1>4 DEF WsTypeInv

\* The error path gives a reconnect to wait for to a client that was made.
LEMMA FallBackTyped ==
  ASSUME Ws!BoundAssumption, WsTypeInv, NEW c \in Call, Ws!FallBack(c),
         ws_pc[c] \in {"write", "wait"}
  PROVE  /\ ws_pc' \in [Call -> Ws!Places] /\ ws_due' \in [Ws!Client -> Nat]
         /\ \A n \in Ws!Client : ws_due'[n] > 0 => n \in Ws!Made
         /\ ws_pc'[c] = "rest" /\ \A d \in Call : d # c => ws_pc'[d] = ws_pc[d]
  BY DEF WsTypeInv, ClientsTyped, CallsTyped, SlotInv, TakenInv, Ws!FallBack, Ws!Places,
     Ws!Made, Ws!Client, Ws!None, Ws!BoundAssumption

LEMMA CallTyped ==
  ASSUME Ws!BoundAssumption, WsTypeInv, NEW c \in Call, Ws!CallStep(c)
  PROVE  WsTypeInv'
  <1> USE DEF WsTypeInv
  <1>1. CASE Ws!TakeClient(c)
    <2>1. UNCHANGED <<Ws!clients, Ws!network, Ws!counts>>
      BY <1>1 DEF Ws!TakeClient
    <2>2. ClientsTyped' /\ NetworkTyped' /\ CountsTyped' /\ SlotInv'
      BY <2>1
      DEF Ws!clients, Ws!network, Ws!counts, ClientsTyped, NetworkTyped, CountsTyped,
          SlotInv, Ws!Made
    <2>3. CallsTyped' /\ TakenInv'
      BY <1>1, <2>1
      DEF Ws!TakeClient, CallsTyped, TakenInv, ClientsTyped, Ws!Places, Ws!clients, Ws!Made,
          Ws!Client, Ws!None
    <2>4. QED
      BY <2>2, <2>3
  <1>2. CASE Ws!Write(c)
    <2>1. UNCHANGED <<Ws!clients, ws_via, ws_pending, ws_answer, ws_chan, ws_placed, Ws!counts>>
      BY <1>2 DEF Ws!Write
    <2>2. ClientsTyped' /\ CountsTyped' /\ SlotInv'
      BY <2>1 DEF Ws!clients, Ws!counts, ClientsTyped, CountsTyped, SlotInv, Ws!Made
    <2>3. NetworkTyped'
      BY <1>2, <2>1 DEF Ws!Write, NetworkTyped
    <2>4. CallsTyped' /\ TakenInv'
      BY <1>2, <2>1 DEF Ws!Write, CallsTyped, TakenInv, Ws!Places, Ws!clients, Ws!Made
    <2>5. QED
      BY <2>2, <2>3, <2>4
  <1>3. CASE Ws!WriteFails(c) \/ Ws!Timeout(c) \/ Ws!ClientClosed(c)
    <2>1. /\ UNCHANGED <<ws_slot, ws_rc, ws_booted, ws_made, ws_up, ws_reading, ws_stopped, ws_via,
                         Ws!network, Ws!counts>>
          /\ Ws!FallBack(c) /\ ws_pc[c] \in {"write", "wait"}
          /\ ws_pending' \in [Ws!Client -> SUBSET Call]
      BY <1>3 DEF Ws!WriteFails, Ws!Timeout, Ws!ClientClosed, CallsTyped
    <2>2. ClientsTyped' /\ SlotInv' /\ NetworkTyped' /\ CountsTyped'
      BY <2>1, FallBackTyped
      DEF Ws!network, Ws!counts, ClientsTyped, SlotInv, NetworkTyped, CountsTyped, Ws!Made
    <2>3. CallsTyped' /\ TakenInv'
      BY <2>1, FallBackTyped DEF CallsTyped, TakenInv, Ws!Made
    <2>4. QED
      BY <2>2, <2>3
  <1>4. CASE Ws!Receive(c)
    <2>1. /\ UNCHANGED <<ws_slot, ws_rc, ws_booted, ws_made, ws_up, ws_reading, ws_stopped, ws_via,
                         ws_pending, ws_wire, ws_answer, ws_placed, Ws!counts>>
          /\ ws_pc[c] = "wait" /\ ws_chan' = [ws_chan EXCEPT ![c] = "none"]
      BY <1>4 DEF Ws!Receive
    <2>2. NetworkTyped' /\ CountsTyped'
      BY <2>1 DEF NetworkTyped, CountsTyped, Ws!counts, Ws!Answers
    <2>3. CASE ws_pc' = [ws_pc EXCEPT ![c] = "ok"] /\ UNCHANGED ws_due
      <3>1. ClientsTyped' /\ SlotInv'
        BY <2>1, <2>3 DEF ClientsTyped, SlotInv, Ws!Made
      <3>2. CallsTyped' /\ TakenInv'
        BY <2>1, <2>3 DEF CallsTyped, TakenInv, Ws!Places, Ws!Made
      <3>3. QED
        BY <2>2, <3>1, <3>2
    <2>4. CASE Ws!FallBack(c)
      <3>1. ClientsTyped' /\ SlotInv'
        BY <2>1, <2>4, FallBackTyped DEF ClientsTyped, SlotInv, Ws!Made
      <3>2. CallsTyped' /\ TakenInv'
        BY <2>1, <2>4, FallBackTyped DEF CallsTyped, TakenInv, Ws!Made
      <3>3. QED
        BY <2>2, <3>1, <3>2
    <2>5. QED
      BY <1>4, <2>3, <2>4 DEF Ws!Receive
  <1>5. CASE Ws!Rest(c)
    <2>1. UNCHANGED <<Ws!clients, ws_via, ws_pending, ws_wire, ws_answer, ws_chan, Ws!counts>>
      BY <1>5 DEF Ws!Rest
    <2>2. ClientsTyped' /\ CountsTyped' /\ SlotInv'
      BY <2>1 DEF Ws!clients, Ws!counts, ClientsTyped, CountsTyped, SlotInv, Ws!Made
    <2>3. NetworkTyped'
      BY <1>5, <2>1 DEF Ws!Rest, NetworkTyped
    <2>4. CallsTyped' /\ TakenInv'
      BY <1>5, <2>1 DEF Ws!Rest, CallsTyped, TakenInv, Ws!Places, Ws!clients, Ws!Made
    <2>5. QED
      BY <2>2, <2>3, <2>4
  <1>6. QED
    BY <1>1, <1>2, <1>3, <1>4, <1>5 DEF Ws!CallStep

LEMMA ExchangeTyped ==
  ASSUME Ws!BoundAssumption, WsTypeInv, NEW c \in Call, Ws!Exchange(c)
  PROVE  WsTypeInv'
  <1> USE DEF WsTypeInv
  <1>1. CASE Ws!Accept(c) \/ Ws!Reject(c)
    <2>1. UNCHANGED <<Ws!clients, Ws!calls, ws_chan>>
      BY <1>1 DEF Ws!Accept, Ws!Reject
    <2>2. ClientsTyped' /\ CallsTyped' /\ SlotInv' /\ TakenInv'
      BY <2>1
      DEF Ws!clients, Ws!calls, ClientsTyped, CallsTyped, SlotInv, TakenInv, Ws!Made
    <2>3. NetworkTyped' /\ CountsTyped'
      BY <1>1 DEF Ws!Accept, Ws!Reject, NetworkTyped, CountsTyped, Ws!counts, Ws!Answers
    <2>4. QED
      BY <2>2, <2>3
  <1>2. CASE Ws!ReadAnswer(c)
    <2>1. UNCHANGED <<Ws!clients, ws_pc, ws_via, ws_wire, ws_placed, Ws!counts>>
      BY <1>2 DEF Ws!ReadAnswer
    <2>2. ClientsTyped' /\ SlotInv' /\ TakenInv' /\ CountsTyped'
      BY <2>1
      DEF Ws!clients, ClientsTyped, SlotInv, TakenInv, CountsTyped, Ws!counts, Ws!Made
    <2>3. CallsTyped' /\ NetworkTyped'
      BY <1>2, <2>1
      DEF Ws!ReadAnswer, CallsTyped, NetworkTyped, Ws!Answers, Ws!clients, Ws!Made
    <2>4. QED
      BY <2>2, <2>3
  <1>3. QED
    BY <1>1, <1>2 DEF Ws!Exchange

LEMMA ConnectionTyped ==
  ASSUME Ws!BoundAssumption, WsTypeInv,
         \/ \E n \in Ws!Client : Ws!StartReconnect(n) \/ Ws!Break(n) \/ Ws!ReadLoopEnds(n)
         \/ Ws!InitWsClient \/ Ws!Reconnect
  PROVE  WsTypeInv'
  <1> USE DEF WsTypeInv
  <1>1. UNCHANGED <<Ws!calls, Ws!network>>
    BY DEF Ws!StartReconnect, Ws!Break, Ws!ReadLoopEnds, Ws!InitWsClient, Ws!Reconnect,
       Ws!CloseDone, Ws!Dial, Ws!DialFails, Ws!Logon, Ws!LogonFails
  <1>2. CountsTyped' /\ NetworkTyped' /\ TakenInv'
    BY <1>1
    DEF Ws!StartReconnect, Ws!Break, Ws!ReadLoopEnds, Ws!InitWsClient, Ws!Reconnect,
        Ws!CloseDone, Ws!Dial, Ws!DialFails, Ws!Logon, Ws!LogonFails, CountsTyped, Ws!counts,
        NetworkTyped, TakenInv, Ws!calls, Ws!network
  <1>3. ws_made \in 0 .. MaxClient /\ ws_made' \in 0 .. MaxClient /\ ws_made <= ws_made'
    BY DEF Ws!StartReconnect, Ws!Break, Ws!ReadLoopEnds, Ws!InitWsClient, Ws!Reconnect,
       Ws!CloseDone, Ws!Dial, Ws!DialFails, Ws!Logon, Ws!LogonFails, ClientsTyped,
       Ws!BoundAssumption
  <1>4. Ws!Made \subseteq Ws!Made'
    BY <1>3 DEF Ws!Made
  <1>5. CallsTyped'
    BY <1>1, <1>4 DEF CallsTyped, Ws!calls
  <1>6. ws_booted' \in BOOLEAN
    BY Zenon
    DEF Ws!StartReconnect, Ws!Break, Ws!ReadLoopEnds, Ws!InitWsClient, Ws!Reconnect,
        Ws!CloseDone, Ws!Dial, Ws!DialFails, Ws!Logon, Ws!LogonFails, ClientsTyped
  <1>7. CASE \E n \in Ws!Client : Ws!StartReconnect(n) \/ Ws!Break(n) \/ Ws!ReadLoopEnds(n)
    <2>1. PICK n \in Ws!Client : Ws!StartReconnect(n) \/ Ws!Break(n) \/ Ws!ReadLoopEnds(n)
      BY <1>7
    <2>2. Ws!Made' = Ws!Made /\ UNCHANGED <<ws_slot, ws_booted>>
      BY <2>1 DEF Ws!StartReconnect, Ws!Break, Ws!ReadLoopEnds, Ws!Made
    <2>3. CASE Ws!StartReconnect(n)
      <3>1. ClientsTyped'
        BY <1>3, <1>6, <2>2, <2>3
        DEF Ws!StartReconnect, ClientsTyped, SlotInv, Ws!Free, Ws!None, Ws!Made, Ws!Client
      <3>2. SlotInv'
        BY <1>3, <2>2, <2>3
        DEF Ws!StartReconnect, ClientsTyped, SlotInv, Ws!Free, Ws!None, Ws!Made, Ws!Client
      <3>3. QED
        BY <1>2, <1>5, <3>1, <3>2
    <2>4. CASE Ws!Break(n) \/ Ws!ReadLoopEnds(n)
      <3>1. ClientsTyped'
        BY <1>3, <1>6, <2>2, <2>4 DEF Ws!Break, Ws!ReadLoopEnds, ClientsTyped
      <3>2. SlotInv'
        BY <2>2, <2>4 DEF Ws!Break, Ws!ReadLoopEnds, SlotInv
      <3>3. QED
        BY <1>2, <1>5, <3>1, <3>2
    <2>5. QED
      BY <2>1, <2>3, <2>4
  <1>8. CASE Ws!InitWsClient
    <2>1. ClientsTyped'
      BY <1>3, <1>6, <1>8 DEF Ws!InitWsClient, ClientsTyped, Ws!Made
    <2>2. SlotInv'
      BY <1>8 DEF Ws!InitWsClient, SlotInv, ClientsTyped, Ws!Free, Ws!Made
    <2>3. QED
      BY <1>2, <1>5, <2>1, <2>2
  <1>9. CASE Ws!Dial
    <2>1. ClientsTyped'
      BY <1>3, <1>6, <1>9 DEF Ws!Dial, ClientsTyped, Ws!Made
    <2>2. SlotInv'
      BY <1>3, <1>9 DEF Ws!Dial, SlotInv, ClientsTyped, Ws!Free, Ws!Made, Ws!None
    <2>3. QED
      BY <1>2, <1>5, <2>1, <2>2
  <1>10. CASE Ws!CloseDone \/ Ws!DialFails \/ Ws!Logon \/ Ws!LogonFails
    <2>1. ClientsTyped'
      BY <1>3, <1>6, <1>10
      DEF Ws!CloseDone, Ws!DialFails, Ws!Logon, Ws!LogonFails, ClientsTyped, Ws!Made, Ws!Free,
          SlotInv
    <2>2. SlotInv'
      BY <1>3, <1>10
      DEF Ws!CloseDone, Ws!DialFails, Ws!Logon, Ws!LogonFails, SlotInv, ClientsTyped, Ws!Free,
          Ws!Made, Ws!None
    <2>3. QED
      BY <1>2, <1>5, <2>1, <2>2
  <1>11. QED
    BY <1>7, <1>8, <1>9, <1>10 DEF Ws!Reconnect

LEMMA WsTypeStep ==
  ASSUME Ws!BoundAssumption, WsTypeInv, [Ws!Next]_wsVars
  PROVE  WsTypeInv'
  <1>1. CASE UNCHANGED wsVars
    BY <1>1
    DEF wsVars, Ws!clients, Ws!calls, Ws!network, Ws!counts, WsTypeInv, ClientsTyped,
        CallsTyped, NetworkTyped, CountsTyped, SlotInv, TakenInv, Ws!Made
  <1>2. QED
    BY <1>1, CallTyped, ExchangeTyped, ConnectionTyped DEF Ws!Next

-----------------------------------------------------------------------------
(***************************************************************************)
(* What a call reports.  A request is accepted at most once over the       *)
(* WebSocket, because it is written once and taken off the wire when the   *)
(* exchange decides; an answer that says so is older than any other order  *)
(* of the call, because REST comes after giving up the answer.             *)
(***************************************************************************)
\* Orders a call has, or may still get of the request it wrote.
Possible(c) == ws_placed[c] + (IF c \in ws_wire THEN 1 ELSE 0)

ReportInv ==
  \A c \in Call :
    /\ ws_pc[c] = "start" => ws_via[c] = Ws!None
    /\ ws_pc[c] \in {"start", "write"} =>
         /\ ws_placed[c] = 0 /\ c \notin ws_wire
         /\ ws_answer[c] = "none" /\ ws_chan[c] = "none"
    /\ "accepted" \in {ws_answer[c], ws_chan[c]} => ws_placed[c] > 0
    /\ Possible(c) <= (IF ws_pc[c] = "ok" THEN 2 ELSE 1)
    /\ ws_via[c] = Ws!None =>
         c \notin ws_wire /\ ws_placed[c] = (IF ws_pc[c] = "ok" THEN 1 ELSE 0)
    /\ ws_pc[c] = "ok" => ws_placed[c] > 0

LEMMA ReportInit == Ws!Init => ReportInv
  BY DEF Ws!Init, ReportInv, Possible, Ws!None

LEMMA ReportCall ==
  ASSUME WsTypeInv, ReportInv, NEW c \in Call, Ws!CallStep(c)
  PROVE  ReportInv'
  <1> USE DEF WsTypeInv, CallsTyped, NetworkTyped, TakenInv
  <1>1. CASE Ws!TakeClient(c)
    BY <1>1
    DEF Ws!TakeClient, ReportInv, Possible, Ws!network, ClientsTyped, Ws!None, Ws!Places
  <1>2. CASE Ws!Write(c)
    BY <1>2 DEF Ws!Write, ReportInv, Possible, Ws!None
  <1>3. CASE Ws!WriteFails(c) \/ Ws!Timeout(c) \/ Ws!ClientClosed(c)
    BY <1>3
    DEF Ws!WriteFails, Ws!Timeout, Ws!ClientClosed, Ws!FallBack, ReportInv, Possible,
        Ws!network, Ws!None
  <1>4. CASE Ws!Receive(c)
    BY <1>4 DEF Ws!Receive, Ws!FallBack, ReportInv, Possible, Ws!None
  <1>5. CASE Ws!Rest(c)
    BY <1>5 DEF Ws!Rest, ReportInv, Possible, Ws!None
  <1>6. QED
    BY <1>1, <1>2, <1>3, <1>4, <1>5 DEF Ws!CallStep

LEMMA ReportExchange ==
  ASSUME WsTypeInv, ReportInv, NEW c \in Call, Ws!Exchange(c)
  PROVE  ReportInv'
  <1> USE DEF WsTypeInv, CallsTyped, NetworkTyped, TakenInv
  <1>1. CASE Ws!Accept(c)
    BY <1>1 DEF Ws!Accept, ReportInv, Possible, Ws!calls, Ws!None
  <1>2. CASE Ws!Reject(c)
    BY <1>2 DEF Ws!Reject, ReportInv, Possible, Ws!calls, Ws!None
  <1>3. CASE Ws!ReadAnswer(c)
    BY <1>3 DEF Ws!ReadAnswer, ReportInv, Possible, Ws!None
  <1>4. QED
    BY <1>1, <1>2, <1>3 DEF Ws!Exchange

LEMMA ReportStep ==
  ASSUME WsTypeInv, ReportInv, [Ws!Next]_wsVars
  PROVE  ReportInv'
  <1>1. CASE UNCHANGED <<Ws!calls, Ws!network>>
    BY <1>1 DEF Ws!calls, Ws!network, ReportInv, Possible
  <1>2. CASE \E c \in Call : Ws!CallStep(c) \/ Ws!Exchange(c)
    BY <1>2, ReportCall, ReportExchange
  <1>3. QED
    BY <1>1, <1>2
    DEF Ws!Next, wsVars, Ws!calls, Ws!network, Ws!StartReconnect, Ws!Break,
        Ws!ReadLoopEnds, Ws!InitWsClient,
        Ws!Reconnect, Ws!CloseDone, Ws!Dial, Ws!DialFails, Ws!Logon, Ws!LogonFails

-----------------------------------------------------------------------------
(***************************************************************************)
(* The pending maps of the clients.                                        *)
(***************************************************************************)
\* A call's answer waits in its channel only after its entry was deleted.
MapInv ==
  \A n \in Ws!Client \ ws_stopped : \A c \in ws_pending[n] :
    ws_via[c] = n /\ ws_pc[c] \in {"write", "wait"} /\ ws_chan[c] = "none"

LEMMA MapInit == Ws!Init => MapInv
  BY DEF Ws!Init, MapInv

LEMMA MapCall ==
  ASSUME WsTypeInv, ReportInv, MapInv, NEW c \in Call, Ws!CallStep(c)
  PROVE  MapInv'
  <1> USE DEF WsTypeInv, CallsTyped, NetworkTyped, ClientsTyped
  <1>1. CASE Ws!TakeClient(c)
    BY <1>1 DEF Ws!TakeClient, MapInv, ReportInv, Ws!clients, Ws!network
  <1>2. CASE Ws!Write(c)
    BY <1>2 DEF Ws!Write, MapInv, Ws!clients
  <1>3. CASE Ws!WriteFails(c) \/ Ws!Timeout(c)
    BY <1>3 DEF Ws!WriteFails, Ws!Timeout, Ws!FallBack, MapInv, Ws!network
  <1>4. CASE Ws!ClientClosed(c)
    BY <1>4 DEF Ws!ClientClosed, Ws!FallBack, MapInv, Ws!network
  <1>5. CASE Ws!Receive(c)
    BY <1>5 DEF Ws!Receive, Ws!FallBack, MapInv
  <1>6. CASE Ws!Rest(c)
    BY <1>6 DEF Ws!Rest, MapInv, Ws!clients
  <1>7. QED
    BY <1>1, <1>2, <1>3, <1>4, <1>5, <1>6 DEF Ws!CallStep

LEMMA MapStep ==
  ASSUME WsTypeInv, ReportInv, MapInv, [Ws!Next]_wsVars
  PROVE  MapInv'
  <1> USE DEF WsTypeInv, CallsTyped, NetworkTyped, ClientsTyped
  <1>1. CASE UNCHANGED Ws!calls /\ UNCHANGED ws_chan /\ ws_stopped \subseteq ws_stopped'
    BY <1>1 DEF Ws!calls, MapInv
  <1>2. ASSUME NEW c \in Call, Ws!CallStep(c) PROVE MapInv'
    BY <1>2, MapCall
  <1>3. ASSUME NEW c \in Call, Ws!ReadAnswer(c) PROVE MapInv'
    BY <1>3 DEF Ws!ReadAnswer, MapInv, Ws!clients
  <1>4. ASSUME NEW c \in Call, Ws!Accept(c) \/ Ws!Reject(c) PROVE MapInv'
    BY <1>1, <1>4 DEF Ws!Accept, Ws!Reject, Ws!clients
  <1>5. CASE \/ \E n \in Ws!Client : Ws!StartReconnect(n) \/ Ws!Break(n) \/ Ws!ReadLoopEnds(n)
             \/ Ws!InitWsClient \/ Ws!Reconnect \/ UNCHANGED wsVars
    BY <1>1, <1>5
    DEF Ws!StartReconnect, Ws!Break, Ws!ReadLoopEnds, Ws!InitWsClient, Ws!Reconnect,
        Ws!CloseDone, Ws!Dial, Ws!DialFails, Ws!Logon, Ws!LogonFails,
        wsVars, Ws!clients, Ws!calls, Ws!network
  <1>6. QED
    BY <1>2, <1>3, <1>4, <1>5 DEF Ws!Next, Ws!Exchange

-----------------------------------------------------------------------------
(***************************************************************************)
(* Connections.                                                            *)
(***************************************************************************)
\* Open connections that are neither the slot's nor being set up.
Extra == ws_up \ ({ws_slot} \cup (IF ws_rc.pc = "logon" THEN {ws_made} ELSE {}))

\* A step that is no refused logon adds none.
LEMMA ExtraStep ==
  ASSUME WsTypeInv, [Ws!Next]_wsVars
  PROVE  \/ /\ Extra' \subseteq Extra
            /\ ws_logonFails' \in Nat /\ ws_logonFails <= ws_logonFails'
         \/ Extra' \subseteq Extra \cup {ws_made} /\ ws_logonFails' = ws_logonFails + 1
  <1> USE DEF WsTypeInv, ClientsTyped, CountsTyped
  <1>1. CASE UNCHANGED <<Ws!clients, ws_logonFails>>
    BY <1>1 DEF Ws!clients, Extra
  <1>2. CASE UNCHANGED <<ws_slot, ws_rc, ws_made, ws_up, ws_logonFails>>
    BY <1>2 DEF Extra
  <1>3. ASSUME NEW c \in Call, Ws!CallStep(c) \/ Ws!Exchange(c)
        PROVE  UNCHANGED <<ws_slot, ws_rc, ws_made, ws_up, ws_logonFails>>
    BY <1>3
    DEF Ws!CallStep, Ws!Exchange, Ws!TakeClient, Ws!Write, Ws!WriteFails, Ws!Receive, Ws!Timeout,
        Ws!ClientClosed, Ws!Rest, Ws!Accept, Ws!Reject, Ws!ReadAnswer, Ws!clients, Ws!counts
  <1>4. ASSUME NEW n \in Ws!Client, Ws!StartReconnect(n) \/ Ws!Break(n) \/ Ws!ReadLoopEnds(n)
        PROVE  Extra' \subseteq Extra /\ ws_logonFails' = ws_logonFails
    BY <1>4
    DEF Ws!StartReconnect, Ws!Break, Ws!ReadLoopEnds, Extra, Ws!Free, Ws!counts, SlotInv
  <1>5. CASE Ws!InitWsClient
    BY <1>5 DEF Ws!InitWsClient, Extra, Ws!Free, Ws!counts
  <1>6. CASE Ws!CloseDone
    BY <1>6 DEF Ws!CloseDone, Extra, Ws!counts
  <1>7. CASE Ws!Dial
    BY <1>7 DEF Ws!Dial, Extra, Ws!counts
  <1>8. CASE Ws!DialFails
    BY <1>8 DEF Ws!DialFails, Extra, Ws!Free, Ws!counts
  <1>9. CASE Ws!Logon
    BY <1>9 DEF Ws!Logon, Extra, Ws!Free, Ws!counts, SlotInv, Ws!Made, Ws!None
  <1>10. CASE Ws!LogonFails
    BY <1>10 DEF Ws!LogonFails, Extra, Ws!Free
  <1>11. QED
    BY <1>1, <1>2, <1>3, <1>4, <1>5, <1>6, <1>7, <1>8, <1>9, <1>10
    DEF Ws!Next, wsVars, Ws!counts, Ws!Reconnect

ExtraInv == IsFiniteSet(Extra) /\ Cardinality(Extra) <= ws_logonFails

LEMMA ExtraInit == Ws!Init => ExtraInv
  <1> SUFFICES ASSUME Ws!Init PROVE ExtraInv
    OBVIOUS
  <1>1. Extra = {}
    BY DEF Ws!Init, Extra
  <1>2. QED
    BY <1>1, FS_EmptySet DEF Ws!Init, ExtraInv

LEMMA ExtraKept ==
  ASSUME WsTypeInv, ExtraInv, [Ws!Next]_wsVars
  PROVE  ExtraInv'
  <1>1. IsFiniteSet(Extra) /\ Cardinality(Extra) <= ws_logonFails /\ ws_logonFails \in Nat
    BY DEF ExtraInv, WsTypeInv, CountsTyped
  <1>2. Cardinality(Extra) \in Nat
    BY <1>1, FS_CardinalityType
  <1>3. CASE /\ Extra' \subseteq Extra
             /\ ws_logonFails' \in Nat /\ ws_logonFails <= ws_logonFails'
    <2>1. IsFiniteSet(Extra') /\ Cardinality(Extra') <= Cardinality(Extra)
      BY <1>1, <1>3, FS_Subset
    <2>2. Cardinality(Extra') \in Nat
      BY <2>1, FS_CardinalityType
    <2>3. QED
      BY <1>1, <1>2, <1>3, <2>1, <2>2 DEF ExtraInv
  <1>4. CASE Extra' \subseteq Extra \cup {ws_made} /\ ws_logonFails' = ws_logonFails + 1
    <2>1. IsFiniteSet(Extra \cup {ws_made})
          /\ Cardinality(Extra \cup {ws_made}) <= Cardinality(Extra) + 1
      BY <1>1, <1>2, FS_AddElement
    <2>2. IsFiniteSet(Extra') /\ Cardinality(Extra') <= Cardinality(Extra \cup {ws_made})
      BY <1>4, <2>1, FS_Subset
    <2>3. Cardinality(Extra') \in Nat /\ Cardinality(Extra \cup {ws_made}) \in Nat
      BY <2>1, <2>2, FS_CardinalityType
    <2>4. QED
      BY <1>1, <1>2, <1>4, <2>1, <2>2, <2>3 DEF ExtraInv
  <1>5. QED
    BY <1>3, <1>4, ExtraStep

WsInv == WsTypeInv /\ ReportInv /\ MapInv /\ ExtraInv

LEMMA WsKept == AllSpec => []WsInv
  <1>1. Ws!BoundAssumption
    BY WsAssumption
  <1>2. AllInit => WsInv
    BY <1>1, WsTypeInit, ReportInit, MapInit, ExtraInit DEF AllInit, WsInv
  <1>3. WsInv /\ [AllNext]_all => WsInv'
    <2> SUFFICES ASSUME WsInv, [AllNext]_all PROVE WsInv'
      OBVIOUS
    <2>1. [Ws!Next]_wsVars
      BY DeskSteps
    <2>2. WsTypeInv /\ ReportInv /\ MapInv /\ ExtraInv
      BY DEF WsInv
    <2>3. WsTypeInv' /\ ReportInv' /\ MapInv' /\ ExtraInv'
      BY <1>1, <2>1, <2>2, WsTypeStep, ReportStep, MapStep, ExtraKept
    <2>4. QED
      BY <2>3 DEF WsInv
  <1>4. QED
    BY <1>2, <1>3, PTL DEF AllSpec

\* What a caller may rely on, for any number of calls, connections, breaks,
\* rejections and refused logons: success means an order, and a second one only
\* where a request over the WebSocket was given up (placeOrderViaWs and the
\* calls like it); an answer never reaches a call that has given up, and no
\* entry stays behind in the map of a client in use (send and readLoop of
\* websocket/ws.go); and beside the slot's connection and the one being set up
\* only those of refused logons stay open (ReconnectWsClient of api/client.go).
THEOREM CallersToldTheTruth == AllSpec => []CallsAreTrue
  <1>1. WsInv => CallsAreTrue
    <2> SUFFICES ASSUME WsInv PROVE CallsAreTrue
      OBVIOUS
    <2>1. Ws!ReportsAreTrue
      BY DEF WsInv, WsTypeInv, NetworkTyped, ReportInv, Possible, Ws!ReportsAreTrue
    <2>2. Ws!PendingCallsWait
      BY DEF WsInv, MapInv, Ws!PendingCallsWait
    <2>3. Ws!OneConnection
      BY SameCardinality DEF WsInv, ExtraInv, Extra, Ws!OneConnection
    <2>4. QED
      BY <2>1, <2>2, <2>3 DEF CallsAreTrue
  <1>2. QED
    BY <1>1, WsKept, PTL

-----------------------------------------------------------------------------
(***************************************************************************)
(* The paper account.  Amounts are products and quotients of whole         *)
(* numbers; what has to be seen is that every quotient is of a number that *)
(* is not 0, and that a part of a position leaves a part of its notional.  *)
(***************************************************************************)
PaperPos   == [side : Paper!Sides, qty : Nat \ {0}, notional : Nat \ {0}, leverage : Leverage]
PaperOrder == [symbol : Symbol, side : Paper!Sides, qty : Qty, price : Price,
               leverage : Leverage, old : Nat]

\* A caller in the middle of a reversal has an order, and a position that is
\* there has a quantity and a notional.
PaperTyped ==
  /\ paper_balance \in Int /\ paper_result \in Int
  /\ paper_trades \in Nat /\ paper_resets \in Nat
  /\ paper_pos \in [Symbol -> PaperPos \cup {Paper!NoPos}]
  /\ paper_pc \in [Caller -> {"idle", "close", "reopen"}]
  /\ paper_work \in [Caller -> PaperOrder \cup {Paper!NoWork}]
  /\ \A t \in Caller : paper_pc[t] # "idle" => paper_work[t] \in PaperOrder

LEMMA Product ==
  ASSUME NEW a \in Nat \ {0}, NEW b \in Nat \ {0} PROVE a * b \in Nat \ {0}
  OBVIOUS

LEMMA IntQuotient ==
  ASSUME NEW n \in Int, NEW d \in Nat \ {0} PROVE n \div d \in Int
  OBVIOUS

\* A part of a position takes less than the whole of its notional.
LEMMA PartLess ==
  ASSUME NEW n \in Nat \ {0}, NEW k \in Nat \ {0}, NEW q \in Nat, q < k
  PROVE  (n * q) \div k \in Nat /\ (n * q) \div k < n
  <1>1. PICK m \in Nat : m = n * q
    OBVIOUS
  <1>2. PICK d \in Nat : d = m \div k /\ d * k <= m
    BY Quotient
  <1>3. m < n * k
    BY <1>1
  <1>4. ASSUME n <= d PROVE FALSE
    <2>1. n * k <= d * k
      BY <1>4
    <2>2. QED
      BY <1>2, <1>3, <2>1
  <1>5. QED
    BY <1>1, <1>2, <1>4

LEMMA MoneyFacts ==
  ASSUME NEW p \in Price, NEW q \in Nat
  PROVE  /\ Paper!Fee(p, q) \in Nat /\ Paper!Value(p, q) \in Nat
         /\ q # 0 => Paper!Value(p, q) # 0
  <1>1. p \in Nat \ {0} /\ Scale \in Nat \ {0} /\ FeeUnit \in Nat
    BY PaperAssumption DEF Paper!SetAssumption, Paper!MoneyAssumption
  <1>2. PICK m \in Nat : m = p * q /\ (q # 0 => m # 0)
    BY <1>1, Product
  <1>3. QED
    BY <1>1, <1>2, Product DEF Paper!Fee, Paper!Value

\* What an order costs, and the position it opens or adds to.
LEMMA OrderMoney ==
  ASSUME NEW o \in PaperOrder
  PROVE  /\ Paper!Fee(o.price, o.qty) \in Nat /\ Paper!Cost(o) \in Int
         /\ Paper!Opened(o) \in PaperPos
         /\ \A x \in PaperPos : Paper!Merged(x, o) \in PaperPos
  <1>1. /\ o.price \in Price /\ o.qty \in Nat \ {0} /\ o.leverage \in Leverage
        /\ o.leverage \in Nat \ {0} /\ o.side \in Paper!Sides
    BY PaperAssumption DEF PaperOrder, Paper!SetAssumption
  <1>2. /\ Paper!Fee(o.price, o.qty) \in Nat
        /\ Paper!Value(o.price, o.qty) \in Nat \ {0}
    BY <1>1, MoneyFacts
  <1>3. Paper!Cost(o) \in Int
    BY <1>1, <1>2, IntQuotient DEF Paper!Cost
  <1>4. Paper!Opened(o) \in PaperPos
    BY <1>1, <1>2 DEF Paper!Opened, PaperPos
  <1>5. ASSUME NEW x \in PaperPos PROVE Paper!Merged(x, o) \in PaperPos
    <2> DEFINE v == Paper!Value(o.price, o.qty)
    <2> DEFINE a == x.qty + o.qty
               b == x.notional + v
    <2>1. Paper!Merged(x, o) = [x EXCEPT !.qty = a, !.notional = b, !.leverage = o.leverage]
      BY DEF Paper!Merged, PaperPos
    <2>2. a \in Nat \ {0} /\ b \in Nat \ {0}
      BY <1>1, <1>2 DEF PaperPos
    <2> HIDE DEF v, a, b
    <2>3. [x EXCEPT !.qty = a, !.notional = b, !.leverage = o.leverage] \in PaperPos
      BY <1>1, <2>2 DEF PaperPos
    <2>4. QED
      BY <2>1, <2>3
  <1>6. QED
    BY <1>2, <1>3, <1>4, <1>5

\* What a reduction pays out, and what it leaves.
LEMMA ReduceFacts ==
  ASSUME NEW x \in PaperPos, NEW q \in Nat \ {0}, q <= x.qty, NEW p \in Price
  PROVE  /\ Paper!MarginOf(x, q) \in Int /\ Paper!Gain(x, p, q) \in Int
         /\ Paper!Fee(p, q) \in Int
         /\ Paper!Left(x, q) \in PaperPos \cup {Paper!NoPos}
  <1>1. /\ x.qty \in Nat \ {0} /\ x.notional \in Nat \ {0} /\ x.side \in Paper!Sides
        /\ x.leverage \in Leverage /\ x.leverage \in Nat \ {0}
    BY PaperAssumption DEF PaperPos, Paper!SetAssumption
  <1>2. x.notional * q \in Nat /\ x.qty * x.leverage \in Nat \ {0}
    BY <1>1, Product
  <1>3. Paper!MarginOf(x, q) \in Int
    BY <1>2, IntQuotient DEF Paper!MarginOf
  <1>4. Paper!Fee(p, q) \in Int /\ Paper!Value(p, q) \in Int
    BY MoneyFacts
  <1>5. Paper!Gain(x, p, q) \in Int
    BY <1>1, <1>2, <1>4, IntQuotient DEF Paper!Gain
  <1>6. Paper!Left(x, q) \in PaperPos \cup {Paper!NoPos}
    <2>1. CASE q = x.qty
      BY <2>1 DEF Paper!Left
    <2>2. CASE q # x.qty
      <3> DEFINE part == (x.notional * q) \div x.qty
      <3>1. part \in Nat /\ part < x.notional
        BY <1>1, <2>2, PartLess
      <3>2. Paper!Left(x, q) = [side |-> x.side, qty |-> x.qty - q,
                                notional |-> x.notional - part, leverage |-> x.leverage]
        BY <2>2 DEF Paper!Left, Paper!Reduced, PaperPos
      <3> HIDE DEF part
      <3>3. x.qty - q \in Nat \ {0} /\ x.notional - part \in Nat \ {0}
        BY <1>1, <2>2, <3>1
      <3>4. QED
        BY <1>1, <3>2, <3>3 DEF PaperPos
    <2>3. QED
      BY <2>1, <2>2
  <1>7. QED
    BY <1>3, <1>4, <1>5, <1>6

LEMMA ReducePaper ==
  ASSUME PaperTyped, NEW s \in Symbol, Paper!HasPos(s), NEW q \in Nat, NEW p \in Price,
         Paper!ReduceAt(s, q, p)
  PROVE  /\ paper_balance' \in Int /\ paper_result' \in Int /\ paper_trades' \in Nat
         /\ paper_pos' \in [Symbol -> PaperPos \cup {Paper!NoPos}]
  <1> DEFINE x   == paper_pos[s]
             k   == IF q = 0 \/ q >= x.qty THEN x.qty ELSE q
             pnl == Paper!Gain(x, p, k) - Paper!Fee(p, k)
  <1>1. x \in PaperPos
    BY DEF PaperTyped, Paper!HasPos, Paper!NoPos
  <1>2. x.qty \in Nat \ {0}
    BY <1>1 DEF PaperPos
  <1>3. k \in Nat \ {0} /\ k <= x.qty
    BY <1>2
  <1>4. /\ paper_balance' = paper_balance + Paper!MarginOf(x, k) + pnl
        /\ paper_trades' = paper_trades + 1
        /\ paper_pos' = [paper_pos EXCEPT ![s] = Paper!Left(x, k)]
        /\ paper_result' = paper_result + pnl
    BY DEF Paper!ReduceAt
  <1> HIDE DEF x, k
  <1>5. /\ Paper!MarginOf(x, k) \in Int /\ pnl \in Int
        /\ Paper!Left(x, k) \in PaperPos \cup {Paper!NoPos}
    BY <1>1, <1>3, ReduceFacts
  <1> HIDE DEF pnl
  <1>6. QED
    BY <1>4, <1>5 DEF PaperTyped

LEMMA PaperStart == Paper!Init => PaperTyped
  <1> SUFFICES ASSUME Paper!Init PROVE PaperTyped
    OBVIOUS
  <1>1. Initial * Scale \in Int
    BY PaperAssumption DEF Paper!MoneyAssumption
  <1>2. QED
    BY <1>1 DEF Paper!Init, PaperTyped

LEMMA PaperKeeps ==
  ASSUME PaperTyped, [Paper!Next]_paperVars
  PROVE  PaperTyped'
  <1>1. CASE UNCHANGED paperVars
    BY <1>1 DEF paperVars, PaperTyped
  <1>2. ASSUME NEW t \in Caller, NEW o \in Paper!Order, Paper!Open(t, o)
        PROVE  PaperTyped'
    <2>1. o \in PaperOrder /\ o.symbol \in Symbol
      BY DEF Paper!Order, PaperOrder
    <2>2. /\ Paper!Fee(o.price, o.qty) \in Nat /\ Paper!Cost(o) \in Int
          /\ Paper!Opened(o) \in PaperPos
          /\ \A x \in PaperPos : Paper!Merged(x, o) \in PaperPos
      BY <2>1, OrderMoney
    <2>3. /\ paper_balance' = paper_balance - Paper!Cost(o)
          /\ paper_trades' = paper_trades + 1
          /\ paper_result' = paper_result - Paper!Fee(o.price, o.qty)
          /\ UNCHANGED <<paper_pc, paper_work, paper_resets>>
      BY <1>2 DEF Paper!Open, Paper!Pay
    <2> DEFINE new == IF Paper!HasPos(o.symbol)
                      THEN Paper!Merged(paper_pos[o.symbol], o) ELSE Paper!Opened(o)
    <2>4. paper_pos' = [paper_pos EXCEPT ![o.symbol] = new]
      BY <1>2 DEF Paper!Open
    <2>5. new \in PaperPos
      <3>1. Paper!HasPos(o.symbol) => paper_pos[o.symbol] \in PaperPos
        BY <2>1 DEF PaperTyped, Paper!HasPos, Paper!NoPos
      <3>2. QED
        BY <2>2, <3>1
    <2> HIDE DEF new
    <2>6. paper_balance' \in Int /\ paper_result' \in Int /\ paper_trades' \in Nat
      BY <2>2, <2>3 DEF PaperTyped
    <2>7. paper_pos' \in [Symbol -> PaperPos \cup {Paper!NoPos}]
      BY <2>4, <2>5 DEF PaperTyped
    <2>8. QED
      BY <2>3, <2>6, <2>7 DEF PaperTyped
  <1>3. ASSUME NEW t \in Caller, NEW o \in Paper!Order, Paper!StartReverse(t, o)
        PROVE  PaperTyped'
    <2> DEFINE work == [o EXCEPT !.old = paper_pos[o.symbol].qty]
    <2>1. /\ paper_pc' = [paper_pc EXCEPT ![t] = "close"]
          /\ paper_work' = [paper_work EXCEPT ![t] = work]
          /\ UNCHANGED <<paper_balance, paper_pos, paper_trades, paper_result, paper_resets>>
          /\ Paper!HasPos(o.symbol)
      BY <1>3 DEF Paper!StartReverse, Paper!Closes
    <2>2. paper_pos[o.symbol].qty \in Nat
      <3>1. o.symbol \in Symbol
        BY DEF Paper!Order
      <3>2. paper_pos[o.symbol] \in PaperPos
        BY <2>1, <3>1 DEF PaperTyped, Paper!HasPos, Paper!NoPos
      <3>3. QED
        BY <3>2 DEF PaperPos
    <2>3. work \in PaperOrder
      BY <2>2 DEF Paper!Order, PaperOrder
    <2> HIDE DEF work
    <2>4. QED
      BY <2>1, <2>3 DEF PaperTyped
  <1>4. ASSUME NEW t \in Caller, NEW s \in Symbol, NEW x \in Paper!Sides,
               NEW q \in Qty \cup {0}, NEW p \in Price, Paper!Reduce(t, s, x, q, p)
        PROVE  PaperTyped'
    <2>1. q \in Nat
      BY PaperAssumption DEF Paper!SetAssumption
    <2>2. /\ Paper!HasPos(s) /\ Paper!ReduceAt(s, q, p)
          /\ UNCHANGED <<paper_pc, paper_work, paper_resets>>
      BY <1>4 DEF Paper!Reduce, Paper!Closes
    <2>3. QED
      BY <2>1, <2>2, ReducePaper DEF PaperTyped
  <1>5. ASSUME NEW t \in Caller, Paper!CloseOpposite(t) PROVE PaperTyped'
    <2> DEFINE o == paper_work[t]
    <2>1. paper_pc[t] = "close" /\ o \in PaperOrder /\ UNCHANGED paper_resets
      BY <1>5 DEF Paper!CloseOpposite, PaperTyped
    <2>2. CASE Paper!Closes(o.symbol, Paper!Opposite(o.side))
      <3>1. PICK q \in {o.old, paper_pos[o.symbol].qty} :
              Paper!ReduceAt(o.symbol, q, o.price)
        BY <1>5, <2>2 DEF Paper!CloseOpposite
      <3>2. Paper!HasPos(o.symbol) /\ o.symbol \in Symbol /\ o.price \in Price
        BY <2>1, <2>2 DEF Paper!Closes, PaperOrder
      <3>3. q \in Nat
        <4>1. paper_pos[o.symbol] \in PaperPos
          BY <3>2 DEF PaperTyped, Paper!HasPos, Paper!NoPos
        <4>2. QED
          BY <2>1, <3>1, <4>1 DEF PaperOrder, PaperPos
      <3>4. /\ paper_pc' = [paper_pc EXCEPT ![t] = "reopen"] /\ UNCHANGED paper_work
        BY <1>5, <2>2 DEF Paper!CloseOpposite
      <3>5. /\ paper_balance' \in Int /\ paper_result' \in Int /\ paper_trades' \in Nat
            /\ paper_pos' \in [Symbol -> PaperPos \cup {Paper!NoPos}]
        BY <3>1, <3>2, <3>3, ReducePaper
      <3>6. QED
        BY <2>1, <3>4, <3>5 DEF PaperTyped
    <2>3. CASE ~Paper!Closes(o.symbol, Paper!Opposite(o.side))
      <3>1. /\ paper_pc' = [paper_pc EXCEPT ![t] = "idle"]
            /\ paper_work' = [paper_work EXCEPT ![t] = Paper!NoWork]
            /\ UNCHANGED <<paper_balance, paper_pos, paper_trades, paper_result>>
        BY <1>5, <2>3 DEF Paper!CloseOpposite
      <3>2. QED
        BY <2>1, <3>1 DEF PaperTyped
    <2>4. QED
      BY <2>2, <2>3
  <1>6. ASSUME NEW t \in Caller, Paper!Reopen(t) PROVE PaperTyped'
    <2> DEFINE o == paper_work[t]
    <2>1. o \in PaperOrder
      BY <1>6 DEF Paper!Reopen, PaperTyped
    <2>2. /\ Paper!Fee(o.price, o.qty) \in Nat /\ Paper!Cost(o) \in Int
          /\ Paper!Opened(o) \in PaperPos /\ o.symbol \in Symbol
      BY <2>1, OrderMoney DEF PaperOrder
    <2>3. /\ paper_balance' = paper_balance - Paper!Cost(o)
          /\ paper_trades' = paper_trades + 1
          /\ paper_result' = paper_result - Paper!Fee(o.price, o.qty)
          /\ paper_pos' = [paper_pos EXCEPT ![o.symbol] = Paper!Opened(o)]
          /\ paper_pc' = [paper_pc EXCEPT ![t] = "idle"]
          /\ paper_work' = [paper_work EXCEPT ![t] = Paper!NoWork]
          /\ UNCHANGED paper_resets
      BY <1>6 DEF Paper!Reopen, Paper!Pay
    <2> HIDE DEF o
    <2>4. QED
      BY <2>2, <2>3 DEF PaperTyped
  <1>7. CASE Paper!ResetPaper
    <2>1. Initial * Scale \in Int
      BY PaperAssumption DEF Paper!MoneyAssumption
    <2>2. QED
      BY <1>7, <2>1 DEF Paper!ResetPaper, PaperTyped
  <1>8. QED
    BY <1>1, <1>2, <1>3, <1>4, <1>5, <1>6, <1>7 DEF Paper!Next

LEMMA PaperKept == AllSpec => []PaperTyped
  <1>1. AllInit => PaperTyped
    BY PaperStart DEF AllInit
  <1>2. PaperTyped /\ [AllNext]_all => PaperTyped'
    BY DeskSteps, PaperKeeps
  <1>3. QED
    BY <1>1, <1>2, PTL DEF AllSpec

LEMMA GroupTyped == AllSpec => []TypeOK
  <1>1. AllInit => TypeOK
    BY TypeStart DEF AllInit
  <1>2. TypeOK /\ [AllNext]_all => TypeOK'
    BY DeskSteps, TypeKeeps
  <1>3. QED
    BY <1>1, <1>2, PTL DEF AllSpec

\* The five components keep the shape of their state, for every order, filter,
\* price, leverage and fee: in particular no margin and no profit is a quotient
\* by 0, a partial close leaves a position with a quantity and a notional
\* (PaperReducePosition), and no order has more left than was asked for.
THEOREM DeskTyped == AllSpec => []TypesOK
  <1>1. PaperTyped => Paper!TypeOK
    BY DEF PaperTyped, PaperPos, Paper!TypeOK
  <1>2. LedgerInv => Ledger!TypeOK
    <2> SUFFICES ASSUME LedgerTyped PROVE Ledger!TypeOK
      BY DEF LedgerInv
    <2>1. ledger_stream.at \in {"idle", "update", "check", "look", "create", "latest", "add"}
      BY DEF LedgerTyped, LedgerWork, Ledger!Idle
    <2>2. QED
      BY <2>1 DEF LedgerTyped, Ledger!TypeOK
  <1>3. WsInv => Ws!TypeOK
    BY DEF WsInv, WsTypeInv, ClientsTyped, CallsTyped, NetworkTyped, CountsTyped, Ws!TypeOK
  <1>4. WatchInv => Watcher!TypeOK
    BY DEF WatchInv, WatchTyped
  <1>5. TypeOK /\ PaperTyped /\ LedgerInv /\ WsInv /\ WatchInv => TypesOK
    BY <1>1, <1>2, <1>3, <1>4 DEF TypesOK
  <1>6. QED
    BY <1>5, GroupTyped, PaperKept, LedgerKept, WsKept, WatchKept, PTL

-----------------------------------------------------------------------------
(***************************************************************************)
(* The balance of the paper account.  The code counts in floating point;   *)
(* the model in whole units, so the account adds up where the margins it   *)
(* divides are whole.                                                      *)
(***************************************************************************)
\* The margin of a position is whole, and so is that of each of its units as
\* long as a trade may still take some of them away.
WholeMargins ==
  \A s \in Symbol : LET x == paper_pos[s] IN
    Paper!HasPos(s) =>
      /\ x.notional % x.leverage = 0
      /\ paper_trades < MaxTrade => x.notional % (x.qty * x.leverage) = 0

\* A caller that reverses closes the quantity it saw, and finds no position
\* when it opens the new one.
ReversalInv ==
  \A t \in Caller : LET o == paper_work[t] IN
    /\ paper_pc[t] = "close" /\ Paper!Closes(o.symbol, Paper!Opposite(o.side))
         => o.old = paper_pos[o.symbol].qty
    /\ paper_pc[t] = "reopen" => ~Paper!HasPos(o.symbol)

AccountInv == PaperTyped /\ ReversalInv /\ AccountBalances

LEMMA WholeQuotient ==
  ASSUME NEW n \in Nat, NEW d \in Nat \ {0}, n % d = 0
  PROVE  \E k \in Nat : n = k * d
  <1>1. n = (n \div d) * d /\ n \div d \in Nat
    OBVIOUS
  <1>2. QED
    BY <1>1

\* The margin of a whole position.
LEMMA WholeMargin ==
  ASSUME NEW k \in Nat, NEW q \in Nat \ {0}, NEW l \in Nat \ {0}
  PROVE  ((k * l) * q) \div (q * l) = k
  <1>1. PICK d \in Nat \ {0} : d = q * l
    BY Product
  <1>2. (k * l) * q = k * d
    BY <1>1
  <1>3. QED
    BY <1>1, <1>2, Multiple

\* The margin of a part of a position, its notional, and what is left.
LEMMA PartMargin ==
  ASSUME NEW m \in Nat, NEW k \in Nat \ {0}, NEW l \in Nat \ {0}, NEW q \in Nat, q <= k
  PROVE  /\ ((m * (k * l)) * q) \div (k * l) = m * q
         /\ ((m * (k * l)) * q) \div k = (m * q) * l
         /\ m * (k * l) = (m * k) * l
         /\ m * (k * l) - (m * q) * l = (m * (k - q)) * l
         /\ m * (k - q) = m * k - m * q
  <1>1. PICK d \in Nat \ {0} : d = k * l
    BY Product
  <1>2. PICK a \in Nat : a = m * q
    OBVIOUS
  <1>3. (m * d) * q = a * d
    BY <1>2
  <1>4. PICK b \in Nat : b = a * l
    OBVIOUS
  <1>5. a * d = b * k
    BY <1>1, <1>4
  <1>6. (a * d) \div d = a /\ (b * k) \div k = b
    BY Multiple
  <1>7. PICK e \in Nat : e = k - q
    OBVIOUS
  <1>8. k = q + e
    BY <1>7
  <1>9. m * k = a + m * e
    BY <1>2, <1>8
  <1>10. m * d = (m * k) * l
    BY <1>1
  <1>11. (m * k) * l = a * l + (m * e) * l
    BY <1>9
  <1>12. QED
    BY <1>1, <1>2, <1>3, <1>4, <1>5, <1>6, <1>7, <1>9, <1>10, <1>11

LEMMA PaperSum == \A f, S : Paper!SumFunctionOnSet(f, S) = SumFunctionOnSet(f, S)
  BY DEF Paper!SumFunctionOnSet, Paper!FoldFunctionOnSet, Paper!MapThenFoldSet,
     SumFunctionOnSet, FoldFunctionOnSet, MapThenFoldSet

\* What a position adds to the margins.
MarginIn(x) == IF x.side # "none" THEN Paper!MarginOf(x, x.qty) ELSE 0

LEMMA MarginInt ==
  ASSUME NEW x \in PaperPos \cup {Paper!NoPos} PROVE MarginIn(x) \in Int
  <1>1. CASE x = Paper!NoPos
    BY <1>1 DEF MarginIn, Paper!NoPos
  <1>2. CASE x \in PaperPos
    <2>1. /\ x.qty \in Nat \ {0} /\ x.notional \in Nat \ {0} /\ x.leverage \in Nat \ {0}
      BY <1>2, PaperAssumption DEF PaperPos, Paper!SetAssumption
    <2>2. x.notional * x.qty \in Nat /\ x.qty * x.leverage \in Nat \ {0}
      BY <2>1, Product
    <2>3. QED
      BY <2>2, IntQuotient DEF MarginIn, Paper!MarginOf
  <1>3. QED
    BY <1>1, <1>2

LEMMA HeldIs ==
  \A s \in Symbol : /\ Paper!MarginOn(s) = MarginIn(paper_pos[s])
                    /\ Paper!MarginOn(s)' = MarginIn(paper_pos'[s])
  BY DEF Paper!MarginOn, Paper!HasPos, MarginIn, Paper!MarginOf

\* When one position changes, the margins change by its own.
LEMMA MarginsMove ==
  ASSUME PaperTyped, PaperTyped', NEW s \in Symbol,
         \A r \in Symbol \ {s} : paper_pos'[r] = paper_pos[r]
  PROVE  /\ Paper!Margins \in Int /\ Paper!Margins' \in Int
         /\ Paper!MarginOn(s) \in Int /\ Paper!MarginOn(s)' \in Int
         /\ Paper!Margins' = Paper!Margins - Paper!MarginOn(s) + Paper!MarginOn(s)'
  <1> DEFINE f == [r \in Symbol |-> Paper!MarginOn(r)]
             g == [r \in Symbol |-> Paper!MarginOn(r)']
             R == Symbol \ {s}
  <1>1. IsFiniteSet(Symbol) /\ IsFiniteSet(R)
    <2>1. IsFiniteSet(Symbol)
      BY PaperAssumption DEF Paper!SetAssumption, Paper!IsFiniteSet, IsFiniteSet
    <2>2. QED
      BY <2>1, FS_Subset
  <1>2. \A r \in Symbol : f[r] \in Int /\ g[r] \in Int
    <2>1. \A r \in Symbol : /\ paper_pos[r] \in PaperPos \cup {Paper!NoPos}
                            /\ paper_pos'[r] \in PaperPos \cup {Paper!NoPos}
      BY DEF PaperTyped
    <2>2. QED
      BY <2>1, MarginInt, HeldIs
  <1>3. Paper!Margins = SumFunctionOnSet(f, Symbol)
    BY PaperSum DEF Paper!Margins
  <1>4. Paper!Margins' = SumFunctionOnSet(g, Symbol)
    BY PaperSum DEF Paper!Margins
  <1>5. \A r \in R : f[r] = g[r]
    BY HeldIs
  <1>6. f[s] = Paper!MarginOn(s) /\ g[s] = Paper!MarginOn(s)'
    OBVIOUS
  <1> HIDE DEF f, g, R
  <1>7. SumFunctionOnSet(f, Symbol) = f[s] + SumFunctionOnSet(f, R)
    BY <1>1, <1>2, SumRemove DEF R
  <1>8. SumFunctionOnSet(g, Symbol) = g[s] + SumFunctionOnSet(g, R)
    BY <1>1, <1>2, SumRemove DEF R
  <1>9. SumFunctionOnSet(f, R) = SumFunctionOnSet(g, R)
    BY <1>1, <1>5, SumSame
  <1>10. SumFunctionOnSet(f, R) \in Int
    BY <1>1, <1>2, SumInt DEF R
  <1>11. f[s] \in Int /\ g[s] \in Int
    BY <1>2
  <1>12. QED
    BY <1>3, <1>4, <1>6, <1>7, <1>8, <1>9, <1>10, <1>11

LEMMA NoMargins == SumFunctionOnSet([r \in Symbol |-> 0], Symbol) = 0
  <1> DEFINE f == [r \in Symbol |-> 0]
  <1>1. IsFiniteSet(Symbol)
    BY PaperAssumption DEF Paper!SetAssumption, Paper!IsFiniteSet, IsFiniteSet
  <1>2. \A r \in Symbol : f[r] \in Nat /\ f[r] * 1 <= 0 * f[r]
    OBVIOUS
  <1> HIDE DEF f
  <1>3. /\ SumFunctionOnSet(f, Symbol) * 1 <= 0 * SumFunctionOnSet(f, Symbol)
        /\ SumFunctionOnSet(f, Symbol) \in Nat
    BY <1>1, <1>2, SumBound, SumNat
  <1>4. QED
    BY <1>3 DEF f

LEMMA WholeHeld ==
  ASSUME NEW x \in PaperPos, x.notional % x.leverage = 0
  PROVE  \E k \in Nat : x.notional = k * x.leverage /\ MarginIn(x) = k
  <1>1. /\ x.qty \in Nat \ {0} /\ x.notional \in Nat \ {0} /\ x.leverage \in Nat \ {0}
        /\ x.side # "none"
    BY PaperAssumption DEF PaperPos, Paper!SetAssumption, Paper!Sides
  <1>2. PICK k \in Nat : x.notional = k * x.leverage
    BY <1>1, WholeQuotient
  <1>3. MarginIn(x) = k
    <2>1. MarginIn(x) = (x.notional * x.qty) \div (x.qty * x.leverage)
      BY <1>1 DEF MarginIn, Paper!MarginOf
    <2>2. ((k * x.leverage) * x.qty) \div (x.qty * x.leverage) = k
      BY <1>1, WholeMargin
    <2>3. QED
      BY <1>2, <2>1, <2>2
  <1>4. QED
    BY <1>2, <1>3

\* A reduction pays out the margin it takes away.
LEMMA ReducedMargin ==
  ASSUME NEW x \in PaperPos, NEW q \in Nat \ {0}, q <= x.qty,
         q = x.qty \/ x.notional % (x.qty * x.leverage) = 0
  PROVE  MarginIn(Paper!Left(x, q)) = MarginIn(x) - Paper!MarginOf(x, q)
  <1>1. /\ x.qty \in Nat \ {0} /\ x.notional \in Nat \ {0} /\ x.leverage \in Nat \ {0}
        /\ x.side # "none"
    BY PaperAssumption DEF PaperPos, Paper!SetAssumption, Paper!Sides
  <1>2. MarginIn(x) = Paper!MarginOf(x, x.qty) /\ MarginIn(x) \in Int
    BY <1>1, MarginInt DEF MarginIn
  <1>3. CASE q = x.qty
    BY <1>2, <1>3 DEF Paper!Left, MarginIn, Paper!NoPos
  <1>4. CASE q # x.qty
    <2> DEFINE k == x.qty
               l == x.leverage
               n == x.notional
               y == Paper!Left(x, q)
    <2>1. x.qty * x.leverage \in Nat \ {0}
      BY <1>1, Product
    <2>2. PICK m \in Nat : n = m * (k * l)
      BY <1>1, <1>4, <2>1, WholeQuotient
    <2>3. y = [x EXCEPT !.qty = k - q, !.notional = n - (n * q) \div k]
      BY <1>4 DEF Paper!Left, Paper!Reduced, PaperPos
    <2>4. /\ y.qty = k - q /\ y.notional = n - (n * q) \div k
          /\ y.leverage = l /\ y.side = x.side
      BY <2>3 DEF PaperPos
    <2>5. k \in Nat \ {0} /\ l \in Nat \ {0} /\ q <= k /\ q # k
      BY <1>1, <1>4
    <2>6. Paper!MarginOf(x, q) = (n * q) \div (k * l) /\ MarginIn(x) = (n * k) \div (k * l)
      BY <1>2 DEF Paper!MarginOf
    <2>7. MarginIn(y) = (y.notional * y.qty) \div (y.qty * y.leverage)
      BY <1>1, <2>4 DEF MarginIn, Paper!MarginOf
    <2> HIDE DEF k, l, n, y
    <2>8. /\ (n * q) \div (k * l) = m * q
          /\ n - (n * q) \div k = (m * (k - q)) * l
          /\ m * (k - q) = m * k - m * q
      BY <2>2, <2>5, PartMargin
    <2>9. (n * k) \div (k * l) = m * k
      BY <2>2, <2>5, PartMargin
    <2>10. k - q \in Nat \ {0} /\ m * (k - q) \in Nat
      BY <2>5
    <2>11. (((m * (k - q)) * l) * (k - q)) \div ((k - q) * l) = m * (k - q)
      BY <2>5, <2>10, WholeMargin
    <2>12. MarginIn(y) = m * (k - q)
      BY <2>4, <2>7, <2>8, <2>11
    <2>13. QED
      BY <2>6, <2>8, <2>9, <2>12 DEF y
  <1>5. QED
    BY <1>3, <1>4

\* An order pays the margin it adds, and its fee.
LEMMA OpenedMargin ==
  ASSUME NEW o \in PaperOrder, Paper!Opened(o).notional % o.leverage = 0
  PROVE  Paper!Cost(o) = MarginIn(Paper!Opened(o)) + Paper!Fee(o.price, o.qty)
  <1> DEFINE x == Paper!Opened(o)
  <1>1. x \in PaperPos /\ x.leverage = o.leverage
        /\ x.notional = Paper!Value(o.price, o.qty)
    BY OrderMoney DEF Paper!Opened
  <1>2. PICK k \in Nat : x.notional = k * x.leverage /\ MarginIn(x) = k
    BY <1>1, WholeHeld
  <1>3. o.leverage \in Nat \ {0}
    BY PaperAssumption DEF PaperOrder, Paper!SetAssumption
  <1>4. (k * o.leverage) \div o.leverage = k
    BY <1>3, Multiple
  <1>5. QED
    BY <1>1, <1>2, <1>4 DEF Paper!Cost

LEMMA MergedMargin ==
  ASSUME NEW o \in PaperOrder, NEW x \in PaperPos, x.leverage = o.leverage,
         x.notional % x.leverage = 0, Paper!Merged(x, o).notional % o.leverage = 0
  PROVE  Paper!Cost(o) = MarginIn(Paper!Merged(x, o)) - MarginIn(x)
                           + Paper!Fee(o.price, o.qty)
  <1> DEFINE y == Paper!Merged(x, o)
             v == Paper!Value(o.price, o.qty)
             l == o.leverage
  <1>1. l \in Nat \ {0} /\ o.qty \in Nat /\ o.price \in Price
    BY PaperAssumption DEF PaperOrder, Paper!SetAssumption
  <1>2. v \in Nat /\ Paper!Fee(o.price, o.qty) \in Nat
    BY <1>1, MoneyFacts
  <1>3. y \in PaperPos /\ y.leverage = l /\ y.notional = x.notional + v
    BY OrderMoney DEF Paper!Merged, PaperPos
  <1>4. PICK a \in Nat : x.notional = a * l /\ MarginIn(x) = a
    BY WholeHeld
  <1>5. PICK b \in Nat : y.notional = b * l /\ MarginIn(y) = b
    BY <1>3, WholeHeld
  <1>6. Paper!Cost(o) = v \div l + Paper!Fee(o.price, o.qty)
    BY DEF Paper!Cost
  <1> HIDE DEF y, v, l
  <1>7. b * l = a * l + v
    BY <1>3, <1>4, <1>5
  <1>8. ASSUME b < a PROVE FALSE
    <2>1. PICK c \in Nat \ {0} : a = b + c
      <3>1. a - b \in Nat \ {0} /\ a = b + (a - b)
        BY <1>8
      <3>2. QED
        BY <3>1
    <2>2. c * l \in Nat \ {0} /\ a * l = b * l + c * l /\ b * l \in Nat
      BY <1>1, <2>1, Product
    <2>3. QED
      BY <1>2, <1>7, <2>2
  <1>9. PICK c \in Nat : b = a + c
    <2>1. b - a \in Nat /\ b = a + (b - a)
      BY <1>8
    <2>2. QED
      BY <2>1
  <1>10. b * l = a * l + c * l /\ c * l \in Nat /\ a * l \in Nat
    BY <1>1, <1>9
  <1>11. v = c * l
    BY <1>2, <1>7, <1>10
  <1>12. v \div l = c
    BY <1>1, <1>11, Multiple
  <1>13. QED
    BY <1>2, <1>4, <1>5, <1>6, <1>9, <1>12 DEF y

\* One caller, and one leverage.
OneHand == (\A s, t \in Caller : s = t) /\ (\A a, b \in Leverage : a = b)

\* A reduction, or the closing half of a reversal.
LEMMA ReduceBalances ==
  ASSUME PaperTyped, PaperTyped', WholeMargins, AccountBalances, NEW s \in Symbol,
         Paper!HasPos(s), NEW q \in Nat, NEW p \in Price, Paper!ReduceAt(s, q, p)
  PROVE  /\ AccountBalances'
         /\ q = paper_pos[s].qty => ~Paper!HasPos(s)'
  <1> DEFINE x   == paper_pos[s]
             k   == IF q = 0 \/ q >= x.qty THEN x.qty ELSE q
             pnl == Paper!Gain(x, p, k) - Paper!Fee(p, k)
  <1>1. x \in PaperPos
    BY DEF PaperTyped, Paper!HasPos, Paper!NoPos
  <1>2. x.qty \in Nat \ {0}
    BY <1>1 DEF PaperPos
  <1>3. k \in Nat \ {0} /\ k <= x.qty /\ (q = x.qty => k = x.qty)
    BY <1>2
  <1>4. /\ paper_balance' = paper_balance + Paper!MarginOf(x, k) + pnl
        /\ paper_trades < MaxTrade
        /\ paper_pos' = [paper_pos EXCEPT ![s] = Paper!Left(x, k)]
        /\ paper_result' = paper_result + pnl
    BY DEF Paper!ReduceAt
  <1>5. x.notional % (x.qty * x.leverage) = 0
    BY <1>4 DEF WholeMargins
  <1>6. paper_pos'[s] = Paper!Left(x, k) /\ \A r \in Symbol \ {s} : paper_pos'[r] = paper_pos[r]
    BY <1>4 DEF PaperTyped
  <1> HIDE DEF k
  <1>7. /\ Paper!MarginOf(x, k) \in Int /\ pnl \in Int
        /\ Paper!Left(x, k) \in PaperPos \cup {Paper!NoPos}
    BY <1>1, <1>3, ReduceFacts
  <1>8. MarginIn(Paper!Left(x, k)) = MarginIn(x) - Paper!MarginOf(x, k)
    BY <1>1, <1>3, <1>5, ReducedMargin
  <1>9. /\ Paper!Margins \in Int /\ Paper!Margins' \in Int
        /\ Paper!MarginOn(s) \in Int /\ Paper!MarginOn(s)' \in Int
        /\ Paper!Margins' = Paper!Margins - Paper!MarginOn(s) + Paper!MarginOn(s)'
    BY <1>6, MarginsMove
  <1>10. Paper!MarginOn(s) = MarginIn(x) /\ Paper!MarginOn(s)' = MarginIn(Paper!Left(x, k))
    BY <1>6, HeldIs
  <1>11. q = x.qty => ~Paper!HasPos(s)'
    BY <1>3, <1>6 DEF Paper!Left, Paper!HasPos, Paper!NoPos
  <1> HIDE DEF x, pnl
  <1>12. PICK c \in Int : c = Initial * Scale
    BY PaperAssumption DEF Paper!MoneyAssumption
  <1>13. /\ paper_balance + Paper!Margins = c + paper_result
        /\ paper_balance \in Int /\ paper_result \in Int
    BY <1>12 DEF AccountBalances, Paper!AccountBalances, PaperTyped
  <1>14. AccountBalances'
    <2>1. paper_balance' + Paper!Margins' = c + paper_result'
      BY <1>4, <1>7, <1>8, <1>9, <1>10, <1>13
    <2>2. QED
      BY <1>12, <2>1 DEF AccountBalances, Paper!AccountBalances
  <1>15. QED
    BY <1>11, <1>14 DEF x

\* An order that opens a position where there is none, or adds to one.
LEMMA OpenBalances ==
  ASSUME OneHand, PaperTyped, PaperTyped', WholeMargins, WholeMargins', AccountBalances,
         NEW o \in PaperOrder, Paper!Pay(o),
         paper_pos' = [paper_pos EXCEPT ![o.symbol] =
                         IF Paper!HasPos(o.symbol) THEN Paper!Merged(paper_pos[o.symbol], o)
                                                   ELSE Paper!Opened(o)]
  PROVE  AccountBalances'
  <1>0. PICK s \in Symbol : s = o.symbol
    BY DEF PaperOrder
  <1> DEFINE x   == paper_pos[s]
             new == IF Paper!HasPos(s) THEN Paper!Merged(x, o) ELSE Paper!Opened(o)
             fee == Paper!Fee(o.price, o.qty)
  <1>1. s \in Symbol /\ x \in PaperPos \cup {Paper!NoPos} /\ (Paper!HasPos(s) => x \in PaperPos)
    BY DEF PaperTyped, Paper!HasPos, Paper!NoPos
  <1>2. paper_pos'[s] = new /\ \A r \in Symbol \ {s} : paper_pos'[r] = paper_pos[r]
    BY <1>0, <1>1 DEF PaperTyped
  <1>3. /\ fee \in Nat /\ Paper!Cost(o) \in Int /\ new \in PaperPos
    BY <1>1, OrderMoney
  <1>4. Paper!HasPos(s)'
    BY <1>2, <1>3 DEF Paper!HasPos, PaperPos, Paper!Sides
  <1>5. new.notional % new.leverage = 0
    BY <1>1, <1>2, <1>4 DEF WholeMargins
  <1>6. new.leverage = o.leverage /\ (Paper!HasPos(s) => x.leverage = o.leverage)
    BY <1>1, <1>3 DEF OneHand, PaperPos, PaperOrder
  <1>7. Paper!Cost(o) = MarginIn(new) - MarginIn(x) + fee
    <2>1. CASE Paper!HasPos(s)
      <3>1. x.notional % x.leverage = 0
        BY <1>1, <2>1 DEF WholeMargins
      <3>2. QED
        BY <1>1, <1>5, <1>6, <2>1, <3>1, MergedMargin
    <2>2. CASE ~Paper!HasPos(s)
      <3>1. MarginIn(x) = 0
        BY <2>2 DEF MarginIn, Paper!HasPos
      <3>2. Paper!Cost(o) = MarginIn(new) + fee
        BY <1>5, <1>6, <2>2, OpenedMargin
      <3>3. MarginIn(new) \in Int
        BY <1>3, MarginInt
      <3>4. QED
        BY <1>3, <3>1, <3>2, <3>3
    <2>3. QED
      BY <2>1, <2>2
  <1>8. /\ Paper!Margins \in Int /\ Paper!Margins' \in Int
        /\ Paper!MarginOn(s) \in Int /\ Paper!MarginOn(s)' \in Int
        /\ Paper!Margins' = Paper!Margins - Paper!MarginOn(s) + Paper!MarginOn(s)'
    BY <1>1, <1>2, MarginsMove
  <1>9. Paper!MarginOn(s) = MarginIn(x) /\ Paper!MarginOn(s)' = MarginIn(new)
    BY <1>1, <1>2, HeldIs
  <1>10. /\ paper_balance' = paper_balance - Paper!Cost(o)
         /\ paper_result' = paper_result - fee
    BY DEF Paper!Pay
  <1> HIDE DEF x, new, fee
  <1>11. PICK c \in Int : c = Initial * Scale
    BY PaperAssumption DEF Paper!MoneyAssumption
  <1>12. /\ paper_balance + Paper!Margins = c + paper_result
        /\ paper_balance \in Int /\ paper_result \in Int
    BY <1>11 DEF AccountBalances, Paper!AccountBalances, PaperTyped
  <1>13. MarginIn(new) \in Int /\ MarginIn(x) \in Int
    BY <1>8, <1>9
  <1>14. paper_balance' + Paper!Margins' = c + paper_result'
    <2>1. PICK a \in Int, b \in Int, f \in Int :
            a = MarginIn(x) /\ b = MarginIn(new) /\ f = fee
      BY <1>3, <1>13
    <2>2. Paper!Margins' = Paper!Margins - a + b
      BY <1>8, <1>9, <2>1
    <2>3. paper_balance' = paper_balance - (b - a + f)
      BY <1>7, <1>10, <2>1
    <2>4. paper_result' = paper_result - f
      BY <1>10, <2>1
    <2>5. Paper!Margins \in Int
      BY <1>8
    <2>6. QED
      BY <1>12, <2>2, <2>3, <2>4, <2>5
  <1>15. QED
    BY <1>11, <1>14 DEF AccountBalances, Paper!AccountBalances

LEMMA NothingPaid ==
  ASSUME AccountBalances, UNCHANGED <<paper_balance, paper_pos, paper_result>>
  PROVE  AccountBalances'
  <1>1. Paper!Margins' = Paper!Margins
    BY DEF Paper!Margins, Paper!MarginOn, Paper!HasPos, Paper!MarginOf
  <1>2. QED
    BY <1>1 DEF AccountBalances, Paper!AccountBalances

LEMMA AccountStart == Paper!Init => AccountInv
  <1> SUFFICES ASSUME Paper!Init PROVE AccountInv
    OBVIOUS
  <1>1. PaperTyped
    BY PaperStart
  <1>2. \A r \in Symbol : Paper!MarginOn(r) = 0
    BY DEF Paper!Init, Paper!MarginOn, Paper!HasPos, Paper!NoPos
  <1>3. Paper!Margins = 0
    <2>1. [r \in Symbol |-> Paper!MarginOn(r)] = [r \in Symbol |-> 0]
      BY <1>2
    <2>2. Paper!Margins = SumFunctionOnSet([r \in Symbol |-> Paper!MarginOn(r)], Symbol)
      BY PaperSum DEF Paper!Margins
    <2>3. QED
      BY <2>1, <2>2, NoMargins
  <1>4. AccountBalances
    <2>1. PICK c \in Int : c = Initial * Scale
      BY PaperAssumption DEF Paper!MoneyAssumption
    <2>2. QED
      BY <1>3, <2>1 DEF Paper!Init, AccountBalances, Paper!AccountBalances
  <1>5. ReversalInv
    BY DEF Paper!Init, ReversalInv
  <1>6. QED
    BY <1>1, <1>4, <1>5 DEF AccountInv

LEMMA AccountKeeps ==
  ASSUME OneHand, AccountInv, WholeMargins, WholeMargins', [Paper!Next]_paperVars
  PROVE  AccountInv'
  <1>1. PaperTyped /\ PaperTyped' /\ ReversalInv /\ AccountBalances
    BY PaperKeeps DEF AccountInv
  <1> SUFFICES ReversalInv' /\ AccountBalances'
    BY <1>1 DEF AccountInv
  <1>2. ASSUME NEW t \in Caller, paper_pc'[t] = "idle" PROVE ReversalInv'
    BY <1>2 DEF OneHand, ReversalInv
  <1>3. CASE UNCHANGED paperVars
    <2>1. ReversalInv'
      BY <1>1, <1>3 DEF ReversalInv, paperVars, Paper!Closes, Paper!HasPos
    <2>2. QED
      BY <1>1, <1>3, <2>1, NothingPaid DEF paperVars
  <1>4. ASSUME NEW t \in Caller, NEW o \in Paper!Order, Paper!Open(t, o)
        PROVE  ReversalInv' /\ AccountBalances'
    <2>1. o \in PaperOrder
      BY DEF Paper!Order, PaperOrder
    <2>2. AccountBalances'
      BY <1>1, <1>4, <2>1, OpenBalances DEF Paper!Open
    <2>3. paper_pc'[t] = "idle"
      BY <1>4 DEF Paper!Open
    <2>4. QED
      BY <1>2, <2>2, <2>3
  <1>5. ASSUME NEW t \in Caller, NEW o \in Paper!Order, Paper!StartReverse(t, o)
        PROVE  ReversalInv' /\ AccountBalances'
    <2> DEFINE w == [o EXCEPT !.old = paper_pos[o.symbol].qty]
    <2>1. /\ paper_pc' = [paper_pc EXCEPT ![t] = "close"]
          /\ paper_work' = [paper_work EXCEPT ![t] = w]
          /\ UNCHANGED <<paper_balance, paper_pos, paper_result>>
      BY <1>5 DEF Paper!StartReverse
    <2>2. w.old = paper_pos[o.symbol].qty /\ w.symbol = o.symbol /\ w.side = o.side
      BY DEF Paper!Order
    <2> HIDE DEF w
    <2>3. paper_pc'[t] = "close" /\ paper_work'[t] = w
      BY <1>1, <2>1 DEF PaperTyped
    <2>4. w.old = paper_pos'[w.symbol].qty
      BY <2>1, <2>2
    <2>5. ReversalInv'
      BY <2>3, <2>4 DEF OneHand, ReversalInv
    <2>6. QED
      BY <1>1, <2>1, <2>5, NothingPaid
  <1>6. ASSUME NEW t \in Caller, NEW s \in Symbol, NEW x \in Paper!Sides,
               NEW q \in Qty \cup {0}, NEW p \in Price, Paper!Reduce(t, s, x, q, p)
        PROVE  ReversalInv' /\ AccountBalances'
    <2>1. q \in Nat
      BY PaperAssumption DEF Paper!SetAssumption
    <2>2. Paper!HasPos(s) /\ Paper!ReduceAt(s, q, p) /\ paper_pc'[t] = "idle"
      BY <1>6 DEF Paper!Reduce, Paper!Closes
    <2>3. AccountBalances'
      BY <1>1, <2>1, <2>2, ReduceBalances
    <2>4. QED
      BY <1>2, <2>2, <2>3
  <1>7. ASSUME NEW t \in Caller, Paper!CloseOpposite(t)
        PROVE  ReversalInv' /\ AccountBalances'
    <2>1. PICK o \in PaperOrder : o = paper_work[t]
      BY <1>1, <1>7 DEF Paper!CloseOpposite, PaperTyped
    <2>2. paper_pc[t] = "close" /\ paper_pc'[t] \in {"reopen", "idle"}
      BY <1>1, <1>7 DEF Paper!CloseOpposite, PaperTyped
    <2>3. CASE Paper!Closes(o.symbol, Paper!Opposite(o.side))
      <3>1. PICK q \in {o.old, paper_pos[o.symbol].qty} :
              Paper!ReduceAt(o.symbol, q, o.price)
        BY <1>7, <2>1, <2>3 DEF Paper!CloseOpposite
      <3>2. Paper!HasPos(o.symbol) /\ o.symbol \in Symbol /\ o.price \in Price
        BY <2>3 DEF Paper!Closes, PaperOrder
      <3>3. q = paper_pos[o.symbol].qty
        BY <1>1, <2>1, <2>2, <2>3, <3>1 DEF ReversalInv
      <3>4. q \in Nat
        <4>1. paper_pos[o.symbol] \in PaperPos
          BY <1>1, <3>2 DEF PaperTyped, Paper!HasPos, Paper!NoPos
        <4>2. QED
          BY <3>3, <4>1 DEF PaperPos
      <3>5. PICK s \in Symbol : s = o.symbol
        BY <3>2
      <3>6. AccountBalances' /\ ~Paper!HasPos(s)'
        BY <1>1, <3>1, <3>2, <3>3, <3>4, <3>5, ReduceBalances
      <3>7. paper_pc' = [paper_pc EXCEPT ![t] = "reopen"] /\ UNCHANGED paper_work
        BY <1>7, <2>1, <2>3 DEF Paper!CloseOpposite
      <3>8. paper_pc'[t] = "reopen" /\ paper_work'[t].symbol = s
        BY <1>1, <2>1, <3>5, <3>7 DEF PaperTyped
      <3>9. ReversalInv'
        BY <3>6, <3>8 DEF OneHand, ReversalInv, Paper!HasPos
      <3>10. QED
        BY <3>6, <3>9
    <2>4. CASE ~Paper!Closes(o.symbol, Paper!Opposite(o.side))
      <3>1. /\ paper_pc' = [paper_pc EXCEPT ![t] = "idle"]
            /\ UNCHANGED <<paper_balance, paper_pos, paper_result>>
        BY <1>7, <2>1, <2>4 DEF Paper!CloseOpposite
      <3>2. paper_pc'[t] = "idle"
        BY <1>1, <3>1 DEF PaperTyped
      <3>3. QED
        BY <1>1, <1>2, <3>1, <3>2, NothingPaid
    <2>5. QED
      BY <2>3, <2>4
  <1>8. ASSUME NEW t \in Caller, Paper!Reopen(t)
        PROVE  ReversalInv' /\ AccountBalances'
    <2>1. PICK o \in PaperOrder : o = paper_work[t]
      BY <1>1, <1>8 DEF Paper!Reopen, PaperTyped
    <2>2. ~Paper!HasPos(o.symbol)
      BY <1>1, <1>8, <2>1 DEF Paper!Reopen, ReversalInv
    <2>3. /\ Paper!Pay(o)
          /\ paper_pos' = [paper_pos EXCEPT ![o.symbol] = Paper!Opened(o)]
          /\ paper_pc' = [paper_pc EXCEPT ![t] = "idle"]
      BY <1>8, <2>1 DEF Paper!Reopen
    <2>4. paper_pc'[t] = "idle"
      BY <1>1, <2>3 DEF PaperTyped
    <2>5. paper_pos' = [paper_pos EXCEPT ![o.symbol] =
                          IF Paper!HasPos(o.symbol)
                          THEN Paper!Merged(paper_pos[o.symbol], o) ELSE Paper!Opened(o)]
      BY <2>2, <2>3
    <2>6. AccountBalances'
      BY <1>1, <2>3, <2>5, OpenBalances
    <2>7. QED
      BY <1>2, <2>4, <2>6
  <1>9. CASE Paper!ResetPaper
    <2>1. /\ paper_balance' = Initial * Scale /\ paper_result' = 0 /\ paper_pc' = paper_pc
          /\ paper_pos' = [s \in Symbol |-> Paper!NoPos] /\ UNCHANGED paper_work
      BY <1>9 DEF Paper!ResetPaper
    <2>2. \A r \in Symbol : Paper!MarginOn(r)' = 0
      BY <2>1 DEF Paper!MarginOn, Paper!HasPos, Paper!NoPos
    <2>3. Paper!Margins' = 0
      <3>1. [r \in Symbol |-> Paper!MarginOn(r)'] = [r \in Symbol |-> 0]
        BY <2>2
      <3>2. Paper!Margins' = SumFunctionOnSet([r \in Symbol |-> Paper!MarginOn(r)'], Symbol)
        BY PaperSum DEF Paper!Margins
      <3>3. QED
        BY <3>1, <3>2, NoMargins
    <2>4. AccountBalances'
      <3>1. PICK c \in Int : c = Initial * Scale
        BY PaperAssumption DEF Paper!MoneyAssumption
      <3>2. QED
        BY <2>1, <2>3, <3>1 DEF AccountBalances, Paper!AccountBalances
    <2>5. ASSUME NEW t \in Caller, paper_pc[t] # "idle"
          PROVE  /\ paper_work'[t].symbol \in Symbol
                 /\ paper_work'[t].side \in Paper!Sides
      BY <1>1, <2>1, <2>5 DEF PaperTyped, PaperOrder
    <2>6. \A s \in Symbol : ~Paper!HasPos(s)' /\ paper_pos'[s].side = "none"
      BY <2>1 DEF Paper!HasPos, Paper!NoPos
    <2>7. ReversalInv'
      BY <2>1, <2>5, <2>6 DEF ReversalInv, Paper!Closes, Paper!HasPos
    <2>8. QED
      BY <2>4, <2>7
  <1>10. QED
    BY <1>3, <1>4, <1>5, <1>6, <1>7, <1>8, <1>9 DEF Paper!Next

\* The simulated account adds up (PaperPlaceOrder, PaperReducePosition), for
\* every set of symbols, prices, sizes and fees and however often it is reset:
\* balance and margins are the initial amount and the results of the trades,
\* while one caller trades at one leverage and the margins are whole.
THEOREM AccountAddsUp ==
  ASSUME OneHand
  PROVE  AllSpec /\ []WholeMargins => []AccountBalances
  <1>1. AllInit => AccountInv
    BY AccountStart DEF AllInit
  <1>2. AccountInv /\ WholeMargins /\ WholeMargins' /\ [AllNext]_all => AccountInv'
    BY DeskSteps, AccountKeeps
  <1>3. AccountInv => AccountBalances
    BY DEF AccountInv
  <1>4. QED
    BY <1>1, <1>2, <1>3, PTL DEF AllSpec

=============================================================================
