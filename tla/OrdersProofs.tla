----------------------------- MODULE OrdersProofs -----------------------------
(***************************************************************************)
(* Theorems about the protective orders of BFATEngine, for every value of  *)
(* its constants and every set of faults but those a theorem excludes by   *)
(* name.                                                                   *)
(*                                                                         *)
(* What the handlers may assume of the orders at each of their calls is    *)
(* Cover (the stop is as large as the position), Known (every order is one *)
(* the engine knows), EntryStopLive (an entry has its stop), Whole (the    *)
(* position is halved by the scale-out only) and Entire (it has not been   *)
(* halved before the phase says so); Exposure of BFATEngineProofs is what  *)
(* they rest on.                                                           *)
(***************************************************************************)
EXTENDS BFATEngineProofs

\* No two live orders share an id.
IdsUnique == \A o, p \in orders : o.id = p.id => o = p

\* Nothing on the exchange could leave part of the position behind.
StopsCover == \A o \in orders : o.kind = "SL" => o.qty >= exPos

Cover ==
  ~unmanaged =>
    /\ state = "OPEN" \/ pc = "e_tp" => \A o \in Tracked(slId) : o.qty >= exPos
    /\ pc = "sync" => StopsCover
    /\ "cancel" \notin Faults => StopsCover /\ (pc = "e_market" => orders = {})

\* One stop and one take profit at most, and an OPEN engine knows them.
OneOfEach == \A o, p \in orders : o.kind = p.kind => o = p

Known ==
  /\ OneOfEach
  /\ state \in {"OPEN", "CLOSING"} =>
       /\ \A o \in orders : o.kind = "SL" => o.id = slId
       /\ pc # "sync_tp" => \A o \in orders : o.kind = "TP" => o.id = tpId
  /\ pc = "sync_tp" => (pos.tp \/ \A o \in orders : o.kind # "TP")
  /\ state = "OPEN" /\ ~pos.tp => tpId = NoOrder
  /\ pc \in {"e_market", "e_sl", "e_flatten"} => orders = {}
  /\ pc = "e_tp" => \A o \in orders : o.kind = "SL" /\ o.id = slId
  /\ pc \in {"s_half", "s_poll", "s_sl"} => orders = {}
  /\ pc = "s_tp" => pos.tp /\ \A o \in orders : o.kind = "SL"
  /\ pc \in {"s_fail", "t_recover"} => \A o \in orders : o.kind = "TP"

\* The stop of an entry is live until it has closed the position.
EntryStopLive ==
  pc = "e_tp" /\ ~unmanaged =>
    /\ slId # NoOrder
    /\ exPos > 0 => \E o \in orders : o.id = slId /\ o.qty = Full

\* The position on the exchange is all of the one the engine has, or gone.
Whole ==
  ~unmanaged =>
    /\ \A o \in orders : o.qty >= exPos
    /\ pc = "e_market" => orders = {}
    /\ pc \in {"e_sl", "e_tp", "e_flatten"} => exPos \in {0, Full}
    /\ state = "OPEN" /\ pc # "s_poll" => exPos \in {0, pos.size}
    /\ pc = "s_poll" => exPos < pos.size

\* Until it has been halved, the position is what this engine bought or restored.
Entire ==
  /\ pc \in {"e_sl", "e_tp", "e_flatten"} => whole = Full
  /\ state = "OPEN" /\ pos.phase = "INITIAL" => pos.size = whole
  /\ pc \in {"s_cancel", "s_half", "s_poll"} => pos.phase = "INITIAL"

-----------------------------------------------------------------------------
(***************************************************************************)
(* The calls that place and cancel orders.                                 *)
(***************************************************************************)
\* A confirmed order: new, and of this kind and size.
LEMMA Placed ==
  ASSUME orders \in SUBSET Order, NEW kind \in {"SL", "TP"}, NEW qty \in Amount,
         NEW id, PlaceVerified(kind, qty, id)
  PROVE  \E n \in Order :
           /\ n.id = id /\ n.kind = kind /\ n.qty = qty
           /\ orders' = orders \cup {n}
           /\ id # slId /\ id # tpId /\ \A o \in orders : o.id # id
<1> DEFINE n == [id |-> id, kind |-> kind, qty |-> qty]
<1>1. n \in Order /\ n.id = id /\ n.kind = kind /\ n.qty = qty
  BY DEF PlaceVerified, FreshId, Order
<1>2. orders' = orders \cup {n}
  BY DEF PlaceVerified
<1>3. id # slId /\ id # tpId /\ \A o \in orders : o.id # id
  BY DEF PlaceVerified, FreshId, Ids
<1> HIDE DEF n
<1>4. QED BY <1>1, <1>2, <1>3

\* A placement that is given up leaves no order, or one the engine does not know.
LEMMA GivenUp ==
  ASSUME orders \in SUBSET Order, NEW kind \in {"SL", "TP"}, NEW qty \in Amount,
         NEW left \in LeftAfterFailedPlacement(kind, qty)
  PROVE  \/ left = orders
         \/ /\ "unverified" \in Faults
            /\ \E n \in Order :
                 /\ n.kind = kind /\ n.qty = qty
                 /\ left = orders \cup {n}
                 /\ n.id # slId /\ n.id # tpId /\ \A o \in orders : o.id # n.id
<1>1. SUFFICES ASSUME left # orders
               PROVE  /\ "unverified" \in Faults
                      /\ \E n \in Order :
                           /\ n.kind = kind /\ n.qty = qty
                           /\ left = orders \cup {n}
                           /\ n.id # slId /\ n.id # tpId /\ \A o \in orders : o.id # n.id
  OBVIOUS
<1>2. "unverified" \in Faults
  BY <1>1 DEF LeftAfterFailedPlacement, Fault
<1>3. PICK id \in FreshId : left = orders \cup {[id |-> id, kind |-> kind, qty |-> qty]}
  BY <1>1 DEF LeftAfterFailedPlacement
<1> DEFINE n == [id |-> id, kind |-> kind, qty |-> qty]
<1>4. n \in Order /\ n.id = id /\ n.kind = kind /\ n.qty = qty
  BY DEF FreshId, Order
<1>5. id # slId /\ id # tpId /\ \A o \in orders : o.id # id
  BY DEF FreshId, Ids
<1> HIDE DEF n
<1>6. left = orders \cup {n}
  BY <1>3 DEF n
<1>7. QED BY <1>2, <1>4, <1>5, <1>6

\* A cancel touches only the orders named, and all of them if none is refused.
LEMMA Cancelled ==
  ASSUME NEW S, NEW left \in LeftAfterCancel(S)
  PROVE  /\ left \subseteq orders
         /\ \A o \in orders : o.id \notin S => o \in left
         /\ "cancel" \notin Faults => \A o \in left : o.id \notin S
BY DEF LeftAfterCancel, Fault

\* The order ids the engine knows are ids, and the size of its position is one.
LEMMA Known0 ==
  ASSUME IInv
  PROVE  /\ orders \in SUBSET Order /\ exPos \in Nat
         /\ \A o \in orders : o.id \in OrderId /\ o.id # NoOrder /\ o.qty \in Amount
         /\ state = "OPEN" => pos.size \in Amount
         /\ pc \in OpenPc \cup {"sync_tp"} => state = "OPEN"
BY HeldSize, ConstantsAssumption
   DEF IInv, TypeOK, ExchangeTypeOK, EngineInv, Control, Order

-----------------------------------------------------------------------------
(***************************************************************************)
(* Steps that place nothing.                                               *)
(***************************************************************************)
Placing ==
  \/ SyncNewStop \/ SyncFailClosed \/ SyncTakeProfit
  \/ EntryStop \/ EntryTakeProfit \/ EntryTakeProfitFails
  \/ StopReplaced \/ StopNotReplaced \/ CheckTakeProfit \/ TickRecover
  \/ ScaleOutStop \/ ScaleOutTakeProfit \/ ScaleOutFailed

LEMMA OthersPlaceNothing ==
  ASSUME [Next]_vars, ~Placing
  PROVE  orders' \subseteq orders
<1> USE DEF exchangeVars
<1>1. CASE Sync
  BY <1>1 DEF Sync, Placing, SyncNothing, SyncExistingStop
<1>2. CASE Entry
  BY <1>2 DEF Entry, Placing, EntryFilled, EntryNotFilled, EntryFlatten
<1>3. CASE Candle
  BY <1>3 DEF Candle, Placing, StillOpen, FallbackNoted, FallbackRecord, FallbackDeferred,
              StopBelievedActive, HealthFlatten
<1>4. CASE Close
  BY <1>4, Cancelled DEF Close, CloseAlreadyFlat, CancelForClose, CloseOrder, CloseConfirm,
              SignalCloseFailed
<1>5. CASE Record
  BY <1>5, Cancelled DEF Record, RecordTrade, RecordRaises, RecordFinish, FinishRaises
<1>6. CASE ScaleOutStep
  BY <1>6, Cancelled DEF ScaleOutStep, Placing, ScaleOutCancel, ScaleOutHalf, ScaleOutPoll
<1>7. CASE Dispatch
  BY <1>7, Cancelled
  DEF Dispatch, OnCandleClose, CandleIdle, CandleOpen, CandleCountsDown, CandleEntry,
      MissedCandle, OnMarketUpdate, TickOpen, TickEntry, BeginEntry, FillIgnored, FillCloses
<1>8. CASE Environment
  BY <1>8 DEF Environment, Trigger, Expire, ManualClose, LoseFill, Restart
<1>9. CASE UNCHANGED vars
  BY <1>9 DEF vars
<1>10. QED
  BY <1>1, <1>2, <1>3, <1>4, <1>5, <1>6, <1>7, <1>8, <1>9 DEF Next, HandlerStep, Placing

Special ==
  \/ Placing \/ SyncExistingStop \/ EntryFilled \/ EntryNotFilled
  \/ OnCandleClose \/ OnMarketUpdate \/ Restart

\* What a step does that neither places an order nor opens or adopts a position.
Plain ==
  /\ orders' \subseteq orders
  /\ slId' \in {slId, NoOrder} /\ tpId' \in {tpId, NoOrder}
  /\ state' = "OPEN" => state = "OPEN"
  /\ pc' \in EntryPc \cup {"sync", "sync_tp"} => pc' = pc

LEMMA PlainStep ==
  ASSUME IInv, [Next]_vars, ~Special
  PROVE  Plain
<1>1. orders' \subseteq orders
  BY OthersPlaceNothing DEF Special
<1> USE DEF Plain, Goto, GotoFor, engineVars, EntryPc
<1>2. CASE Sync
  BY <1>1, <1>2 DEF Sync, Special, Placing, SyncNothing, IInv, EngineInv, Control
<1>3. CASE Entry
  BY <1>1, <1>3 DEF Entry, Special, Placing, EntryFlatten
<1>4. CASE Candle
  BY <1>1, <1>4 DEF Candle, Special, Placing, StillOpen, FallbackNoted, FallbackRecord,
       FallbackDeferred, StopBelievedActive, HealthFlatten, GoRecord
<1>5. CASE Close
  BY <1>1, <1>5 DEF Close, CloseAlreadyFlat, CancelForClose, CloseOrder, CloseConfirm,
       SignalCloseFailed, GoRecord, CloseFails, ScaleOutOrIdle
<1>6. CASE Record
  BY <1>1, <1>6 DEF Record, RecordTrade, RecordRaises, RecordFinish, FinishRaises, CloseRequested
<1>7. CASE ScaleOutStep
  BY <1>1, <1>7 DEF ScaleOutStep, Special, Placing, ScaleOutCancel, ScaleOutHalf, ScaleOutPoll,
       AfterScaleOut
<1>8. CASE Dispatch
  BY <1>1, <1>8
  DEF Dispatch, Special, MissedCandle, FillIgnored, FillCloses, GoRecord
<1>9. CASE Environment
  BY <1>1, <1>9 DEF Environment, Special, Trigger, Expire, ManualClose, LoseFill, engineSide
<1>10. CASE UNCHANGED vars
  BY <1>1, <1>10 DEF vars
<1>11. QED
  BY <1>2, <1>3, <1>4, <1>5, <1>6, <1>7, <1>8, <1>9, <1>10
  DEF Next, HandlerStep, Special, Placing

-----------------------------------------------------------------------------
(***************************************************************************)
(* Ids.                                                                    *)
(***************************************************************************)
LEMMA AddingKeepsIdsUnique ==
  ASSUME IdsUnique, NEW n, orders' \subseteq orders \cup {n}, \A o \in orders : o.id # n.id
  PROVE  IdsUnique'
BY DEF IdsUnique

\* A placement, successful or not, keeps the ids apart.
LEMMA PlacementKeepsIdsUnique ==
  ASSUME orders \in SUBSET Order, IdsUnique, NEW kind \in {"SL", "TP"}, NEW qty \in Amount,
         \/ \E id \in FreshId : PlaceVerified(kind, qty, id)
         \/ orders' \in LeftAfterFailedPlacement(kind, qty)
         \/ orders' = orders
  PROVE  IdsUnique'
<1>1. CASE \E id \in FreshId : PlaceVerified(kind, qty, id)
  BY <1>1, Placed, AddingKeepsIdsUnique
<1>2. CASE orders' \in LeftAfterFailedPlacement(kind, qty)
  <2>1. \/ orders' = orders
        \/ \E n \in Order : orders' = orders \cup {n} /\ \A o \in orders : o.id # n.id
    BY <1>2, GivenUp
  <2>2. QED BY <2>1, AddingKeepsIdsUnique DEF IdsUnique
<1>3. CASE orders' = orders
  BY <1>3 DEF IdsUnique
<1>4. QED BY <1>1, <1>2, <1>3

LEMMA SyncPlacement ==
  ASSUME IInv, pc = "sync", exPos > 0, NEW q, q = Smaller(exPos, Full)
  PROVE  q \in Amount
BY FullAssumption DEF IInv, TypeOK, ExchangeTypeOK, Smaller, Amount

\* The stop the sync places beside what an attempt before it may have left.
LEMMA SyncNewStopEffect ==
  ASSUME IInv, SyncNewStop
  PROVE  \E old \in StopsGivenUp : \E left \in LeftAfterCancel(old) : \E n \in Order :
           /\ n.kind = "SL" /\ n.qty = Smaller(exPos, Full)
           /\ \A o \in orders : o.id # n.id
           /\ Restore(n.id)
           /\ \/ orders' = left \cup {n}
              \/ /\ "unverified" \in Faults
                 /\ \E t \in Order : /\ orders' = left \cup {t} \cup {n}
                                     /\ t.kind = "SL" /\ t.qty = Smaller(exPos, Full)
                                     /\ t.id # n.id /\ \A o \in orders : o.id # t.id
<1> DEFINE Effect(left, tried, id) ==
             /\ orders' = left \cup (tried \ orders)
                            \cup {[id |-> id, kind |-> "SL", qty |-> Smaller(exPos, Full)]}
             /\ Restore(id)
<1>a. PICK old \in StopsGivenUp :
        \E left \in LeftAfterCancel(old),
           tried \in {orders} \cup LeftAfterFailedPlacement("SL", Smaller(exPos, Full)) :
        \E id \in FreshId \ Ids(tried) : Effect(left, tried, id)
  BY DEF SyncNewStop
<1>b. PICK left \in LeftAfterCancel(old),
           tried \in {orders} \cup LeftAfterFailedPlacement("SL", Smaller(exPos, Full)) :
        \E id \in FreshId \ Ids(tried) : Effect(left, tried, id)
  BY <1>a
<1>1. PICK id \in FreshId \ Ids(tried) : Effect(left, tried, id)
  BY <1>b
<1> DEFINE q == Smaller(exPos, Full)
           n == [id |-> id, kind |-> "SL", qty |-> q]
<1>2. q \in Amount /\ orders \in SUBSET Order
  BY SyncPlacement, Known0 DEF SyncNewStop
<1>3. n \in Order /\ n.id = id /\ n.kind = "SL" /\ n.qty = q
  BY <1>2 DEF Order, FreshId
<1>4. \A o \in orders : o.id # id
  BY DEF FreshId, Ids
<1>5. \A o \in tried : o.id # id
  BY DEF Ids
<1>6. orders' = left \cup (tried \ orders) \cup {n}
  BY <1>1
<1> HIDE DEF n, q
<1>7. left \subseteq orders
  BY Cancelled
<1>8. CASE tried = orders
  BY <1>1, <1>3, <1>4, <1>6, <1>8 DEF q
<1>9. CASE tried # orders
  <2>1. tried \in LeftAfterFailedPlacement("SL", q)
    BY <1>9 DEF q
  <2>2. PICK t \in Order : /\ "unverified" \in Faults
                           /\ t.kind = "SL" /\ t.qty = q /\ tried = orders \cup {t}
                           /\ \A o \in orders : o.id # t.id
    BY <1>2, <1>9, <2>1, GivenUp
  <2>3. tried \ orders = {t} /\ t \in tried
    BY <2>2
  <2>4. orders' = left \cup {t} \cup {n}
    BY <1>6, <2>3
  <2>5. t.id # n.id
    BY <1>3, <1>5, <2>3
  <2>6. QED BY <1>1, <1>3, <1>4, <2>2, <2>4, <2>5 DEF q
<1>10. QED BY <1>8, <1>9

LEMMA SyncFailClosedEffect ==
  ASSUME IInv, SyncFailClosed
  PROVE  \E old \in StopsGivenUp : \E left \in LeftAfterCancel(old) :
           \/ orders' = left
           \/ /\ "unverified" \in Faults
              /\ \E t \in Order : /\ orders' = left \cup {t}
                                  /\ t.kind = "SL" /\ t.qty = Smaller(exPos, Full)
                                  /\ \A o \in orders : o.id # t.id
<1>a. PICK old \in StopsGivenUp :
        \E left \in LeftAfterCancel(old),
           tried \in LeftAfterFailedPlacement("SL", Smaller(exPos, Full)) :
        orders' = left \cup (tried \ orders)
  BY DEF SyncFailClosed
<1>1. PICK left \in LeftAfterCancel(old),
           tried \in LeftAfterFailedPlacement("SL", Smaller(exPos, Full)) :
        orders' = left \cup (tried \ orders)
  BY <1>a
<1>2. Smaller(exPos, Full) \in Amount /\ orders \in SUBSET Order
  BY SyncPlacement, Known0 DEF SyncFailClosed
<1>3. left \subseteq orders
  BY Cancelled
<1>4. \/ tried = orders
      \/ /\ "unverified" \in Faults
         /\ \E t \in Order : /\ tried = orders \cup {t}
                             /\ t.kind = "SL" /\ t.qty = Smaller(exPos, Full)
                             /\ \A o \in orders : o.id # t.id
  BY <1>2, GivenUp
<1>5. CASE tried = orders
  BY <1>1, <1>5
<1>6. CASE tried # orders
  <2>1. PICK t \in Order : /\ "unverified" \in Faults
                           /\ tried = orders \cup {t}
                           /\ t.kind = "SL" /\ t.qty = Smaller(exPos, Full)
                           /\ \A o \in orders : o.id # t.id
    BY <1>4, <1>6
  <2>2. tried \ orders = {t}
    BY <2>1
  <2>3. orders' = left \cup {t}
    BY <1>1, <2>2
  <2>4. QED BY <1>1, <2>1, <2>3
<1>7. QED BY <1>5, <1>6

\* A take profit of an entry that is given up: the stop is cancelled too.
LEMMA EntryTakeProfitFailsEffect ==
  ASSUME IInv, EntryTakeProfitFails
  PROVE  \E left \in LeftAfterCancel({slId}) :
           \/ orders' = left
           \/ /\ "unverified" \in Faults
              /\ \E t \in Order : /\ orders' = left \cup {t}
                                  /\ t.kind = "TP" /\ t.qty = Full
                                  /\ \A o \in orders : o.id # t.id
<1>1. PICK placed \in LeftAfterFailedPlacement("TP", Full), left \in LeftAfterCancel({slId}) :
        orders' = left \cup (placed \ orders)
  BY DEF EntryTakeProfitFails
<1>2. left \subseteq orders /\ orders \in SUBSET Order
  BY Cancelled, Known0
<1>3. \/ placed = orders
      \/ /\ "unverified" \in Faults
         /\ \E t \in Order : /\ placed = orders \cup {t}
                             /\ t.kind = "TP" /\ t.qty = Full
                             /\ \A o \in orders : o.id # t.id
  BY FullIsAnAmount, <1>2, GivenUp
<1>4. CASE placed = orders
  BY <1>1, <1>4
<1>5. CASE placed # orders
  <2>1. PICK t \in Order : /\ "unverified" \in Faults
                           /\ placed = orders \cup {t}
                           /\ t.kind = "TP" /\ t.qty = Full
                           /\ \A o \in orders : o.id # t.id
    BY <1>3, <1>5
  <2>2. placed \ orders = {t}
    BY <2>1
  <2>3. orders' = left \cup {t}
    BY <1>1, <2>2
  <2>4. QED BY <1>1, <2>1, <2>3
<1>6. QED BY <1>4, <1>5

LEMMA IdsUniqueStep ==
  ASSUME IInv, IdsUnique, [Next]_vars
  PROVE  IdsUnique'
<1>1. orders \in SUBSET Order /\ (state = "OPEN" => pos.size \in Amount)
  BY Known0
<1>2. CASE ~Placing
  BY <1>2, OthersPlaceNothing DEF IdsUnique
<1>3. CASE SyncNewStop
  <2>1. PICK old \in StopsGivenUp : \E left \in LeftAfterCancel(old) : \E n \in Order :
          /\ \A o \in orders : o.id # n.id
          /\ \/ orders' = left \cup {n}
             \/ \E t \in Order : /\ orders' = left \cup {t} \cup {n}
                                 /\ t.id # n.id /\ \A o \in orders : o.id # t.id
    BY <1>3, SyncNewStopEffect
  <2>2. PICK left \in LeftAfterCancel(old) : \E n \in Order :
          /\ \A o \in orders : o.id # n.id
          /\ \/ orders' = left \cup {n}
             \/ \E t \in Order : /\ orders' = left \cup {t} \cup {n}
                                 /\ t.id # n.id /\ \A o \in orders : o.id # t.id
    BY <2>1
  <2>3. left \subseteq orders
    BY Cancelled
  <2>4. QED BY <2>2, <2>3 DEF IdsUnique
<1>4. CASE SyncFailClosed
  <2>1. PICK left \in SUBSET orders :
          \/ orders' = left
          \/ \E t \in Order : orders' = left \cup {t} /\ \A o \in orders : o.id # t.id
    BY <1>4, SyncFailClosedEffect, Cancelled
  <2>2. QED BY <2>1 DEF IdsUnique
<1>5. CASE EntryTakeProfitFails
  <2>1. PICK left \in SUBSET orders :
          \/ orders' = left
          \/ \E t \in Order : orders' = left \cup {t} /\ \A o \in orders : o.id # t.id
    BY <1>5, EntryTakeProfitFailsEffect, Cancelled
  <2>2. QED BY <2>1 DEF IdsUnique
<1>6. CASE EntryStop \/ EntryTakeProfit
  BY FullAssumption, <1>1, <1>6, PlacementKeepsIdsUnique DEF EntryStop, EntryTakeProfit, Amount
<1>7. CASE SyncTakeProfit \/ StopReplaced \/ StopNotReplaced \/ CheckTakeProfit \/ TickRecover
           \/ ScaleOutStop \/ ScaleOutTakeProfit \/ ScaleOutFailed
  <2>1. pos.size \in Amount
    BY <1>7, Known0 DEF SyncTakeProfit, StopReplaced, StopNotReplaced, CheckTakeProfit,
       TickRecover,
       ScaleOutStop, ScaleOutTakeProfit, ScaleOutFailed, OpenPc
  <2>2. QED BY <1>1, <1>7, <2>1, PlacementKeepsIdsUnique
        DEF SyncTakeProfit, StopReplaced, StopNotReplaced, CheckTakeProfit, TickRecover,
            ScaleOutStop, ScaleOutTakeProfit, ScaleOutFailed, RecoverStop
<1>8. QED BY <1>2, <1>3, <1>4, <1>5, <1>6, <1>7 DEF Placing


\* A plain step does not add to the position, and does not forget one given up.
LEMMA PlainShrinks ==
  ASSUME IInv, [Next]_vars, ~Special
  PROVE  exPos' <= exPos /\ (unmanaged => unmanaged')
<1>1. CASE RecordTrade
  BY <1>1, Known0 DEF RecordTrade, exchangeVars, amountVars
<1>2. CASE ~RecordTrade
  BY <1>2, QuietStep DEF Quiet, Special
<1>3. QED BY <1>1, <1>2

-----------------------------------------------------------------------------
(***************************************************************************)
(* The stop covers the position.                                           *)
(***************************************************************************)
\* An OPEN engine places, or fails to place, an order for all of what it holds.
LEMMA PlacementKeepsCover ==
  ASSUME IInv, exPos' \in Nat, Cover, state = "OPEN",
         NEW kind \in {"SL", "TP"}, NEW qty \in Amount, ~unmanaged => qty >= exPos,
         UNCHANGED <<exPos, unmanaged, state>>, pc' \notin {"e_tp", "e_market", "sync"},
         \/ \E id \in FreshId : PlaceVerified(kind, qty, id) /\ slId' \in {slId, id}
         \/ orders' \in LeftAfterFailedPlacement(kind, qty) /\ slId' = slId
         \/ orders' = orders /\ slId' = slId
  PROVE  Cover'
<1>1. orders \in SUBSET Order /\ exPos \in Nat
  BY Known0
<1>2. CASE \E id \in FreshId : PlaceVerified(kind, qty, id) /\ slId' \in {slId, id}
  <2>1. PICK id \in FreshId : PlaceVerified(kind, qty, id) /\ slId' \in {slId, id}
    BY <1>2
  <2>2. PICK n \in Order : /\ n.id = id /\ n.kind = kind /\ n.qty = qty
                           /\ orders' = orders \cup {n}
                           /\ id # slId /\ \A o \in orders : o.id # id
    BY <1>1, <2>1, Placed
  <2>3. QED BY <1>1, <2>1, <2>2 DEF Cover, Tracked, StopsCover
<1>3. CASE orders' \in LeftAfterFailedPlacement(kind, qty) /\ slId' = slId
  <2>1. \/ orders' = orders
        \/ \E n \in Order : /\ n.qty = qty /\ orders' = orders \cup {n} /\ n.id # slId
    BY <1>1, <1>3, GivenUp
  <2>2. QED BY <1>1, <1>3, <2>1 DEF Cover, Tracked, StopsCover
<1>4. CASE orders' = orders /\ slId' = slId
  BY <1>4 DEF Cover, Tracked, StopsCover
<1>5. QED BY <1>2, <1>3, <1>4

LEMMA CoverStep ==
  ASSUME "glitch" \notin Faults, "cancel" \notin Faults \/ "crash" \notin Faults,
         IInv, IInv', Exposure, IdsUnique, Cover, [Next]_vars
  PROVE  Cover'
<1>1. /\ orders \in SUBSET Order /\ exPos \in Nat /\ exPos' \in Nat
      /\ \A o \in orders : o.id # NoOrder /\ o.qty \in Amount
      /\ state = "OPEN" => pos.size \in Amount
      /\ ~unmanaged /\ state = "OPEN" => exPos <= pos.size
      /\ ~unmanaged /\ pc \in EntryPc \cup {"sync"} => exPos <= Full
  BY Known0 DEF Exposure, IInv, TypeOK, ExchangeTypeOK
<1>c. Control
  BY DEF IInv, EngineInv
<1>2. CASE ~Special
  <2>1. Plain /\ exPos' <= exPos /\ (unmanaged => unmanaged')
    BY <1>2, PlainStep, PlainShrinks
  <2>2. /\ orders' \subseteq orders
        /\ state' = "OPEN" => state = "OPEN"
        /\ pc' \in {"e_market", "e_tp", "sync"} => pc' = pc
    BY <2>1 DEF Plain, EntryPc
  <2>3. \A o \in orders : o.qty >= exPos => o.qty >= exPos'
    BY FullAssumption, <1>1, <2>1 DEF Amount
  <2>4. Tracked(slId)' \subseteq Tracked(slId)
    BY <1>1, <2>1 DEF Plain, Tracked
  <2>5. StopsCover => StopsCover'
    BY <2>2, <2>3 DEF StopsCover
  <2>6. (\A o \in Tracked(slId) : o.qty >= exPos) => \A o \in Tracked(slId)' : o.qty >= exPos'
    BY <2>3, <2>4 DEF Tracked
  <2>7. pc' = "e_market" /\ orders = {} => orders' = {}
    BY <2>2
  <2>8. QED BY <2>1, <2>2, <2>5, <2>6, <2>7 DEF Cover
<1>3. CASE SyncExistingStop
  <2>1. PICK o \in orders : o.kind = "SL" /\ slId' = o.id
    BY <1>3 DEF SyncExistingStop, Restore
  <2>2. /\ pc = "sync" /\ pc' = "sync_tp" /\ state' = "OPEN"
        /\ UNCHANGED <<orders, exPos, unmanaged>>
    BY <1>3 DEF SyncExistingStop, Restore, Goto, historyVars
  <2>3. QED BY <2>1, <2>2 DEF Cover, Tracked, StopsCover, IdsUnique
<1>4. CASE EntryFilled
  <2>1. /\ pc = "e_market" /\ pc' \in {"e_sl", "e_flatten"}
        /\ UNCHANGED <<orders, unmanaged, state>>
    BY <1>4 DEF EntryFilled, Goto, engineVars
  <2>2. state = "ENTERING"
    BY <1>c, <2>1 DEF Control, EntryPc
  <2>3. QED BY <2>1, <2>2 DEF Cover, StopsCover
<1>5. CASE EntryNotFilled
  <2>1. state' = "FLAT" /\ pc' = "idle" /\ UNCHANGED orders
    BY <1>5 DEF EntryNotFilled, Goto
  <2>2. ~unmanaged' => ~unmanaged /\ exPos' = exPos
    <3>1. PICK q \in 0..Full : exPos' = exPos + q /\ unmanaged' = (unmanaged \/ q > 0)
      BY <1>5 DEF EntryNotFilled
    <3>2. CASE q > 0
      <4>1. unmanaged'
        BY <3>1, <3>2, Zenon
      <4>2. QED BY <4>1
    <3>3. CASE q = 0
      <4>1. exPos' = exPos
        BY <1>1, <3>1, <3>3
      <4>2. ~unmanaged' => ~unmanaged
        BY <3>1, Zenon
      <4>3. QED BY <4>1, <4>2
    <3>4. QED BY FullAssumption, <3>2, <3>3 DEF Amount
  <2>3. QED BY <2>1, <2>2 DEF Cover, StopsCover
<1>6. CASE OnCandleClose \/ OnMarketUpdate
  <2>1. /\ state' = "OPEN" => state = "OPEN"
        /\ pc' \notin {"e_tp", "sync"}
        /\ pc' = "e_market" => orders' \in LeftAfterCancel(Ids(orders))
        /\ orders' \subseteq orders
        /\ UNCHANGED <<exPos, unmanaged, slId>>
    BY <1>6, Cancelled
    DEF OnCandleClose, CandleIdle, CandleOpen, CandleCountsDown, CandleEntry, OnMarketUpdate,
        TickOpen, TickEntry, BeginEntry, TickContinues, ScaleOutOrIdle, Goto, GotoFor,
        engineVars, exchangeVars, amountVars, historyVars
  <2>2. "cancel" \notin Faults /\ pc' = "e_market" => orders' = {}
    BY <2>1, Cancelled DEF Ids
  <2>3. QED BY <2>1, <2>2 DEF Cover, Tracked, StopsCover
<1>7. CASE Restart
  <2>1. /\ "crash" \in Faults /\ state' = "FLAT" /\ pc' = "sync"
        /\ UNCHANGED <<exPos, orders, unmanaged>>
    BY <1>7 DEF Restart, Fault
  <2>2. QED BY <2>1 DEF Cover, StopsCover
<1>8. CASE SyncNewStop
  <2>1. PICK old \in StopsGivenUp : \E left \in LeftAfterCancel(old) : \E n \in Order :
           /\ n.kind = "SL" /\ n.qty = Smaller(exPos, Full)
           /\ \A o \in orders : o.id # n.id
           /\ Restore(n.id)
           /\ \/ orders' = left \cup {n}
              \/ \E t \in Order : /\ orders' = left \cup {t} \cup {n}
                                  /\ t.kind = "SL" /\ t.qty = Smaller(exPos, Full)
                                  /\ t.id # n.id
    BY <1>8, SyncNewStopEffect
  <2>2. PICK left \in LeftAfterCancel(old), n \in Order :
           /\ n.kind = "SL" /\ n.qty = Smaller(exPos, Full)
           /\ \A o \in orders : o.id # n.id
           /\ Restore(n.id)
           /\ \/ orders' = left \cup {n}
              \/ \E t \in Order : /\ orders' = left \cup {t} \cup {n}
                                  /\ t.kind = "SL" /\ t.qty = Smaller(exPos, Full)
                                  /\ t.id # n.id
    BY <2>1
  <2>3. left \subseteq orders
    BY Cancelled
  <2>4. /\ pc = "sync" /\ pc' = "sync_tp" /\ slId' = n.id
        /\ UNCHANGED <<exPos, unmanaged>>
    BY <1>8, <2>2 DEF SyncNewStop, Restore, Goto, historyVars
  <2>5. ~unmanaged => n.qty >= exPos /\ Smaller(exPos, Full) >= exPos
    BY FullAssumption, <1>1, <2>2, <2>4 DEF Smaller
  <2>6. QED BY <2>2, <2>3, <2>4, <2>5 DEF Cover, Tracked, StopsCover
<1>9. CASE SyncFailClosed
  BY <1>9 DEF SyncFailClosed, Cover
<1>10. CASE EntryStop
  <2>1. pc = "e_sl" /\ state = "ENTERING" /\ UNCHANGED <<state, exPos, unmanaged>>
    BY <1>10, <1>c DEF EntryStop, Control, EntryPc, amountVars, historyVars
  <2>2. CASE \E id \in FreshId : PlaceVerified("SL", Full, id) /\ slId' = id /\ Goto("e_tp")
    <3>1. PICK id \in FreshId : PlaceVerified("SL", Full, id) /\ slId' = id /\ Goto("e_tp")
      BY <2>2
    <3>2. PICK n \in Order : /\ n.id = id /\ n.qty = Full /\ orders' = orders \cup {n}
                             /\ \A o \in orders : o.id # id
      BY FullIsAnAmount, <1>1, <3>1, Placed
    <3>3. QED BY <1>1, <2>1, <3>1, <3>2 DEF Cover, Tracked, StopsCover, Goto, EntryPc
  <2>3. CASE /\ orders' \in LeftAfterFailedPlacement("SL", Full)
             /\ Goto("e_flatten")
             /\ UNCHANGED slId
    <3>1. \/ orders' = orders
          \/ \E n \in Order : n.qty = Full /\ orders' = orders \cup {n}
      BY FullIsAnAmount, <1>1, <2>3, GivenUp
    <3>2. QED BY <1>1, <2>1, <2>3, <3>1 DEF Cover, StopsCover, Goto, EntryPc
  <2>4. QED BY <1>10, <2>2, <2>3 DEF EntryStop
<1>11. CASE EntryTakeProfit
  <2>1. PICK id \in FreshId : PlaceVerified("TP", Full, id)
    BY <1>11 DEF EntryTakeProfit
  <2>2. PICK n \in Order : /\ n.id = id /\ n.kind = "TP" /\ orders' = orders \cup {n}
                           /\ id # slId
    BY FullIsAnAmount, <1>1, <2>1, Placed
  <2>3. pc = "e_tp" /\ pc' = "idle" /\ UNCHANGED <<slId, exPos, unmanaged>>
    BY <1>11 DEF EntryTakeProfit, Goto, amountVars, historyVars
  <2>4. QED BY <2>2, <2>3 DEF Cover, Tracked, StopsCover
<1>12. CASE EntryTakeProfitFails
  <2>1. PICK left \in LeftAfterCancel({slId}) :
           \/ orders' = left
           \/ \E t \in Order : orders' = left \cup {t} /\ t.kind = "TP"
    BY <1>12, EntryTakeProfitFailsEffect
  <2>2. left \subseteq orders
    BY Cancelled
  <2>3. /\ pc = "e_tp" /\ state = "ENTERING" /\ pc' = "e_flatten"
        /\ UNCHANGED <<state, exPos, unmanaged>>
    BY <1>12, <1>c DEF EntryTakeProfitFails, Control, EntryPc, Goto, amountVars, historyVars
  <2>4. QED BY <2>1, <2>2, <2>3 DEF Cover, StopsCover
<1>13. CASE SyncTakeProfit \/ StopReplaced \/ StopNotReplaced \/ CheckTakeProfit \/ TickRecover
            \/ ScaleOutStop \/ ScaleOutTakeProfit \/ ScaleOutFailed
  <2>1. /\ state = "OPEN" /\ UNCHANGED <<exPos, unmanaged, state>>
        /\ pc' \notin {"e_tp", "e_market", "sync"}
    BY <1>13, <1>c
    DEF SyncTakeProfit, StopReplaced, StopNotReplaced, CheckTakeProfit, TickRecover, ScaleOutStop,
        ScaleOutTakeProfit, ScaleOutFailed, Control, OpenPc, amountVars, historyVars, engineVars,
        Goto, GotoFor, TickContinues, ScaleOutOrIdle, AfterScaleOut
  <2>2. \E kind \in {"SL", "TP"} :
           \/ \E id \in FreshId : PlaceVerified(kind, pos.size, id) /\ slId' \in {slId, id}
           \/ orders' \in LeftAfterFailedPlacement(kind, pos.size) /\ slId' = slId
           \/ orders' = orders /\ slId' = slId
    <3>1. CASE StopReplaced \/ StopNotReplaced \/ TickRecover \/ ScaleOutStop \/ ScaleOutFailed
      <4>1. \/ \E id \in FreshId : PlaceVerified("SL", pos.size, id) /\ slId' \in {slId, id}
            \/ orders' \in LeftAfterFailedPlacement("SL", pos.size) /\ slId' = slId
            \/ orders' = orders /\ slId' = slId
        BY <3>1 DEF StopReplaced, StopNotReplaced, TickRecover, ScaleOutStop, ScaleOutFailed,
                    RecoverStop, engineVars
      <4>2. QED BY <4>1
    <3>2. CASE SyncTakeProfit \/ CheckTakeProfit \/ ScaleOutTakeProfit
      <4>1. \/ \E id \in FreshId : PlaceVerified("TP", pos.size, id) /\ slId' \in {slId, id}
            \/ orders' \in LeftAfterFailedPlacement("TP", pos.size) /\ slId' = slId
            \/ orders' = orders /\ slId' = slId
        BY <3>2 DEF SyncTakeProfit, CheckTakeProfit, ScaleOutTakeProfit
      <4>2. QED BY <4>1
    <3>3. QED BY <1>13, <3>1, <3>2
  <2>3. PICK kind \in {"SL", "TP"} :
           \/ \E id \in FreshId : PlaceVerified(kind, pos.size, id) /\ slId' \in {slId, id}
           \/ orders' \in LeftAfterFailedPlacement(kind, pos.size) /\ slId' = slId
           \/ orders' = orders /\ slId' = slId
    BY <2>2
  <2>4. pos.size \in Amount /\ (~unmanaged => pos.size >= exPos)
    BY FullAssumption, <1>1, <2>1 DEF Amount
  <2>5. QED BY <1>1, <2>1, <2>3, <2>4, PlacementKeepsCover
<1>14. QED
  BY <1>2, <1>3, <1>4, <1>5, <1>6, <1>7, <1>8, <1>9, <1>10, <1>11, <1>12, <1>13
  DEF Special, Placing


-----------------------------------------------------------------------------
(***************************************************************************)
(* The engine knows every order.                                           *)
(***************************************************************************)
\* A refused cancel, an order that could not be confirmed and a failed query
\* are what the engine can lose sight of an order by.
Sighted == {"cancel", "unverified", "query"} \cap Faults = {}

\* An order is placed only when there is none of its kind.
LEMMA PlacementKeepsOneOfEach ==
  ASSUME OneOfEach, NEW n, orders' \subseteq orders \cup {n}, \A o \in orders : o.kind # n.kind
  PROVE  OneOfEach'
BY DEF OneOfEach

LEMMA KnownStep ==
  ASSUME Sighted, IInv, IInv', Known, [Next]_vars
  PROVE  Known'
<1>1. /\ orders \in SUBSET Order
      /\ \A o \in orders : o.id # NoOrder /\ o.kind \in {"SL", "TP"}
      /\ state = "OPEN" => pos.size \in Amount /\ pos \in OpenPosition
      /\ Control /\ Holding /\ EngineTypeOK
  BY Known0 DEF IInv, EngineInv, EngineTypeOK, Holding, Order
<1>2. ~Fault("cancel") /\ ~Fault("unverified") /\ ~Fault("query")
      /\ "cancel" \notin Faults /\ "unverified" \notin Faults
  BY DEF Sighted, Fault
<1>3. CASE Sync
  <2>1. CASE SyncNothing
    <3>1. state' = "FLAT" /\ pc' = "idle" /\ UNCHANGED orders
      BY <1>1, <2>1 DEF SyncNothing, Goto, engineVars, exchangeVars, Control
    <3>2. QED BY <3>1 DEF Known, OneOfEach
  <2>2. CASE SyncExistingStop
    <3>1. PICK o \in orders : o.kind = "SL" /\ Restore(o.id)
      BY <2>2 DEF SyncExistingStop
    <3>2. /\ slId' = o.id /\ state' = "OPEN" /\ pc' = "sync_tp" /\ UNCHANGED <<orders, tpId>>
          /\ pos'.tp \/ \A x \in orders : x.kind # "TP"
      BY <1>2, <2>2, <3>1 DEF SyncExistingStop, Restore, Goto
    <3>3. pc = "sync" /\ tpId = NoOrder
      BY <2>2 DEF SyncExistingStop, IInv, EngineInv, Control, OrdersKnown
    <3>4. QED BY <1>1, <3>1, <3>2, <3>3 DEF Known, OneOfEach, EntryPc
  <2>3. CASE SyncNewStop
    <3>1. PICK old \in StopsGivenUp : \E left \in LeftAfterCancel(old) : \E n \in Order :
             /\ n.kind = "SL" /\ Restore(n.id) /\ orders' = left \cup {n}
      BY <1>2, <2>3, SyncNewStopEffect
    <3>2. PICK left \in LeftAfterCancel(old), n \in Order :
             n.kind = "SL" /\ Restore(n.id) /\ orders' = left \cup {n}
      BY <3>1
    <3>3. left \subseteq orders /\ \A o \in left : o.id \notin old
      BY <1>2, Cancelled
    <3>4. \A o \in left : o.kind # "SL"
      BY <1>2, <3>3 DEF StopsGivenUp, Known, OneOfEach
    <3>5. /\ slId' = n.id /\ state' = "OPEN" /\ pc' = "sync_tp" /\ UNCHANGED tpId
          /\ pos'.tp \/ \A x \in orders : x.kind # "TP"
      BY <1>2, <3>2 DEF Restore, Goto
    <3>6. pc = "sync" /\ tpId = NoOrder
      BY <2>3 DEF SyncNewStop, IInv, EngineInv, Control, OrdersKnown
    <3>7. OneOfEach'
      BY <3>2, <3>3, <3>4 DEF Known, OneOfEach
    <3>8. QED BY <1>1, <3>2, <3>3, <3>4, <3>5, <3>6, <3>7 DEF Known, EntryPc
  <2>4. CASE SyncFailClosed
    <3>1. orders' \subseteq orders
      BY <1>2, <2>4, SyncFailClosedEffect, Cancelled
    <3>2. state' = "FLAT" /\ pc' = "idle"
      BY <1>1, <2>4 DEF SyncFailClosed, Control, Goto, engineVars
    <3>3. QED BY <3>1, <3>2 DEF Known, OneOfEach
  <2>5. CASE SyncTakeProfit
    <3>1. pc = "sync_tp" /\ pc' = "idle" /\ state = "OPEN" /\ UNCHANGED <<state, slId>>
      BY <1>1, <2>5 DEF SyncTakeProfit, Goto, Control
    <3>2. CASE /\ pos.tp
               /\ tpId' \in {o.id : o \in {x \in orders : x.kind = "TP"}}
                     \cup (IF \A x \in orders : x.kind # "TP" THEN {NoOrder} ELSE {})
               /\ UNCHANGED <<pos, orders>>
      BY <1>1, <3>1, <3>2 DEF Known, OneOfEach
    <3>3. CASE /\ ~pos.tp
               /\ \E id \in FreshId : PlaceVerified("TP", pos.size, id) /\ tpId' = id
               /\ pos' = [pos EXCEPT !.tp = TRUE]
      <4>1. PICK n \in Order : /\ tpId' = n.id /\ n.kind = "TP" /\ orders' = orders \cup {n}
        BY <1>1, <3>1, <3>3, Placed
      <4>2. pos'.tp
        BY <1>1, <3>1, <3>3 DEF OpenPosition
      <4>3. \A o \in orders : o.kind # "TP"
        BY <3>1, <3>3 DEF Known
      <4>4. OneOfEach'
        BY <4>1, <4>3, PlacementKeepsOneOfEach DEF Known
      <4>5. QED BY <3>1, <4>1, <4>2, <4>3, <4>4 DEF Known
    <3>4. CASE ~pos.tp /\ UNCHANGED <<pos, tpId, orders>>
      BY <1>1, <3>1, <3>4 DEF Known, OneOfEach
    <3>5. QED BY <1>2, <2>5, <3>2, <3>3, <3>4 DEF SyncTakeProfit
  <2>6. QED BY <1>3, <2>1, <2>2, <2>3, <2>4, <2>5 DEF Sync
<1>4. CASE Entry
  <2>1. CASE EntryFilled
    BY <1>1, <2>1 DEF EntryFilled, Known, OneOfEach, Goto, engineVars, Control, EntryPc
  <2>2. CASE EntryNotFilled
    BY <1>1, <2>2 DEF EntryNotFilled, Known, OneOfEach, Goto
  <2>3. CASE EntryStop
    <3>1. pc = "e_sl" /\ state = "ENTERING" /\ state' = "ENTERING" /\ orders = {}
      BY <1>1, <2>3 DEF EntryStop, Control, EntryPc, Known
    <3>2. CASE \E id \in FreshId : PlaceVerified("SL", Full, id) /\ slId' = id /\ Goto("e_tp")
      <4>1. PICK n \in Order : /\ slId' = n.id /\ n.kind = "SL" /\ orders' = orders \cup {n}
        BY FullIsAnAmount, <1>1, <3>2, Placed
      <4>2. pc' = "e_tp"
        BY <3>2 DEF Goto
      <4>3. QED BY <3>1, <4>1, <4>2 DEF Known, OneOfEach
    <3>3. CASE orders' \in LeftAfterFailedPlacement("SL", Full) /\ Goto("e_flatten")
      <4>1. orders' = orders
        BY FullIsAnAmount, <1>1, <1>2, <3>3, GivenUp
      <4>2. QED BY <3>1, <3>3, <4>1 DEF Known, OneOfEach, Goto
    <3>4. QED BY <2>3, <3>2, <3>3 DEF EntryStop
  <2>4. CASE EntryTakeProfit
    <3>1. PICK n \in Order : /\ tpId' = n.id /\ n.kind = "TP" /\ orders' = orders \cup {n}
      BY FullIsAnAmount, <1>1, <2>4, Placed DEF EntryTakeProfit
    <3>2. /\ pc = "e_tp" /\ pc' = "idle" /\ state' = "OPEN" /\ slId' = slId /\ pos'.tp
      BY <2>4 DEF EntryTakeProfit, Goto
    <3>3. OneOfEach'
      BY <3>1, <3>2, PlacementKeepsOneOfEach DEF Known
    <3>4. QED BY <3>1, <3>2, <3>3 DEF Known
  <2>5. CASE EntryTakeProfitFails
    <3>1. PICK left \in LeftAfterCancel({slId}) : orders' = left
      BY <1>2, <2>5, EntryTakeProfitFailsEffect
    <3>2. pc = "e_tp" /\ pc' = "e_flatten" /\ state' = "ENTERING"
      BY <1>1, <2>5 DEF EntryTakeProfitFails, Goto, Control, EntryPc
    <3>3. orders' = {}
      BY <1>2, <3>1, <3>2, Cancelled DEF Known
    <3>4. QED BY <3>2, <3>3 DEF Known, OneOfEach
  <2>6. CASE EntryFlatten
    BY <2>6 DEF EntryFlatten, Known, OneOfEach, Goto
  <2>7. QED BY <1>4, <2>1, <2>2, <2>3, <2>4, <2>5, <2>6 DEF Entry
<1>5. CASE StillOpen \/ FallbackNoted \/ FallbackRecord \/ FallbackDeferred \/ StopBelievedActive
           \/ HealthFlatten
  <2>1. /\ state = "OPEN" /\ UNCHANGED <<engineVars, orders>>
        /\ pc \in {"c_flat", "h_sl", "h_flatten"}
        /\ pc' \in {"idle", "x_check", "s_cancel", "h_sl", "h_tp", "r_record"}
    BY <1>1, <1>5
    DEF StillOpen, FallbackNoted, FallbackRecord, FallbackDeferred, StopBelievedActive,
        HealthFlatten, Goto, GotoFor, GoRecord, Control, OpenPc, exchangeVars
  <2>2. QED BY <2>1 DEF Known, OneOfEach, engineVars
<1>6. CASE StopReplaced \/ StopNotReplaced
  <2>1. /\ pc = "h_sl" /\ pc' \in {"h_tp", "h_flatten"} /\ state = "OPEN"
        /\ UNCHANGED <<state, pos, tpId>>
        /\ Tracked(slId) = {}
    BY <1>1, <1>2, <1>6 DEF StopReplaced, StopNotReplaced, StopSeenMissing, Goto, Control, OpenPc,
       engineVars
  <2>2. \A o \in orders : o.kind = "TP"
    BY <1>1, <2>1 DEF Known, Tracked
  <2>3. CASE \E id \in FreshId : PlaceVerified("SL", pos.size, id) /\ slId' = id
    <3>1. PICK n \in Order : slId' = n.id /\ n.kind = "SL" /\ orders' = orders \cup {n}
      BY <1>1, <2>1, <2>3, Placed
    <3>2. OneOfEach'
      BY <2>2, <3>1, PlacementKeepsOneOfEach DEF Known
    <3>3. QED BY <2>1, <2>2, <3>1, <3>2 DEF Known
  <2>4. CASE orders' \in LeftAfterFailedPlacement("SL", pos.size) /\ slId' = slId
    <3>1. orders' = orders
      BY <1>1, <1>2, <2>1, <2>4, GivenUp
    <3>2. QED BY <2>1, <2>4, <3>1 DEF Known, OneOfEach
  <2>5. QED BY <1>6, <2>3, <2>4 DEF StopReplaced, StopNotReplaced, engineVars
<1>7. CASE CheckTakeProfit
  <2>1. /\ pc = "h_tp" /\ pc' \in {"idle", "x_check"} /\ state = "OPEN" /\ UNCHANGED <<state, slId>>
    BY <1>1, <1>7 DEF CheckTakeProfit, Goto, GotoFor, Control, OpenPc
  <2>2. CASE UNCHANGED <<pos, tpId, orders>>
    BY <2>1, <2>2 DEF Known, OneOfEach
  <2>3. CASE /\ pos.tp => tpId = NoOrder
             /\ pos' = [pos EXCEPT !.tp = TRUE]
             /\ \/ \E id \in FreshId : PlaceVerified("TP", pos.size, id) /\ tpId' = id
                \/ orders' \in LeftAfterFailedPlacement("TP", pos.size) /\ tpId' = NoOrder
    <3>1. tpId = NoOrder /\ \A o \in orders : o.kind # "TP"
      BY <1>1, <2>1, <2>3 DEF Known
    <3>2. pos'.tp
      BY <1>1, <2>1, <2>3 DEF OpenPosition
    <3>3. CASE \E id \in FreshId : PlaceVerified("TP", pos.size, id) /\ tpId' = id
      <4>1. PICK n \in Order : tpId' = n.id /\ n.kind = "TP" /\ orders' = orders \cup {n}
        BY <1>1, <2>1, <3>3, Placed
      <4>2. OneOfEach'
        BY <3>1, <4>1, PlacementKeepsOneOfEach DEF Known
      <4>3. QED BY <2>1, <3>1, <3>2, <4>1, <4>2 DEF Known
    <3>4. CASE orders' \in LeftAfterFailedPlacement("TP", pos.size) /\ tpId' = NoOrder
      <4>1. orders' = orders
        BY <1>1, <1>2, <2>1, <3>4, GivenUp
      <4>2. QED BY <2>1, <3>1, <3>2, <3>4, <4>1 DEF Known, OneOfEach
    <3>5. QED BY <2>3, <3>3, <3>4
  <2>4. QED BY <1>7, <2>2, <2>3 DEF CheckTakeProfit
<1>8. ASSUME pc \in {"t_recover", "s_fail"}, RecoverStop(pos.size), UNCHANGED <<state, pos, tpId>>,
             pc' \in {"idle", "x_check", "s_cancel", "h_sl"}
      PROVE  Known'
  <2>1. state = "OPEN" /\ \A o \in orders : o.kind = "TP"
    BY <1>1, <1>8 DEF Known, Control, OpenPc
  <2>2. CASE \E id \in FreshId : PlaceVerified("SL", pos.size, id) /\ slId' = id
    <3>1. PICK n \in Order : slId' = n.id /\ n.kind = "SL" /\ orders' = orders \cup {n}
      BY <1>1, <2>1, <2>2, Placed
    <3>2. OneOfEach'
      BY <2>1, <3>1, PlacementKeepsOneOfEach DEF Known
    <3>3. QED BY <1>8, <2>1, <3>1, <3>2 DEF Known
  <2>3. CASE UNCHANGED <<slId, orders>>
    BY <1>8, <2>1, <2>3 DEF Known, OneOfEach
  <2>4. CASE orders' \in LeftAfterFailedPlacement("SL", pos.size) /\ UNCHANGED slId
    <3>1. orders' = orders
      BY <1>1, <1>2, <2>1, <2>4, GivenUp
    <3>2. QED BY <2>3, <2>4, <3>1
  <2>5. QED BY <1>8, <2>2, <2>3, <2>4 DEF RecoverStop
<1>9. CASE TickRecover
  BY <1>8, <1>9 DEF TickRecover, TickContinues, ScaleOutOrIdle, Goto, GotoFor
<1>10. CASE CancelForClose \/ ScaleOutCancel
  <2>1. /\ pc \in {"x_check", "s_cancel"} /\ state = "OPEN" /\ UNCHANGED <<state, pos>>
        /\ pc' \in {"x_order", "s_half"} /\ tpId' = NoOrder
        /\ orders' \in LeftAfterCancel({slId, tpId})
    BY <1>1, <1>10 DEF CancelForClose, ScaleOutCancel, Goto, Control, OpenPc
  <2>2. orders' = {}
    BY <1>1, <1>2, <2>1, Cancelled DEF Known
  <2>3. QED BY <2>1, <2>2 DEF Known, OneOfEach
<1>11. CASE CloseAlreadyFlat \/ CloseOrder \/ CloseConfirm \/ SignalCloseFailed
  <2>1. /\ state = "OPEN" /\ UNCHANGED <<engineVars, orders>>
        /\ pc \in {"x_check", "x_order", "x_confirm", "x_failed"}
        /\ pc' \in {"idle", "x_confirm", "x_failed", "s_cancel", "r_record"}
    BY <1>1, <1>11
    DEF CloseAlreadyFlat, CloseOrder, CloseConfirm, SignalCloseFailed, CloseFails, ScaleOutOrIdle,
        Goto, GotoFor, GoRecord, Control, OpenPc, exchangeVars
  <2>2. QED BY <2>1 DEF Known, OneOfEach, engineVars
<1>12. CASE Record
  <2>1. CASE RecordFinish
    <3>1. orders' \subseteq orders /\ state' = "FLAT" /\ pc' = "idle"
      BY <2>1, Cancelled DEF RecordFinish, Goto
    <3>2. QED BY <3>1 DEF Known, OneOfEach
  <2>2. CASE RecordTrade \/ RecordRaises \/ FinishRaises
    <3>1. /\ state \in {"OPEN", "CLOSING"} /\ state' = "CLOSING"
          /\ UNCHANGED <<pos, slId, tpId, orders>>
          /\ pc \in {"r_record", "r_finish"} /\ pc' \in {"idle", "r_finish"}
      BY <1>1, <2>2
      DEF RecordTrade, RecordRaises, FinishRaises, CloseRequested, Goto, Control, OpenPc,
          exchangeVars, engineVars
    <3>2. QED BY <3>1 DEF Known, OneOfEach
  <2>3. QED BY <1>12, <2>1, <2>2 DEF Record
<1>13. CASE ScaleOutStep
  <2>1. CASE ScaleOutHalf
    BY <1>1, <2>1 DEF ScaleOutHalf, Known, OneOfEach, engineVars, Goto
  <2>2. CASE ScaleOutPoll
    <3>1. /\ pc = "s_poll" /\ state = "OPEN" /\ orders = {} /\ UNCHANGED <<state, slId, tpId, orders>>
          /\ pc' \in {"idle", "h_sl", "s_sl", "s_fail"}
      BY <1>1, <2>2 DEF ScaleOutPoll, AfterScaleOut, Goto, Control, OpenPc, Known, exchangeVars
    <3>2. pos'.tp = pos.tp
      BY <1>1, <2>2, <3>1 DEF ScaleOutPoll, OpenPosition
    <3>3. QED BY <3>1, <3>2 DEF Known, OneOfEach
  <2>3. CASE ScaleOutStop
    <3>1. /\ pc = "s_sl" /\ state = "OPEN" /\ orders = {} /\ UNCHANGED <<state, pos, tpId>>
      BY <1>1, <2>3 DEF ScaleOutStop, Control, OpenPc, Known
    <3>2. CASE /\ \E id \in FreshId : PlaceVerified("SL", pos.size, id) /\ slId' = id
               /\ IF pos.tp THEN Goto("s_tp") ELSE AfterScaleOut
      <4>1. PICK n \in Order : slId' = n.id /\ n.kind = "SL" /\ orders' = orders \cup {n}
        BY <1>1, <3>1, <3>2, Placed
      <4>2. pc' \in {"s_tp", "h_sl", "idle"} /\ (pc' = "s_tp" => pos.tp)
        BY <3>2 DEF AfterScaleOut, Goto
      <4>3. QED BY <3>1, <4>1, <4>2 DEF Known, OneOfEach
    <3>3. CASE orders' \in LeftAfterFailedPlacement("SL", pos.size) /\ Goto("s_fail") /\ UNCHANGED slId
      <4>1. orders' = orders
        BY <1>1, <1>2, <3>1, <3>3, GivenUp
      <4>2. QED BY <3>1, <3>3, <4>1 DEF Known, OneOfEach, Goto
    <3>4. QED BY <2>3, <3>2, <3>3 DEF ScaleOutStop
  <2>4. CASE ScaleOutTakeProfit
    <3>1. /\ pc = "s_tp" /\ state = "OPEN" /\ UNCHANGED <<state, pos, slId>>
          /\ \A o \in orders : o.kind = "SL"
          /\ pc' \in {"h_sl", "idle"}
      BY <1>1, <1>2, <2>4 DEF ScaleOutTakeProfit, Control, OpenPc, Known, AfterScaleOut, Goto
    <3>2. CASE \E id \in FreshId : PlaceVerified("TP", pos.size, id) /\ tpId' = id
      <4>1. PICK n \in Order : tpId' = n.id /\ n.kind = "TP" /\ orders' = orders \cup {n}
        BY <1>1, <3>1, <3>2, Placed
      <4>2. pos.tp
        BY <3>1 DEF Known
      <4>3. QED BY <3>1, <4>1, <4>2 DEF Known, OneOfEach
    <3>3. CASE orders' \in LeftAfterFailedPlacement("TP", pos.size) /\ UNCHANGED tpId
      <4>1. orders' = orders
        BY <1>1, <1>2, <3>1, <3>3, GivenUp
      <4>2. QED BY <3>1, <3>3, <4>1 DEF Known, OneOfEach
    <3>4. QED BY <1>2, <2>4, <3>2, <3>3 DEF ScaleOutTakeProfit
  <2>5. CASE ScaleOutFailed
    BY <1>8, <2>5 DEF ScaleOutFailed, AfterScaleOut, Goto
  <2>6. QED BY <1>10, <1>13, <2>1, <2>2, <2>3, <2>4, <2>5 DEF ScaleOutStep
<1>14. CASE Dispatch
  <2>1. CASE OnCandleClose \/ OnMarketUpdate
    <3>1. CASE \E c \in {"candle", "tick"} : BeginEntry(c)
      <4>1. pc' = "e_market" /\ state' = "ENTERING" /\ orders' = {}
        BY <1>2, <3>1, Cancelled DEF BeginEntry, GotoFor, Ids
      <4>2. QED BY <4>1 DEF Known, OneOfEach
    <3>2. CASE ~\E c \in {"candle", "tick"} : BeginEntry(c)
      <4>1. /\ pc = "idle" /\ UNCHANGED <<engineVars, orders>>
            /\ pc' \in {"idle", "c_flat", "t_recover", "x_check", "s_cancel"}
            /\ pc' = "t_recover" => slId = NoOrder /\ state = "OPEN"
        BY <2>1, <3>2
        DEF OnCandleClose, CandleIdle, CandleOpen, CandleCountsDown, CandleEntry, OnMarketUpdate,
            TickOpen, TickEntry, TickContinues, ScaleOutOrIdle, Goto, GotoFor, exchangeVars
      <4>2. QED BY <1>1, <4>1 DEF Known, OneOfEach, engineVars
    <3>3. QED BY <3>1, <3>2
  <2>2. CASE MissedCandle \/ FillIgnored \/ FillCloses
    <3>1. /\ pc = "idle" /\ UNCHANGED <<engineVars, orders>> /\ pc' \in {"idle", "r_record"}
      BY <2>2 DEF MissedCandle, FillIgnored, FillCloses, GoRecord, GotoFor, exchangeVars
    <3>2. QED BY <3>1 DEF Known, OneOfEach, engineVars
  <2>3. QED BY <1>14, <2>1, <2>2 DEF Dispatch
<1>15. CASE Environment
  <2>1. CASE Restart
    BY <2>1 DEF Restart, Known, OneOfEach
  <2>2. CASE ~Restart
    <3>1. orders' \subseteq orders /\ UNCHANGED engineSide
      BY <1>15, <2>2 DEF Environment, Trigger, Expire, ManualClose, LoseFill
    <3>2. QED BY <3>1 DEF Known, OneOfEach, engineSide, engineVars
  <2>3. QED BY <2>1, <2>2
<1>16. CASE UNCHANGED vars
  BY <1>16 DEF vars, engineVars, exchangeVars, Known, OneOfEach
<1>17. QED
  BY <1>3, <1>4, <1>5, <1>6, <1>7, <1>9, <1>10, <1>11, <1>12, <1>13, <1>14, <1>15, <1>16
  DEF Next, HandlerStep, Candle, Close


-----------------------------------------------------------------------------
(***************************************************************************)
(* The stop of an entry.                                                   *)
(***************************************************************************)
LEMMA EntryStopLiveStep ==
  ASSUME "vanish" \notin Faults, IInv, Exposure, IdsUnique, EntryStopLive, [Next]_vars
  PROVE  EntryStopLive'
<1>1. SUFFICES ASSUME pc' = "e_tp", ~unmanaged'
               PROVE  /\ slId' # NoOrder
                      /\ exPos' > 0 => \E o \in orders' : o.id = slId' /\ o.qty = Full
  BY DEF EntryStopLive
<1>2. ExchangeTypeOK /\ ep \in Nat /\ orders \in SUBSET Order /\ Control
  BY Known0 DEF IInv, TypeOK, HistoryTypeOK, EngineInv
<1>3. CASE EntryStop
  <2>1. PICK id \in FreshId : PlaceVerified("SL", Full, id) /\ slId' = id
    BY <1>1, <1>3 DEF EntryStop, Goto
  <2>2. PICK n \in Order : n.id = id /\ n.qty = Full /\ orders' = orders \cup {n}
    BY FullIsAnAmount, <1>2, <2>1, Placed
  <2>3. id # NoOrder
    BY ConstantsAssumption DEF FreshId
  <2>4. QED BY <2>1, <2>2, <2>3
<1>4. CASE ~EntryStop
  <2>1. pc = "e_tp" /\ UNCHANGED <<slId, unmanaged>>
        /\ (Environment \/ UNCHANGED vars)
    BY <1>1, <1>2, <1>4
    DEF Next, HandlerStep, Sync, Entry, Candle, TickRecover, Close, Record, ScaleOutStep, Dispatch,
        SyncNothing, SyncExistingStop, SyncNewStop, SyncFailClosed, SyncTakeProfit, Restore,
        EntryFilled, EntryNotFilled, EntryTakeProfit, EntryTakeProfitFails, EntryFlatten,
        StillOpen, FallbackNoted, FallbackRecord, FallbackDeferred, StopBelievedActive, StopReplaced,
        StopNotReplaced, HealthFlatten, CheckTakeProfit, TickContinues, ScaleOutOrIdle,
        CloseAlreadyFlat, CancelForClose, CloseOrder, CloseConfirm, SignalCloseFailed, CloseFails,
        RecordTrade, RecordRaises, RecordFinish, FinishRaises, ScaleOutCancel, ScaleOutHalf,
        ScaleOutPoll, ScaleOutStop, ScaleOutTakeProfit, ScaleOutFailed, AfterScaleOut,
        OnCandleClose, CandleIdle, CandleOpen, CandleCountsDown, CandleEntry, MissedCandle,
        OnMarketUpdate, TickOpen, TickEntry, BeginEntry, FillIgnored, FillCloses, GoRecord, Goto,
        GotoFor, Environment, Trigger, Expire, ManualClose, LoseFill, Restart, engineSide,
        engineVars, historyVars, vars
  <2>2. slId # NoOrder /\ (exPos > 0 => \E o \in orders : o.id = slId /\ o.qty = Full)
        /\ exPos <= Full
    BY <1>1, <2>1 DEF EntryStopLive, Exposure, EntryPc
  <2>3. CASE \E o \in orders : Trigger(o)
    <3>1. PICK t \in orders : Trigger(t)
      BY <2>3
    <3>2. Reduce(t.qty) /\ orders' = orders \ {t} /\ t.qty \in Amount
      BY <1>2, <3>1 DEF Trigger, Order
    <3>3. exPos' \in Nat /\ exPos' < exPos /\ (exPos <= t.qty => exPos' = 0)
      BY <1>2, <3>2, ReduceShrinks
    <3>4. exPos > 0
      BY <1>2, <3>3 DEF ExchangeTypeOK
    <3>5. PICK o \in orders : o.id = slId /\ o.qty = Full
      BY <2>2, <3>4
    <3>6. QED BY <2>1, <2>2, <3>2, <3>3, <3>5
  <2>4. CASE \E o \in orders : Expire(o)
    BY <1>2, <2>1, <2>2, <2>4 DEF Expire, Fault, amountVars, ExchangeTypeOK
  <2>5. CASE ManualClose \/ LoseFill
    BY <2>1, <2>2, <2>5 DEF ManualClose, LoseFill
  <2>6. CASE Restart
    BY <1>1, <2>6 DEF Restart
  <2>7. CASE UNCHANGED vars
    BY <2>1, <2>2, <2>7 DEF vars, exchangeVars, amountVars
  <2>8. QED BY <2>1, <2>3, <2>4, <2>5, <2>6, <2>7 DEF Environment
<1>5. QED BY <1>3, <1>4

-----------------------------------------------------------------------------
(***************************************************************************)
(* The whole position.                                                     *)
(***************************************************************************)
\* What half of a position could be left by: a refused cancel, a failed query
\* and an answer that hides an execution; and a position misread as flat.
Unhalved == {"glitch", "cancel", "query", "ghost"} \cap Faults = {}

LEMMA WholeIsClosedAtOnce ==
  ASSUME IInv, NEW q \in Amount, exPos <= q, Reduce(q)
  PROVE  exPos' = 0
BY ReduceShrinks DEF IInv, TypeOK, ExchangeTypeOK, HistoryTypeOK

\* The same steps: the size of an OPEN position shrinks to nothing at once.
LEMMA WholePlainStep ==
  ASSUME Unhalved, IInv, IInv', Exposure, Whole, [Next]_vars, ~Special, ~ScaleOutStep,
         ~unmanaged'
  PROVE  /\ exPos' \in {exPos, 0} \/ state' # "OPEN"
         /\ exPos' <= exPos /\ ~unmanaged
         /\ state' = "OPEN" => pos' = pos
         /\ pc' \in {"s_half", "s_poll"} => pc' = pc
         /\ pc = "s_poll" => pc' = pc
<1>1. exPos' <= exPos /\ ~unmanaged
  BY PlainShrinks
<1>2. /\ ExchangeTypeOK /\ ep \in Nat /\ exPos \in Nat /\ Control
      /\ state = "OPEN" => pos.size \in Amount /\ exPos <= pos.size
      /\ \A o \in orders : o.qty \in Amount /\ o.qty >= exPos
  BY <1>1, Known0 DEF IInv, TypeOK, HistoryTypeOK, EngineInv, Exposure, Whole
<1>3. ~Fault("ghost")
  BY DEF Unhalved, Fault
<1> USE DEF Goto, GotoFor, engineVars, exchangeVars, amountVars
<1>4. CASE Sync
  BY <1>1, <1>4 DEF Sync, Special, Placing, SyncNothing
<1>5. CASE Entry
  BY <1>1, <1>5 DEF Entry, Special, Placing, EntryFlatten
<1>6. CASE Candle
  <2>1. CASE HealthFlatten
    <3>1. state = "OPEN"
      BY <1>2, <2>1 DEF HealthFlatten, Control, OpenPc
    <3>2. exPos' \in {exPos, 0}
      BY <1>2, <1>3, <2>1, <3>1, WholeIsClosedAtOnce DEF HealthFlatten, FlattenOrder
    <3>3. QED BY <1>1, <2>1, <3>2 DEF HealthFlatten
  <2>2. CASE StillOpen
    BY <1>1, <2>2 DEF StillOpen, ScaleOutPossible
  <2>3. CASE FallbackNoted \/ FallbackRecord \/ FallbackDeferred \/ StopBelievedActive
    BY <1>1, <2>3 DEF FallbackNoted, FallbackRecord, FallbackDeferred, StopBelievedActive, GoRecord
  <2>4. QED BY <1>6, <2>1, <2>2, <2>3 DEF Candle, Special, Placing
<1>7. CASE Close
  <2>1. CASE CloseOrder
    <3>1. state = "OPEN"
      BY <1>2, <2>1 DEF CloseOrder, Control, OpenPc
    <3>2. exPos' \in {exPos, 0}
      BY <1>2, <1>3, <2>1, <3>1, WholeIsClosedAtOnce DEF CloseOrder
    <3>3. QED
      BY <1>1, <2>1, <3>2 DEF CloseOrder, CloseFails, ScaleOutOrIdle, ScaleOutPossible, GoRecord
  <2>2. CASE CloseAlreadyFlat \/ CancelForClose \/ CloseConfirm \/ SignalCloseFailed
    BY <1>1, <2>2 DEF CloseAlreadyFlat, CancelForClose, CloseConfirm, SignalCloseFailed,
       CloseFails,
       ScaleOutOrIdle, ScaleOutPossible, GoRecord
  <2>3. QED BY <1>7, <2>1, <2>2 DEF Close
<1>8. CASE Record
  BY <1>1, <1>8 DEF Record, RecordTrade, RecordRaises, RecordFinish, FinishRaises, CloseRequested
<1>9. CASE Dispatch
  BY <1>1, <1>9 DEF Dispatch, Special, MissedCandle, FillIgnored, FillCloses, GoRecord
<1>10. CASE Environment
  <2>1. CASE \E o \in orders : Trigger(o)
    BY <1>1, <1>2, <2>1, WholeIsClosedAtOnce DEF Trigger, engineSide
  <2>2. CASE (\E o \in orders : Expire(o)) \/ ManualClose \/ LoseFill
    BY <1>1, <2>2 DEF Expire, ManualClose, LoseFill, engineSide
  <2>3. QED BY <1>10, <2>1, <2>2 DEF Environment, Special
<1>11. CASE UNCHANGED vars
  BY <1>1, <1>11 DEF vars
<1>12. QED
  BY <1>4, <1>5, <1>6, <1>7, <1>8, <1>9, <1>10, <1>11 DEF Next, HandlerStep, Special, Placing

LEMMA WholeStep ==
  ASSUME Unhalved, IInv, IInv', Exposure, Whole, [Next]_vars
  PROVE  Whole'
<1>1. SUFFICES ASSUME ~unmanaged' PROVE Whole'
  BY DEF Whole
<1>2. /\ ExchangeTypeOK /\ ep \in Nat /\ exPos \in Nat /\ exPos' \in Nat /\ Control
      /\ orders \in SUBSET Order /\ \A o \in orders : o.qty \in Amount
      /\ state = "OPEN" => pos.size \in Amount /\ pos \in OpenPosition
      /\ unmanaged \in BOOLEAN
  BY Known0 DEF IInv, TypeOK, ExchangeTypeOK, HistoryTypeOK, EngineInv, EngineTypeOK, Holding
<1>3. ~Fault("ghost") /\ ~Fault("query") /\ (ReadsFlat => exPos = 0) /\ "cancel" \notin Faults
  BY DEF Unhalved, Fault, ReadsFlat
<1>4. CASE ~Special /\ ~ScaleOutStep
  <2>1. Plain
    BY <1>4, PlainStep
  <2>2. /\ exPos' \in {exPos, 0} \/ state' # "OPEN"
        /\ exPos' <= exPos /\ ~unmanaged
        /\ state' = "OPEN" => pos' = pos
        /\ pc' \in {"s_half", "s_poll"} => pc' = pc
        /\ pc = "s_poll" => pc' = pc
    BY <1>1, <1>4, WholePlainStep
  <2>3. Control'
    BY DEF IInv, EngineInv
  <2>4. /\ \A o \in orders' : o.qty >= exPos'
        /\ pc' = "e_market" => orders' = {}
    BY FullAssumption, <1>2, <2>1, <2>2 DEF Whole, Plain, EntryPc, Amount
  <2>5. pc' \in {"e_sl", "e_tp", "e_flatten"} => exPos' \in {0, Full}
    <3>1. SUFFICES ASSUME pc' \in {"e_sl", "e_tp", "e_flatten"} PROVE exPos' \in {0, Full}
      OBVIOUS
    <3>2. pc' = pc /\ exPos \in {0, Full} /\ pc' \in EntryPc
      BY <2>1, <2>2, <3>1 DEF Plain, EntryPc, Whole
    <3>3. (\E o \in orders : Trigger(o) \/ Expire(o)) \/ ManualClose \/ LoseFill \/ UNCHANGED vars
      BY <1>4, <3>1, <3>2
      DEF Next, HandlerStep, Special, Placing, Sync, Entry, Candle, Close, Record, Dispatch,
          SyncNothing, EntryFlatten, StillOpen, FallbackNoted, FallbackRecord, FallbackDeferred,
          StopBelievedActive, HealthFlatten, CloseAlreadyFlat, CancelForClose, CloseOrder,
          CloseConfirm, SignalCloseFailed, RecordTrade, RecordRaises, RecordFinish, FinishRaises,
          CloseRequested, MissedCandle, FillIgnored, FillCloses, Environment, Goto
    <3>4. \A o \in orders : Trigger(o) => exPos' = 0
      BY <1>2, <2>2, WholeIsClosedAtOnce DEF Whole, Trigger
    <3>5. QED BY <3>2, <3>3, <3>4 DEF Expire, ManualClose, LoseFill, vars, exchangeVars, amountVars
  <2>6. state' = "OPEN" => state = "OPEN" /\ pos' = pos /\ exPos' \in {exPos, 0}
    BY <2>1, <2>2 DEF Plain
  <2>7. state' = "OPEN" /\ pc' # "s_poll" => exPos' \in {0, pos'.size}
    BY <2>2, <2>6 DEF Whole
  <2>8. pc' = "s_poll" => state' = "OPEN"
    BY <2>3 DEF Control, OpenPc
  <2>9. pc' = "s_poll" => exPos' < pos'.size
    <3>1. SUFFICES ASSUME pc' = "s_poll" PROVE exPos' < pos'.size
      OBVIOUS
    <3>2. pc = "s_poll" /\ pos' = pos /\ state = "OPEN"
      BY <2>2, <2>6, <2>8, <3>1
    <3>3. exPos < pos.size
      BY <2>2, <3>2 DEF Whole
    <3>4. QED BY FullAssumption, <1>2, <2>2, <3>2, <3>3 DEF Amount
  <2>10. QED BY <2>4, <2>5, <2>7, <2>9 DEF Whole
<1>5. CASE ScaleOutCancel
  <2>1. /\ orders' \subseteq orders /\ pc = "s_cancel" /\ pc' = "s_half"
        /\ UNCHANGED <<state, pos, exPos, unmanaged>>
    BY <1>5, Cancelled DEF ScaleOutCancel, Goto, amountVars, historyVars
  <2>2. QED BY <1>1, <2>1 DEF Whole
<1>6. CASE ScaleOutHalf
  <2>1. pc = "s_half" /\ UNCHANGED <<state, pos, orders, unmanaged>> /\ state = "OPEN"
    BY <1>2, <1>6 DEF ScaleOutHalf, engineVars, historyVars, Control, OpenPc
  <2>2. exPos \in {0, pos.size} /\ \A o \in orders : o.qty >= exPos
    BY <1>1, <2>1 DEF Whole
  <2>3. CASE Reduce(HalfOf(pos.size)) /\ pc' = "s_poll"
    <3>1. HalfOf(pos.size) \in Amount
      <4>1. HalfOf(pos.size) \in Nat /\ (HalfOf(pos.size) > 0 => HalfOf(pos.size) \in Amount)
        BY <1>2, <2>1, HalfIsAnAmount
      <4>2. HalfOf(pos.size) > 0
        BY <1>2, <2>3, <4>1 DEF Reduce, Smaller
      <4>3. QED BY <4>1, <4>2
    <3>2. exPos' < exPos
      BY <1>2, <2>3, <3>1, ReduceShrinks
    <3>3. exPos' < pos.size
      BY FullAssumption, <1>2, <2>1, <2>2, <3>2 DEF Amount
    <3>4. \A o \in orders : o.qty >= exPos'
      BY FullAssumption, <1>2, <2>2, <3>2 DEF Amount
    <3>5. QED BY <1>2, <2>1, <2>3, <3>3, <3>4 DEF Whole
  <2>4. CASE UNCHANGED exPos /\ pc' = "s_fail"
    BY <2>1, <2>2, <2>4 DEF Whole
  <2>5. QED BY <1>3, <1>6, <2>3, <2>4 DEF ScaleOutHalf, Goto, amountVars
<1>7. CASE ScaleOutPoll
  <2>1. /\ pc = "s_poll" /\ pc' \in {"idle", "h_sl", "s_sl", "s_fail"} /\ state = "OPEN"
        /\ UNCHANGED <<state, exPos, orders, unmanaged>>
    BY <1>2, <1>7 DEF ScaleOutPoll, AfterScaleOut, Goto, exchangeVars, amountVars, historyVars,
       Control, OpenPc
  <2>2. exPos < pos.size /\ \A o \in orders : o.qty >= exPos
    BY <1>1, <2>1 DEF Whole
  <2>3. exPos' \in {0, pos'.size}
    <3>1. CASE exPos = 0
      BY <2>1, <3>1
    <3>2. CASE pos' = [pos EXCEPT !.size = exPos, !.phase = "BREAKEVEN"]
      BY <1>2, <2>1, <3>2 DEF OpenPosition
    <3>3. ~(exPos >= pos.size)
      BY FullAssumption, <1>2, <2>1, <2>2 DEF Amount
    <3>4. QED BY <1>3, <1>7, <3>1, <3>2, <3>3 DEF ScaleOutPoll
  <2>4. QED BY <2>1, <2>2, <2>3 DEF Whole
<1>8. CASE SyncTakeProfit \/ StopReplaced \/ StopNotReplaced \/ CheckTakeProfit \/ TickRecover
           \/ ScaleOutStop \/ ScaleOutTakeProfit \/ ScaleOutFailed
  <2>1. /\ state = "OPEN" /\ UNCHANGED <<exPos, unmanaged, state>>
        /\ pc \in {"sync_tp", "h_sl", "h_tp", "t_recover", "s_sl", "s_tp", "s_fail"}
        /\ pc' \in {"idle", "h_tp", "h_flatten", "x_check", "s_cancel", "h_sl", "s_tp", "s_fail"}
    BY <1>2, <1>8
    DEF SyncTakeProfit, StopReplaced, StopNotReplaced, CheckTakeProfit, TickRecover, ScaleOutStop,
        ScaleOutTakeProfit, ScaleOutFailed, Control, OpenPc, amountVars, historyVars, engineVars,
        Goto, GotoFor, TickContinues, ScaleOutOrIdle, ScaleOutPossible, AfterScaleOut
  <2>2. pos' = pos \/ pos' = [pos EXCEPT !.tp = TRUE]
    BY <1>8 DEF SyncTakeProfit, StopReplaced, StopNotReplaced, CheckTakeProfit, TickRecover,
       ScaleOutStop, ScaleOutTakeProfit, ScaleOutFailed, engineVars
  <2>3. pos'.size = pos.size
    BY <1>2, <2>1, <2>2 DEF OpenPosition
  <2>4. exPos \in {0, pos.size} /\ \A o \in orders : o.qty >= exPos
    BY <1>1, <2>1 DEF Whole
  <2>5. \E kind \in {"SL", "TP"} :
           \/ \E id \in FreshId : PlaceVerified(kind, pos.size, id)
           \/ orders' \in LeftAfterFailedPlacement(kind, pos.size)
           \/ orders' = orders
    <3>1. CASE StopReplaced \/ StopNotReplaced \/ TickRecover \/ ScaleOutStop \/ ScaleOutFailed
      <4>1. \/ \E id \in FreshId : PlaceVerified("SL", pos.size, id)
            \/ orders' \in LeftAfterFailedPlacement("SL", pos.size)
            \/ orders' = orders
        BY <3>1 DEF StopReplaced, StopNotReplaced, TickRecover, ScaleOutStop, ScaleOutFailed,
                    RecoverStop
      <4>2. QED BY <4>1
    <3>2. CASE SyncTakeProfit \/ CheckTakeProfit \/ ScaleOutTakeProfit
      <4>1. \/ \E id \in FreshId : PlaceVerified("TP", pos.size, id)
            \/ orders' \in LeftAfterFailedPlacement("TP", pos.size)
            \/ orders' = orders
        BY <3>2 DEF SyncTakeProfit, CheckTakeProfit, ScaleOutTakeProfit
      <4>2. QED BY <4>1
    <3>3. QED BY <1>8, <3>1, <3>2
  <2>6. \A o \in orders' : o.qty >= exPos
    <3>1. PICK kind \in {"SL", "TP"} :
             \/ \E id \in FreshId : PlaceVerified(kind, pos.size, id)
             \/ orders' \in LeftAfterFailedPlacement(kind, pos.size)
             \/ orders' = orders
      BY <2>5
    <3>2. \/ orders' = orders
          \/ \E n \in Order : n.qty = pos.size /\ orders' = orders \cup {n}
      BY <1>2, <2>1, <3>1, Placed, GivenUp
    <3>3. pos.size >= exPos
      BY FullAssumption, <1>2, <2>1, <2>4 DEF Amount
    <3>4. QED BY <2>4, <3>2, <3>3
  <2>7. QED BY <2>1, <2>3, <2>4, <2>6 DEF Whole
<1>9. CASE SyncExistingStop \/ SyncNewStop
  <2>1. PICK stop \in OrderId : Restore(stop)
    BY <1>2, <1>9 DEF SyncExistingStop, SyncNewStop, FreshId, Order
  <2>2. /\ pc = "sync" /\ pc' = "sync_tp" /\ state' = "OPEN" /\ UNCHANGED <<exPos, unmanaged>>
        /\ pos'.size = Smaller(exPos, Full)
    <3>1. pc = "sync"
      BY <1>9 DEF SyncExistingStop, SyncNewStop
    <3>2. pc' = "sync_tp" /\ state' = "OPEN" /\ UNCHANGED <<exPos, unmanaged>>
      BY <2>1 DEF Restore, Goto, historyVars
    <3>3. PICK tp \in BOOLEAN : pos' = [size |-> Smaller(exPos, Full), phase |-> "INITIAL", tp |-> tp]
      BY <2>1 DEF Restore
    <3>4. QED BY <3>1, <3>2, <3>3
  <2>3. exPos <= Full
    BY <1>1, <2>2 DEF Exposure, EntryPc
  <2>4. Smaller(exPos, Full) = exPos
    BY FullAssumption, <1>2, <2>3 DEF Smaller
  <2>5. \A o \in orders' : o.qty >= exPos
    <3>1. CASE SyncExistingStop
      BY <1>1, <2>2, <3>1 DEF SyncExistingStop, Whole
    <3>2. CASE SyncNewStop
      <4>1. PICK old \in StopsGivenUp : \E left \in LeftAfterCancel(old) : \E n \in Order :
               /\ n.qty = exPos
               /\ \/ orders' = left \cup {n}
                  \/ \E t \in Order : orders' = left \cup {t} \cup {n} /\ t.qty = exPos
        BY <2>4, <3>2, SyncNewStopEffect
      <4>2. PICK left \in LeftAfterCancel(old) : \E n \in Order :
               /\ n.qty = exPos
               /\ \/ orders' = left \cup {n}
                  \/ \E t \in Order : orders' = left \cup {t} \cup {n} /\ t.qty = exPos
        BY <4>1
      <4>3. left \subseteq orders
        BY Cancelled
      <4>4. \A o \in orders : o.qty >= exPos
        BY <1>1, <2>2 DEF Whole
      <4>5. QED BY <1>2, <4>2, <4>3, <4>4
    <3>3. QED BY <1>9, <3>1, <3>2
  <2>6. QED BY <2>2, <2>4, <2>5 DEF Whole
<1>10. CASE SyncFailClosed
  BY <1>1, <1>10 DEF SyncFailClosed
<1>11. CASE EntryFilled
  <2>1. /\ pc = "e_market" /\ pc' \in {"e_sl", "e_flatten"} /\ state = "ENTERING"
        /\ UNCHANGED <<state, orders, unmanaged>> /\ exPos' = exPos + Full
    BY <1>2, <1>11 DEF EntryFilled, Goto, engineVars, Control, EntryPc
  <2>2. exPos = 0 /\ orders = {}
    BY <1>1, <2>1 DEF Exposure, Whole
  <2>3. QED BY FullAssumption, <2>1, <2>2 DEF Whole
<1>12. CASE EntryNotFilled
  <2>1. state' = "FLAT" /\ pc' = "idle" /\ UNCHANGED orders
    BY <1>12 DEF EntryNotFilled, Goto
  <2>2. exPos' = exPos + 0 /\ unmanaged' = (unmanaged \/ 0 > 0)
    BY FullAssumption, <1>3, <1>12 DEF EntryNotFilled, Amount
  <2>3. exPos' = exPos
    BY <1>2, <2>2
  <2>4. ~unmanaged
    BY <1>1, <2>2, Zenon
  <2>5. QED BY <2>1, <2>3, <2>4 DEF Whole
<1>13. CASE EntryStop \/ EntryTakeProfit \/ EntryTakeProfitFails
  <2>1. /\ pc \in {"e_sl", "e_tp"} /\ pc' \in {"e_tp", "e_flatten", "idle"}
        /\ UNCHANGED <<exPos, unmanaged>>
        /\ pc' # "idle" => state' = "ENTERING"
        /\ pc' = "idle" => pos'.size = Full
    BY <1>2, <1>13 DEF EntryStop, EntryTakeProfit, EntryTakeProfitFails, Goto, amountVars,
       historyVars, Control, EntryPc
  <2>2. exPos \in {0, Full} /\ \A o \in orders : o.qty >= exPos
    BY <1>1, <2>1 DEF Whole
  <2>3. orders' \subseteq orders \/ \E n \in Order : n.qty = Full /\ orders' \subseteq orders \cup {n}
    <3>1. CASE EntryStop
      BY FullIsAnAmount, <1>2, <3>1, Placed, GivenUp DEF EntryStop
    <3>2. CASE EntryTakeProfit
      BY FullIsAnAmount, <1>2, <3>2, Placed DEF EntryTakeProfit
    <3>3. CASE EntryTakeProfitFails
      <4>1. PICK left \in LeftAfterCancel({slId}) :
               \/ orders' = left
               \/ \E t \in Order : orders' = left \cup {t} /\ t.qty = Full
        BY <3>3, EntryTakeProfitFailsEffect
      <4>2. left \subseteq orders
        BY Cancelled
      <4>3. QED BY <4>1, <4>2
    <3>4. QED BY <1>13, <3>1, <3>2, <3>3
  <2>4. QED BY FullAssumption, <1>2, <2>1, <2>2, <2>3 DEF Whole
<1>14. CASE OnCandleClose \/ OnMarketUpdate
  <2>1. CASE \E c \in {"candle", "tick"} : BeginEntry(c)
    <3>1. /\ pc' = "e_market" /\ state' = "ENTERING" /\ orders' = {}
      BY <1>3, <2>1, Cancelled DEF BeginEntry, GotoFor, Ids
    <3>2. QED BY <3>1 DEF Whole
  <2>2. CASE ~\E c \in {"candle", "tick"} : BeginEntry(c)
    <3>1. /\ pc = "idle" /\ UNCHANGED <<engineVars, orders, exPos, unmanaged>>
          /\ pc' \in {"idle", "c_flat", "t_recover", "x_check", "s_cancel"}
      BY <1>14, <2>2
      DEF OnCandleClose, CandleIdle, CandleOpen, CandleCountsDown, CandleEntry, OnMarketUpdate,
          TickOpen, TickEntry, TickContinues, ScaleOutOrIdle, ScaleOutPossible, Goto, GotoFor,
          exchangeVars, amountVars, historyVars
    <3>2. QED BY <1>1, <3>1 DEF Whole, engineVars
  <2>3. QED BY <2>1, <2>2
<1>15. CASE Restart
  BY <1>1, <1>15 DEF Restart, Whole
<1>16. QED
  BY <1>4, <1>5, <1>6, <1>7, <1>8, <1>9, <1>10, <1>11, <1>12, <1>13, <1>14, <1>15
  DEF Special, Placing, ScaleOutStep

-----------------------------------------------------------------------------
(***************************************************************************)
(* Entire.                                                                 *)
(***************************************************************************)
LEMMA InitEntire == Init => Entire
BY DEF Init, Entire

LEMMA EntireStep == IInv /\ Entire /\ [Next]_vars => Entire'
<1> SUFFICES ASSUME IInv, Entire, [Next]_vars PROVE Entire'
  OBVIOUS
<1>1. Control /\ (state = "OPEN" => pos \in OpenPosition)
  BY DEF IInv, EngineInv, EngineTypeOK, Holding
<1> USE <1>1 DEF Entire, Control, EntryPc, OpenPc, Goto, GotoFor, GoRecord, engineVars,
                 exchangeVars, amountVars, historyVars
<1>2. CASE Sync
  <2>1. CASE SyncNothing \/ SyncFailClosed
    BY <2>1 DEF SyncNothing, SyncFailClosed
  <2>2. CASE SyncExistingStop \/ SyncNewStop
    <3>1. PICK stop : Restore(stop)
      BY <2>2 DEF SyncExistingStop, SyncNewStop
    <3>2. PICK tp \in BOOLEAN : pos' = [size |-> Smaller(exPos, Full), phase |-> "INITIAL", tp |-> tp]
      BY <3>1 DEF Restore
    <3>3. QED BY <3>1, <3>2 DEF Restore
  <2>3. CASE SyncTakeProfit
    <3>1. pos' = pos \/ pos' = [pos EXCEPT !.tp = TRUE]
      BY <2>3 DEF SyncTakeProfit
    <3>2. pos'.size = pos.size /\ pos'.phase = pos.phase
      BY <2>3, <3>1 DEF SyncTakeProfit, OpenPosition
    <3>3. QED BY <2>3, <3>2 DEF SyncTakeProfit
  <2>4. QED BY <1>2, <2>1, <2>2, <2>3 DEF Sync
<1>3. CASE Entry
  BY <1>3 DEF Entry, EntryFilled, EntryNotFilled, EntryStop, EntryTakeProfit,
              EntryTakeProfitFails, EntryFlatten
<1>4. CASE Candle
  <2>1. CASE StillOpen
    BY <2>1 DEF StillOpen, ScaleOutPossible
  <2>2. CASE FallbackNoted \/ FallbackRecord \/ FallbackDeferred \/ StopBelievedActive
    BY <2>2 DEF FallbackNoted, FallbackRecord, FallbackDeferred, StopBelievedActive
  <2>3. CASE StopReplaced \/ StopNotReplaced \/ HealthFlatten
    BY <2>3 DEF StopReplaced, StopNotReplaced, HealthFlatten
  <2>4. CASE CheckTakeProfit
    <3>1. pos' = pos \/ pos' = [pos EXCEPT !.tp = TRUE]
      BY <2>4 DEF CheckTakeProfit
    <3>2. pos'.size = pos.size /\ pos'.phase = pos.phase
      BY <2>4, <3>1 DEF CheckTakeProfit, OpenPosition
    <3>3. QED BY <2>4, <3>2 DEF CheckTakeProfit, ScaleOutPossible
  <2>5. QED BY <1>4, <2>1, <2>2, <2>3, <2>4 DEF Candle
<1>5. CASE TickRecover
  BY <1>5 DEF TickRecover, TickContinues, ScaleOutOrIdle, ScaleOutPossible
<1>6. CASE Close
  BY <1>6 DEF Close, CloseAlreadyFlat, CancelForClose, CloseOrder, CloseConfirm,
              SignalCloseFailed, CloseFails, ScaleOutOrIdle, ScaleOutPossible
<1>7. CASE Record
  BY <1>7 DEF Record, RecordTrade, RecordRaises, RecordFinish, FinishRaises, CloseRequested
<1>8. CASE ScaleOutStep
  <2>1. CASE ScaleOutCancel \/ ScaleOutHalf
    BY <2>1 DEF ScaleOutCancel, ScaleOutHalf
  <2>2. CASE ScaleOutPoll
    BY <2>2 DEF ScaleOutPoll, AfterScaleOut, OpenPosition
  <2>3. CASE ScaleOutStop \/ ScaleOutTakeProfit \/ ScaleOutFailed
    BY <2>3 DEF ScaleOutStop, ScaleOutTakeProfit, ScaleOutFailed, AfterScaleOut
  <2>4. QED BY <1>8, <2>1, <2>2, <2>3 DEF ScaleOutStep
<1>9. CASE Dispatch
  <2>1. CASE OnCandleClose
    BY <2>1 DEF OnCandleClose, CandleIdle, CandleOpen, CandleCountsDown, CandleEntry, BeginEntry
  <2>2. CASE OnMarketUpdate
    BY <2>2 DEF OnMarketUpdate, TickOpen, TickEntry, BeginEntry, TickContinues, ScaleOutOrIdle,
                ScaleOutPossible
  <2>3. CASE MissedCandle \/ FillIgnored \/ FillCloses
    BY <2>3 DEF MissedCandle, FillIgnored, FillCloses
  <2>4. QED BY <1>9, <2>1, <2>2, <2>3 DEF Dispatch
<1>10. CASE Environment
  BY <1>10 DEF Environment, Trigger, Expire, ManualClose, LoseFill, Restart, engineSide
<1>11. CASE UNCHANGED vars
  BY <1>11 DEF vars
<1>12. QED
  BY <1>2, <1>3, <1>4, <1>5, <1>6, <1>7, <1>8, <1>9, <1>10, <1>11 DEF Next, HandlerStep

-----------------------------------------------------------------------------
(***************************************************************************)
(* The theorems.                                                           *)
(***************************************************************************)
LEMMA InitOrders == Init => IdsUnique /\ Cover /\ Known /\ EntryStopLive /\ Whole
<1> SUFFICES ASSUME Init PROVE IdsUnique /\ Cover /\ Known /\ EntryStopLive /\ Whole
  OBVIOUS
<1>1. PICK amount \in 0..Full, sl \in BOOLEAN, tp \in BOOLEAN :
      \E a \in OrderId : \E b \in OrderId \ {a} :
        LET qty == IF amount = 0 THEN Full ELSE amount
        IN /\ exPos = amount
           /\ orders = (IF sl THEN {[id |-> a, kind |-> "SL", qty |-> qty]} ELSE {})
                  \cup (IF tp THEN {[id |-> b, kind |-> "TP", qty |-> qty]} ELSE {})
  BY DEF Init, StartStates
<1> DEFINE qty == IF amount = 0 THEN Full ELSE amount
<1>2. PICK a \in OrderId, b \in OrderId :
        /\ a # b /\ exPos = amount
        /\ orders = (IF sl THEN {[id |-> a, kind |-> "SL", qty |-> qty]} ELSE {})
                  \cup (IF tp THEN {[id |-> b, kind |-> "TP", qty |-> qty]} ELSE {})
  BY <1>1
<1>3. \A o \in orders : \/ o.id = a /\ o.kind = "SL" /\ o = [id |-> a, kind |-> "SL", qty |-> qty]
                        \/ o.id = b /\ o.kind = "TP" /\ o = [id |-> b, kind |-> "TP", qty |-> qty]
  BY <1>2
<1>4. \A o \in orders : o.qty = qty
  BY <1>3
<1>5. qty >= exPos
  BY FullAssumption, <1>2 DEF Amount
<1>6. IdsUnique /\ OneOfEach
  BY <1>2, <1>3 DEF IdsUnique, OneOfEach
<1>7. \A o \in orders : o.qty >= exPos
  BY <1>4, <1>5
<1> HIDE DEF qty
<1>8. pc = "sync" /\ state = "FLAT"
  BY DEF Init
<1>9. QED BY <1>6, <1>7, <1>8 DEF Cover, StopsCover, Known, EntryStopLive, Whole

LEMMA IdsUniqueIsInvariant == Spec => []IdsUnique
<1>1. IInv /\ IdsUnique /\ [Next]_vars => IdsUnique'
  BY IdsUniqueStep
<1>2. Init => IdsUnique
  BY InitOrders
<1>3. QED BY IInvIsInvariant, <1>1, <1>2, PTL DEF Spec

(***************************************************************************)
(* The stop the engine believes in covers the whole position, at every     *)
(* call of every handler.  A misread position is excluded; so are restarts *)
(* together with cancels that fail, for then the sync may adopt the stop   *)
(* of a smaller position that should have been gone.                       *)
(***************************************************************************)
THEOREM StopCoversThePosition ==
  ASSUME "glitch" \notin Faults, "cancel" \notin Faults \/ "crash" \notin Faults
  PROVE  Spec => []StopCoversPosition
<1>1. IInv /\ IInv' /\ Exposure /\ IdsUnique /\ Cover /\ [Next]_vars => Cover'
  BY CoverStep
<1>2. Init => Cover
  BY InitOrders
<1>3. Cover => StopCoversPosition
  BY DEF Cover, StopCoversPosition
<1>4. QED
  BY ExposureIsInvariant, IdsUniqueIsInvariant, <1>1, <1>2, <1>3, PTL DEF Spec

(***************************************************************************)
(* An engine that waits with an open position knows every order on the     *)
(* exchange, across restarts and whatever the exchange does on its own, as *)
(* long as no cancel is refused, no order goes unconfirmed and no query    *)
(* fails: each of these three is a way to lose sight of an order.          *)
(***************************************************************************)
THEOREM OrdersAreTracked ==
  ASSUME Sighted
  PROVE  Spec => []OnlyTrackedOrders
<1>1. IInv /\ IInv' /\ Known /\ [Next]_vars => Known'
  BY KnownStep
<1>2. Init => Known
  BY InitOrders
<1>3. IInv /\ Known => OnlyTrackedOrders
  <2>1. SUFFICES ASSUME IInv, Known PROVE OnlyTrackedOrders
    OBVIOUS
  <2>2. \A o \in orders : o.kind \in {"SL", "TP"}
    BY <2>1, Known0 DEF Order
  <2>3. QED BY <2>1, <2>2 DEF Known, OnlyTrackedOrders
<1>4. QED BY IInvIsInvariant, <1>1, <1>2, <1>3, PTL DEF Spec

(***************************************************************************)
(* Fail-closed entry: _place_entry opens a position only with two orders   *)
(* confirmed, and its stop is live and covers what was bought unless it    *)
(* has already fired; while no order vanishes by itself and positionAmt is *)
(* not misread.                                                            *)
(***************************************************************************)
THEOREM OpenedPositionIsProtected ==
  ASSUME "glitch" \notin Faults, "vanish" \notin Faults
  PROVE  Spec => OpenedProtected
<1>1. IInv /\ Exposure /\ IdsUnique /\ EntryStopLive /\ [Next]_vars => EntryStopLive'
  BY EntryStopLiveStep
<1>2. Init => EntryStopLive
  BY InitOrders
<1>3. ASSUME IInv, Exposure, EntryStopLive, [Next]_vars,
             state = "ENTERING", state' = "OPEN", ~unmanaged
      PROVE  /\ slId' # NoOrder /\ tpId' # NoOrder /\ slId' # tpId'
             /\ exPos' > 0 => \E o \in orders' : o.id = slId' /\ o.qty >= exPos'
  <2>1. EntryTakeProfit
    <3>1. Special
      BY <1>3, PlainStep DEF Plain
    <3>2. Control
      BY <1>3 DEF IInv, EngineInv
    <3>3. QED
      BY <1>3, <3>1, <3>2
      DEF Special, Placing, SyncExistingStop, SyncNewStop, SyncFailClosed, SyncTakeProfit,
          EntryFilled, EntryNotFilled, EntryStop, EntryTakeProfitFails, StopReplaced,
          StopNotReplaced, CheckTakeProfit, TickRecover, ScaleOutStop, ScaleOutTakeProfit,
          ScaleOutFailed, OnCandleClose, CandleIdle, CandleOpen, CandleCountsDown, CandleEntry,
          OnMarketUpdate, TickOpen, TickEntry, BeginEntry, Restart, Control, OpenPc, engineVars
  <2>2. PICK n \in Order : /\ n.id = tpId' /\ orders' = orders \cup {n} /\ tpId' # slId
    BY FullIsAnAmount, <1>3, <2>1, Known0, Placed DEF EntryTakeProfit
  <2>3. pc = "e_tp" /\ UNCHANGED <<slId, exPos>>
    BY <2>1 DEF EntryTakeProfit, amountVars
  <2>4. n.id # NoOrder
    BY ConstantsAssumption DEF Order
  <2>5. exPos <= Full
    BY <1>3, <2>3 DEF Exposure, EntryPc
  <2>6. QED BY <1>3, <2>2, <2>3, <2>4, <2>5 DEF EntryStopLive
<1>4. IInv /\ Exposure /\ EntryStopLive /\ [Next]_vars =>
        [state = "ENTERING" /\ state' = "OPEN" /\ ~unmanaged =>
           /\ slId' # NoOrder /\ tpId' # NoOrder /\ slId' # tpId'
           /\ exPos' > 0 => \E o \in orders' : o.id = slId' /\ o.qty >= exPos']_vars
  BY <1>3
<1>5. QED
  BY ExposureIsInvariant, IdsUniqueIsInvariant, <1>1, <1>2, <1>4, PTL DEF Spec, OpenedProtected

(***************************************************************************)
(* In the life of one engine object the scale-out sells half only of the   *)
(* whole position, whichever of its later calls fail and however often 1R  *)
(* is reached again; while no query fails, no cancel is refused and no     *)
(* answer hides an execution.  A restart begins another life, in which the *)
(* position restored is the whole one.                                     *)
(***************************************************************************)
THEOREM HalvedOnlyOnce ==
  ASSUME Unhalved
  PROVE  Spec => HalvedOnce
<1>1. IInv /\ IInv' /\ Exposure /\ Whole /\ [Next]_vars => Whole'
  BY WholeStep
<1>2. IInv /\ Entire /\ [Next]_vars => Entire'
  BY EntireStep
<1>3. Init => Whole /\ Entire
  BY InitOrders, InitEntire
<1>4. ASSUME IInv, IInv', Whole, Entire
      PROVE  pc = "s_half" /\ pc' # pc /\ exPos' < exPos /\ ~unmanaged => exPos = whole
  <2>1. SUFFICES ASSUME pc = "s_half", exPos' < exPos, ~unmanaged PROVE exPos = whole
    OBVIOUS
  <2>2. state = "OPEN"
    BY <1>4, <2>1 DEF IInv, EngineInv, Control, OpenPc
  <2>3. exPos \in {0, pos.size}
    BY <1>4, <2>1, <2>2 DEF Whole
  <2>4. exPos' \in Nat
    BY <1>4 DEF IInv, TypeOK, ExchangeTypeOK
  <2>5. pos.size = whole
    BY <1>4, <2>1, <2>2 DEF Entire
  <2>6. QED BY <2>1, <2>3, <2>4, <2>5
<1>5. IInv /\ IInv' /\ Whole /\ Entire =>
        [pc = "s_half" /\ pc' # pc /\ exPos' < exPos /\ ~unmanaged => exPos = whole]_vars
  BY <1>4
<1>6. "glitch" \notin Faults
  BY DEF Unhalved
<1>7. QED BY <1>6, ExposureIsInvariant, <1>1, <1>2, <1>3, <1>5, PTL DEF Spec, HalvedOnce

===============================================================================
