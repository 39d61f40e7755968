-------------------------- MODULE LegacyAutopilot ---------------------------
(***************************************************************************)
(* autopilot_service (_legacy): one loop that looks after its limit order  *)
(* and then runs a cycle, and an API that starts and stops it meanwhile.   *)
(* No message is heard: a fill or an exit is seen by the next cycle that   *)
(* asks for it.  One action per exchange call.                             *)
(***************************************************************************)
EXTENDS LegacyExchange

CONSTANTS
  AutopilotFaults,  \* of FaultKinds
  EntryTypes,       \* entry_type: "limit", "market"
  DailyLimit,       \* daily_loss_limit_usdt, in stopped-out positions
  Cooldown,         \* reentry_cooldown_minutes > 0
  MaxCycles         \* bound: cycles that ask for the position

ASSUME AutopilotAssumption ==
  /\ AutopilotFaults \subseteq FaultKinds
  /\ DailyLimit \in Nat \ {0} /\ Cooldown \in BOOLEAN /\ MaxCycles \in Nat

VARIABLES
  on,        \* _autopilot_running
  stopping,  \* _stop_loop
  step,      \* where the loop stands; "off": no thread
  entryType,
  pending,   \* _pending_limit_orders[symbol]: id 0, none
  seen,      \* symbol in _symbols_with_position_last_cycle
  cooling,   \* an exit within the cooldown is noted in _symbol_exit_ts
  counted,   \* _daily_realized_pnl
  since,     \* realized since the entry the journal has last
  cycle,     \* locals of the cycle
  cycles

autopilotVars == <<exchangeVars, on, stopping, step, entryType, pending, seen, cooling,
                   counted, since, cycle, cycles>>

NoPending == [id |-> 0, side |-> 1]
NoCycle   == [held |-> 0, side |-> 1, id |-> 0, restarted |-> FALSE]

AutopilotInit ==
  /\ ExchangeInit
  /\ on = FALSE /\ stopping = FALSE /\ step = "off"
  /\ entryType \in EntryTypes
  /\ pending = NoPending
  /\ seen = FALSE /\ cooling = FALSE /\ counted = 0 /\ since = 0
  /\ cycle = NoCycle /\ cycles = 0

NewOrderId == CHOOSE i \in 1..MaxOrders :
                i \notin {o.id : o \in live} \cup {pending.id, cycle.id}
Room == Cardinality(live) + 2 < MaxOrders

unchangedControl == <<on, stopping, entryType>>
unchangedBooks   == <<seen, cooling, counted, since>>

Waits == {"off", "asleep"}
OurEntry(i) == {o \in live : o.kind = "entry" /\ o.id = i}

-----------------------------------------------------------------------------
(***************************************************************************)
(* start_autopilot and stop_autopilot.  A loop in the middle of a cycle    *)
(* ends that cycle either way.                                             *)
(***************************************************************************)
StartAutopilot ==
  /\ ~on /\ cycles < MaxCycles
  /\ on' = TRUE /\ stopping' = FALSE
  /\ counted' \in {counted, 0}
  /\ cooling' = FALSE /\ seen' = FALSE
  /\ step' = IF step = "off" THEN "boot" ELSE step
  /\ cycle' = [cycle EXCEPT !.restarted = step \notin Waits]
  /\ UNCHANGED <<exchangeVars, entryType, pending, since, cycles>>

\* The order is forgotten, whatever the exchange answers and whatever of it
\* is filled already.
Dropped(order, left) ==
  LET whole == {o \in OurEntry(order.id) : o.qty = Full} IN
  IF order.id # 0 /\ (whole = {} \/ OurEntry(order.id) \cap left # {}) THEN {"dropped"} ELSE {}

EntriesCancelled ==
  live' \in {Protective} \cup (IF "cancel" \in AutopilotFaults THEN {live} ELSE {})

StopAutopilot ==
  /\ "stop" \in AutopilotFaults
  /\ on
  /\ on' = FALSE /\ stopping' = TRUE
  /\ IF pending.id = 0 THEN UNCHANGED live ELSE EntriesCancelled
  /\ gaps' = gaps \cup Dropped(pending, live')
  /\ pending' = NoPending
  /\ UNCHANGED <<amt, step, entryType, unchangedBooks, cycle, cycles>>

\* The first line of the loop drops a stop that came before it.
Boot ==
  /\ step = "boot"
  /\ stopping' = FALSE
  /\ step' = "top"
  /\ UNCHANGED <<exchangeVars, on, entryType, pending, unchangedBooks, cycle, cycles>>

Wake ==
  /\ step = "asleep"
  /\ step' = IF stopping THEN "off" ELSE "top"
  /\ cycle' = NoCycle
  /\ UNCHANGED <<exchangeVars, unchangedControl, pending, unchangedBooks, cycles>>

Sleeps == step' = "asleep"

CooldownOver ==
  /\ cooling /\ step \in Waits
  /\ cooling' = FALSE
  /\ UNCHANGED <<exchangeVars, unchangedControl, step, pending, seen, counted, since, cycle, cycles>>

-----------------------------------------------------------------------------
(***************************************************************************)
(* The exchange meanwhile.                                                 *)
(***************************************************************************)
ExitFires(o) ==
  /\ Fires(o)
  /\ since' = IF o.kind = "sl" THEN since - 1 ELSE since + 1
  /\ UNCHANGED <<unchangedControl, step, pending, seen, cooling, counted, cycle, cycles>>

EntryFills(o, qty) ==
  /\ o \in live /\ o.kind = "entry" /\ qty \in 1..o.qty
  /\ amt' = Bought(o.side, qty)
  /\ live' = (live \ {o}) \cup (IF qty = o.qty THEN {} ELSE {[o EXCEPT !.qty = @ - qty]})
  /\ gaps' = gaps \cup (IF o.id = pending.id \/ (step = "placed" /\ o.id = cycle.id)
                         THEN {} ELSE {"dropped"})
  /\ UNCHANGED <<unchangedControl, step, pending, unchangedBooks, cycle, cycles>>

-----------------------------------------------------------------------------
(***************************************************************************)
(* _check_pending_limit_orders, also when the autopilot is stopped.        *)
(***************************************************************************)
NothingPending ==
  /\ step = "top"
  /\ pending.id = 0 \/ "read" \in AutopilotFaults
  /\ step' = "cycle"
  /\ UNCHANGED <<exchangeVars, unchangedControl, pending, unchangedBooks, cycle, cycles>>

PendingOpen ==
  /\ step = "top" /\ pending.id # 0
  /\ \/ OurEntry(pending.id) # {} /\ step' \in {"cycle", "expired"}
     \/ OurEntry(pending.id) = {} /\ step' = "gone"
  /\ cycle' = [cycle EXCEPT !.side = pending.side, !.id = pending.id]
  /\ UNCHANGED <<exchangeVars, unchangedControl, pending, unchangedBooks, cycles>>

\* limit_ttl_minutes are over.
PendingExpired ==
  /\ step = "expired"
  /\ EntriesCancelled
  /\ gaps' = gaps \cup Dropped([pending EXCEPT !.id = cycle.id], live')
  /\ pending' = NoPending
  /\ cycle' = [cycle EXCEPT !.id = 0]
  /\ step' = "cycle"
  /\ UNCHANGED <<amt, unchangedControl, unchangedBooks, cycles>>

\* Filled, if there is a position; a failed query says there is none.
PendingGone ==
  /\ step = "gone"
  /\ \/ amt # 0 /\ step' = "protectPending" /\ UNCHANGED <<gaps, pending, cycle>>
     \/ /\ amt = 0 \/ "read" \in AutopilotFaults
        /\ step' = "cycle"
        /\ gaps' = IF amt = 0 THEN gaps ELSE gaps \cup {"unread"}
        /\ pending' = NoPending
        /\ cycle' = [cycle EXCEPT !.id = 0]
  /\ UNCHANGED <<amt, live, unchangedControl, unchangedBooks, cycles>>

-----------------------------------------------------------------------------
(***************************************************************************)
(* run_one_cycle: the daily limit, then one reading of the position.       *)
(***************************************************************************)
CycleSkipped ==
  /\ step = "cycle"
  /\ Sleeps
  /\ UNCHANGED <<exchangeVars, unchangedControl, pending, unchangedBooks, cycle, cycles>>

LimitReached ==
  /\ step = "cycle" /\ on
  /\ counted <= -DailyLimit
  /\ on' = FALSE
  /\ Sleeps
  /\ UNCHANGED <<exchangeVars, stopping, entryType, pending, unchangedBooks, cycle, cycles>>

\* counted is reset on a new day; a failed query reads as no position.
CycleReads ==
  /\ step = "cycle" /\ on /\ cycles < MaxCycles
  /\ counted' \in {0} \cup (IF counted > -DailyLimit THEN {counted} ELSE {})
  /\ \E held \in {amt} \cup (IF "read" \in AutopilotFaults THEN {0} ELSE {}) :
       cycle' = [NoCycle EXCEPT !.held = held, !.restarted = cycle.restarted]
  /\ cycles' = cycles + 1
  /\ step' = "exit"
  /\ UNCHANGED <<exchangeVars, unchangedControl, pending, seen, cooling, since>>

\* Mutant: the exit is counted but not noted for the cooldown.
DetectExitWithoutCooldown ==
  LET exited == seen /\ cycle.held = 0 IN
  /\ step = "exit"
  /\ counted' \in IF ~exited THEN {counted} ELSE {counted + since}
  /\ seen' = (cycle.held # 0)
  /\ step' = "signal"
  /\ UNCHANGED <<exchangeVars, unchangedControl, pending, cooling, since, cycle, cycles>>

\* The income since the last journal entry, when it can be fetched.
DetectExit ==
  LET exited == seen /\ cycle.held = 0 IN
  /\ step = "exit"
  /\ cooling' = (cooling \/ (exited /\ Cooldown))
  /\ counted' \in IF ~exited THEN {counted}
                  ELSE {counted + since} \cup (IF "read" \in AutopilotFaults THEN {counted} ELSE {})
  /\ seen' = (cycle.held # 0)
  /\ step' = "signal"
  /\ UNCHANGED <<exchangeVars, unchangedControl, pending, since, cycle, cycles>>

\* Candles, strategy and first sizing: any signal.
Signal ==
  /\ step = "signal"
  /\ \/ Sleeps /\ UNCHANGED cycle
     \/ \E side \in {-1, 1} :
          /\ cycle' = [cycle EXCEPT !.side = side]
          /\ step' = IF cycle.held = 0 THEN "decide"
                     ELSE IF Sign(cycle.held) = side THEN "asleep" ELSE "flip"
  /\ UNCHANGED <<exchangeVars, unchangedControl, pending, unchangedBooks, cycles>>

\* A pending order on the other side is cancelled; one on this side waits.
Decide ==
  /\ step = "decide"
  /\ IF pending.id # 0 /\ pending.side # cycle.side
     THEN /\ EntriesCancelled
          /\ gaps' = gaps \cup Dropped(pending, live')
          /\ pending' = NoPending
     ELSE UNCHANGED <<live, gaps, pending>>
  /\ step' = IF cooling \/ (pending.id # 0 /\ pending.side = cycle.side) THEN "asleep" ELSE "enter"
  /\ UNCHANGED <<amt, unchangedControl, unchangedBooks, cycle, cycles>>

-----------------------------------------------------------------------------
(***************************************************************************)
(* The flip: not worth its cost, or cancel, cancel, close, enter.  The     *)
(* position is read again; what fails in between ends the cycle.           *)
(***************************************************************************)
FlipReads ==
  /\ step = "flip"
  /\ \/ Sleeps /\ UNCHANGED <<pending, gaps, cycle>>
     \/ /\ pending' = NoPending
        /\ gaps' = gaps \cup Dropped(pending, live)
        /\ cycle' = [cycle EXCEPT !.held = amt]
        /\ step' \in IF amt # 0 THEN {"flipOpen"} \cup (IF "read" \in AutopilotFaults THEN {"asleep"} ELSE {})
                     ELSE {"asleep"}
  /\ UNCHANGED <<amt, live, unchangedControl, unchangedBooks, cycles>>

FlipCancelsOpen ==
  /\ step = "flipOpen"
  /\ EntriesCancelled
  /\ step' \in IF live' = live /\ "cancel" \in AutopilotFaults THEN {"asleep", "flipAlgo"} ELSE {"flipAlgo"}
  /\ UNCHANGED <<amt, gaps, unchangedControl, pending, unchangedBooks, cycle, cycles>>

\* From here the position has no stop.
FlipCancelsAlgo ==
  /\ step = "flipAlgo"
  /\ \/ live' = live \ Protective /\ step' = "flipClose" /\ gaps' = gaps \cup {"flip"}
     \/ "cancel" \in AutopilotFaults /\ Sleeps /\ UNCHANGED <<live, gaps>>
  /\ UNCHANGED <<amt, unchangedControl, pending, unchangedBooks, cycle, cycles>>

FlipCloses ==
  LET side == -Sign(cycle.held) IN
  /\ step = "flipClose"
  /\ \/ /\ Reduces(side)
        /\ amt' = Reduced(side, Size(cycle.held))
        /\ gaps' = IF amt' = 0 THEN {} ELSE gaps
        /\ since' \in {since - 1, since + 1}
        /\ step' = "enter"
     \/ /\ ~Reduces(side) \/ "order" \in AutopilotFaults
        /\ Sleeps
        /\ UNCHANGED <<amt, gaps, since>>
  /\ UNCHANGED <<live, unchangedControl, pending, seen, cooling, counted, cycle, cycles>>

-----------------------------------------------------------------------------
(***************************************************************************)
(* The entry: leverage and balance, the old protective orders, the order.  *)
(***************************************************************************)
EntryUnfunded ==
  /\ step = "enter"
  /\ Sleeps
  /\ UNCHANGED <<exchangeVars, unchangedControl, pending, unchangedBooks, cycle, cycles>>

EntryCancelsAlgo ==
  /\ step = "enter"
  /\ live' \in {live \ Protective} \cup (IF "cancel" \in AutopilotFaults THEN {live} ELSE {})
  /\ gaps' = IF amt # 0 THEN gaps \cup {"uncovered"} ELSE gaps
  /\ step' = IF entryType = "limit" /\ pending.id # 0 THEN "asleep" ELSE "place"
  /\ UNCHANGED <<amt, unchangedControl, pending, unchangedBooks, cycle, cycles>>

EntryRefused ==
  /\ step = "place" /\ "order" \in AutopilotFaults
  /\ Sleeps
  /\ UNCHANGED <<exchangeVars, unchangedControl, pending, unchangedBooks, cycle, cycles>>

PlaceLimit ==
  /\ step = "place" /\ entryType = "limit" /\ Room
  /\ live' = live \cup {[kind |-> "entry", id |-> NewOrderId, side |-> cycle.side, qty |-> Full]}
  /\ \/ step' = "placed" /\ cycle' = [cycle EXCEPT !.id = NewOrderId] /\ UNCHANGED gaps
     \/ "lost" \in AutopilotFaults /\ Sleeps /\ gaps' = gaps \cup {"dropped"} /\ UNCHANGED cycle
  /\ UNCHANGED <<amt, unchangedControl, pending, unchangedBooks, cycles>>

\* Mutant: an order that is filled at once is left to the next cycle, too.
LimitPlacedForgotten ==
  /\ step = "placed"
  /\ pending' = IF OurEntry(cycle.id) = {} THEN NoPending ELSE [id |-> cycle.id, side |-> cycle.side]
  /\ Sleeps
  /\ UNCHANGED <<exchangeVars, unchangedControl, unchangedBooks, cycle, cycles>>

\* A second later: gone is filled; anything else is left to the next cycle.
LimitPlaced ==
  /\ step = "placed"
  /\ \/ /\ OurEntry(cycle.id) = {}
        /\ step' = "protect"
        /\ UNCHANGED pending
     \/ /\ OurEntry(cycle.id) # {} \/ "read" \in AutopilotFaults
        /\ pending' = [id |-> cycle.id, side |-> cycle.side]
        /\ Sleeps
  /\ UNCHANGED <<exchangeVars, unchangedControl, unchangedBooks, cycle, cycles>>

\* Twice at most, the second time for less.
PlaceMarket ==
  /\ step = "place" /\ entryType = "market"
  /\ amt' = Bought(cycle.side, Full)
  /\ \/ step' = "protect" /\ UNCHANGED gaps
     \/ "lost" \in AutopilotFaults /\ Sleeps /\ gaps' = gaps \cup {"lost"}
  /\ UNCHANGED <<live, unchangedControl, pending, unchangedBooks, cycle, cycles>>

-----------------------------------------------------------------------------
(***************************************************************************)
(* _set_sl_tp and the journal entry: both orders for the side of the       *)
(* signal, each refused after its retries; neither when the take profit is *)
(* on the wrong side of the fill.                                          *)
(***************************************************************************)
SetSlTp ==
  LET sl == [kind |-> "sl", id |-> NewOrderId, side |-> cycle.side, qty |-> 0]
      tp == [sl EXCEPT !.kind = "tp2"]
  IN /\ step \in {"protect", "protectPending"} /\ Room
     /\ \E placed \in {{sl, tp}, {}} \cup (IF "refuse" \in AutopilotFaults THEN {{sl}, {tp}} ELSE {}) :
          /\ live' = live \cup placed
          /\ gaps' = IF sl \in placed /\ Sign(amt) = cycle.side THEN {}
                     ELSE IF amt = 0 THEN gaps
                     ELSE gaps \cup {IF placed = {} THEN "sanity" ELSE IF sl \in placed THEN "raced" ELSE "refused"}
     /\ since' = 0
     /\ IF step = "protectPending" THEN pending' = NoPending /\ step' = "cycle"
                                   ELSE UNCHANGED pending /\ Sleeps
     /\ cycle' = [cycle EXCEPT !.id = 0]
     /\ UNCHANGED <<amt, unchangedControl, seen, cooling, counted, cycles>>

-----------------------------------------------------------------------------
AutopilotNext ==
  \/ StartAutopilot \/ StopAutopilot \/ Boot \/ Wake \/ CooldownOver
  \/ \E o \in live : ExitFires(o) \/ \E qty \in 1..Full : EntryFills(o, qty)
  \/ NothingPending \/ PendingOpen \/ PendingExpired \/ PendingGone
  \/ CycleSkipped \/ LimitReached \/ CycleReads \/ DetectExit \/ Signal \/ Decide
  \/ FlipReads \/ FlipCancelsOpen \/ FlipCancelsAlgo \/ FlipCloses
  \/ EntryUnfunded \/ EntryCancelsAlgo \/ EntryRefused \/ PlaceLimit \/ LimitPlaced
  \/ PlaceMarket \/ SetSlTp

AutopilotSpec == AutopilotInit /\ [][AutopilotNext]_autopilotVars
=============================================================================
