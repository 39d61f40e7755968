------------------------ MODULE BFATEngineProperties ------------------------
(***************************************************************************)
(* What the trading engine of module BFATEngine is for: properties of its  *)
(* states, of its steps and of its behaviours, and the lifecycle it        *)
(* implements.                                                             *)
(***************************************************************************)
EXTENDS BFATEngine

(***************************************************************************)
(* The RuntimeErrors of _check_state_consistency are never raised: every   *)
(* handler finds, and leaves, a position object exactly while one is held, *)
(* and no order id while the engine is FLAT.  Every path that gives an     *)
(* entry up, closes a trade or fails half-way has to restore this.         *)
(***************************************************************************)
ConsistencyCheck ==
  /\ pos # NoPos <=> state \in {"OPEN", "CLOSING"}
  /\ state = "FLAT" => slId = NoOrder /\ tpId = NoOrder
  /\ pc = "idle" => state # "ENTERING"

(***************************************************************************)
(* An engine that waits in FLAT has no position on the exchange, except    *)
(* one it has given up on: a flatten that failed, an entry whose answer    *)
(* was lost, a start that failed closed.                                   *)
(***************************************************************************)
FlatMeansNoExposure ==
  pc = "idle" /\ state = "FLAT" /\ ~unmanaged => exPos = 0

(***************************************************************************)
(* Four paths may see the same close (user stream, candle fallback, market *)
(* close, failed close), and a new process may find what the last one was  *)
(* busy with: the trade log gets one row for a close, not two.             *)
(***************************************************************************)
NoDuplicateRow ==
  \A i, j \in DOMAIN trades : trades[i].ep = trades[j].ep => i = j

RecordedOnce == ~unmanaged => NoDuplicateRow

(***************************************************************************)
(* A row is written only for a position the exchange has closed, by        *)
(* whichever path: the size and the R of the row are final.                *)
(***************************************************************************)
RecordedWhenClosed ==
  [][trades' # trades => exPos = 0 \/ unmanaged]_vars

(***************************************************************************)
(* An engine leaves OPEN for FLAT only with a row for that position: no    *)
(* close handler forgets the trade, and with it the kill switch.  (A       *)
(* restart does forget the close it did not see.)                          *)
(***************************************************************************)
ClosedIsRecorded ==
  [][(state = "OPEN" \/ state = "CLOSING") /\ state' = "FLAT" /\ pc' # "sync" =>
       \E i \in DOMAIN trades' : trades'[i].ep = ep]_vars

(***************************************************************************)
(* Fail-closed entry: when the engine opens a position, both protective    *)
(* orders are confirmed and the stop, if it is still there, covers all of  *)
(* the position; if it is not there, it has fired.                         *)
(***************************************************************************)
OpenedProtected ==
  [][state = "ENTERING" /\ state' = "OPEN" /\ ~unmanaged =>
       /\ slId' # NoOrder /\ tpId' # NoOrder /\ slId' # tpId'
       /\ exPos' > 0 => \E o \in orders' : o.id = slId' /\ o.qty >= exPos']_vars

(***************************************************************************)
(* The stop the engine believes in is never smaller than the position:     *)
(* scale-out, re-registration and recovery size it by what is left.        *)
(***************************************************************************)
StopCoversPosition ==
  state = "OPEN" /\ ~unmanaged => \A o \in Tracked(slId) : o.qty >= exPos

(***************************************************************************)
(* Between handlers, every protective order of an OPEN position is one the *)
(* engine knows by id: a stop that was replaced or belongs to an earlier   *)
(* position cannot fire against this one.                                  *)
(***************************************************************************)
OnlyTrackedOrders ==
  pc = "idle" /\ state = "OPEN" => \A o \in orders : o.id \in {slId, tpId}

(***************************************************************************)
(* No entry, by candle or by tick, before POST_CLOSE_COOLDOWN_CANDLES      *)
(* closed candles have followed the last recorded trade.                   *)
(***************************************************************************)
CooldownRespected ==
  [][state = "FLAT" /\ state' = "ENTERING" => sinceClose' >= Cooldown]_vars

(***************************************************************************)
(* The kill switch stops both entry paths: no position is entered after    *)
(* MaxLosses losing trades in a row or at the daily loss limit.            *)
(***************************************************************************)
NoEntryWhenKilled ==
  [][state = "FLAT" /\ state' = "ENTERING" => ~Killed']_vars

(***************************************************************************)
(* Neither entry path, by candle or by tick, is open during the cooldown   *)
(* or after the kill switch has tripped.                                   *)
(***************************************************************************)
EntersOnlyWhenAllowed == CooldownRespected /\ NoEntryWhenKilled

(***************************************************************************)
(* In the life of one engine object the scale-out sells half only of the   *)
(* whole position, the one it bought or restored ("half (default) at 1R",  *)
(* settings.py): not again after its stop or target was refused with the   *)
(* half already sold, where _be_scaleout_done was not reached.  Beside a   *)
(* position it has given up, the engine cannot tell a half from a whole.   *)
(* This says nothing of a restart: what is left is then restored as a      *)
(* whole position, and 1R halves it again.                                 *)
(***************************************************************************)
HalvedOnce ==
  [][pc = "s_half" /\ pc' # pc /\ exPos' < exPos /\ ~unmanaged => exPos = whole]_vars

(***************************************************************************)
(* The fallback close of a candle is confirmed by an earlier candle that   *)
(* saw the same position flat, with none in between that did not           *)
(* (STOP_MARKET_TRADE_RECORDING_SPEC.md, 6).                               *)
(***************************************************************************)
FallbackConfirmedTwice ==
  [][pc = "c_flat" /\ pc' = "r_record" => flatSeen >= 1]_vars

(***************************************************************************)
(* No row has the price of a fill that did not close the position, such as *)
(* that of the half sold before ("NEVER use unrelated trades as exit").    *)
(***************************************************************************)
NoStaleExit == \A i \in DOMAIN trades : trades[i].src # "stale"

-----------------------------------------------------------------------------
(***************************************************************************)
(* A position the exchange closed is recorded and the engine is FLAT       *)
(* again, even if the user stream loses every message: the candle fallback *)
(* sees to it.                                                             *)
(***************************************************************************)
CloseIsNoticed ==
  (state = "OPEN" /\ exPos = 0 /\ equityKnown) ~> (state = "FLAT")

(***************************************************************************)
(* An OPEN position does not stay without a live stop: it gets one, or it  *)
(* is closed.                                                              *)
(***************************************************************************)
StopIsRestored ==
  (state = "OPEN" /\ exPos > 0 /\ Tracked(slId) = {})
    ~> (state # "OPEN" \/ exPos = 0 \/ Tracked(slId) # {})

(***************************************************************************)
(* A close that was begun is completed.                                    *)
(***************************************************************************)
ClosingCompletes == (state = "CLOSING") ~> (state = "FLAT")

-----------------------------------------------------------------------------
(***************************************************************************)
(* The engine drives its StateMachine only through the transitions of      *)
(* PositionStateMachine: no handler forces a state.  (A restart creates a  *)
(* new StateMachine, so this is about the life of one engine object.)      *)
(***************************************************************************)
\* Optional[Position] = None, as a record that is no position.
NoAbstractPosition ==
  [side |-> "LONG", size |-> 0, stopPrice |-> 0, initialStopPrice |-> 0,
   stopPhase |-> "INITIAL", takeProfit |-> 0]

AbstractPosition ==
  IF pos = NoPos THEN NoAbstractPosition
  ELSE [side |-> "LONG", size |-> pos.size,
        stopPrice |-> IF pos.phase = "INITIAL" THEN 1 ELSE 2,
        initialStopPrice |-> 1, stopPhase |-> pos.phase,
        takeProfit |-> IF pos.tp THEN 3 ELSE 0]

AbstractSignal == IF state = "ENTERING" THEN "signal" ELSE "none"

Lifecycle == INSTANCE PositionStateMachine WITH
  Side <- {"LONG"}, Price <- {1, 2, 3}, Size <- Amount, Signal <- {"signal"},
  NoPosition <- NoAbstractPosition, NoSignal <- "none",
  state <- state, position <- AbstractPosition, pendingSignal <- AbstractSignal

ImplementsLifecycle == Lifecycle!Spec
=============================================================================
