------------------------ MODULE PositionStateMachine ------------------------
(***************************************************************************)
(* The position lifecycle of one engine: StateMachine of                   *)
(* backend/app/domain/state_machine.py, with the Position record of        *)
(* domain/position.py and the enumerations of domain/enums.py.             *)
(*                                                                         *)
(* One action per method.  A method that raises ValueError leaves the      *)
(* object as it was, so a guard that fails is an action that is not        *)
(* enabled.  The engine (module BFATEngine) implements this specification: *)
(* every one of its steps is at most one of these transitions.             *)
(***************************************************************************)
EXTENDS Integers

CONSTANTS
  Side,          \* Side.LONG and Side.SHORT: a subset of {"LONG", "SHORT"}
  Price,         \* price levels: positive integers
  Size,          \* position sizes
  Signal,        \* entry signals
  NoPosition,    \* Optional[Position] = None
  NoSignal       \* Optional[Signal] = None

VARIABLES
  state,         \* StateMachine._state
  position,      \* StateMachine._position
  pendingSignal  \* StateMachine._pending_signal

vars == <<state, position, pendingSignal>>

PositionState == {"FLAT", "ENTERING", "OPEN", "CLOSING"}
StopPhase     == {"INITIAL", "BREAKEVEN", "TRAILING"}

\* takeProfit 0 is Position.take_profit = None.
Position == [side : Side, size : Size, stopPrice : Price,
             initialStopPrice : Price, stopPhase : StopPhase,
             takeProfit : Price \cup {0}]

PhaseIndex(phase) ==
  CASE phase = "INITIAL"   -> 0
    [] phase = "BREAKEVEN" -> 1
    [] phase = "TRAILING"  -> 2

\* The same phase is forward: a trailing stop moves within TRAILING.
IsForwardOnly(current, new) == PhaseIndex(new) >= PhaseIndex(current)

IsStopPriceFavorable(side, current, new) ==
  \/ side = "LONG"  /\ new > current
  \/ side = "SHORT" /\ new < current

-----------------------------------------------------------------------------
Init ==
  /\ state = "FLAT"
  /\ position = NoPosition
  /\ pendingSignal = NoSignal

OnSignal(s) ==
  /\ state = "FLAT"
  /\ state' = "ENTERING"
  /\ position' = NoPosition
  /\ pendingSignal' = s

OnEntryFilled(p) ==
  /\ state = "ENTERING"
  /\ pendingSignal # NoSignal
  /\ state' = "OPEN"
  /\ position' = p
  /\ pendingSignal' = NoSignal

\* The stop moves to the favourable side only; the initial stop, the risk
\* baseline of the trade, is copied.
OnStopUpdate(phase, stop) ==
  /\ state = "OPEN"
  /\ position # NoPosition
  /\ IsForwardOnly(position.stopPhase, phase)
  /\ IsStopPriceFavorable(position.side, position.stopPrice, stop)
  /\ position' = [position EXCEPT !.stopPrice = stop, !.stopPhase = phase]
  /\ UNCHANGED <<state, pendingSignal>>

OnTakeProfitUpdate(tp) ==
  /\ state = "OPEN"
  /\ position # NoPosition
  /\ position' = [position EXCEPT !.takeProfit = tp]
  /\ UNCHANGED <<state, pendingSignal>>

\* Neither the phase nor the price of the new position is compared with
\* those of the old one: the engine's scale-out relies on this.
ReplacePosition(p) ==
  /\ state = "OPEN"
  /\ position # NoPosition
  /\ position' = p
  /\ UNCHANGED <<state, pendingSignal>>

OnExitRequested ==
  /\ state = "OPEN"
  /\ position # NoPosition
  /\ state' = "CLOSING"
  /\ UNCHANGED <<position, pendingSignal>>

RollbackEntry ==
  /\ state = "ENTERING"
  /\ state' = "FLAT"
  /\ position' = NoPosition
  /\ pendingSignal' = NoSignal

RestorePosition(p) ==
  /\ state = "FLAT"
  /\ state' = "OPEN"
  /\ position' = p
  /\ pendingSignal' = NoSignal

OnExitFilled ==
  /\ state = "CLOSING"
  /\ position # NoPosition
  /\ state' = "FLAT"
  /\ position' = NoPosition
  /\ UNCHANGED pendingSignal

Next ==
  \/ \E s \in Signal : OnSignal(s)
  \/ \E p \in Position :
        OnEntryFilled(p) \/ ReplacePosition(p) \/ RestorePosition(p)
  \/ \E phase \in StopPhase, stop \in Price : OnStopUpdate(phase, stop)
  \/ \E tp \in Price \cup {0} : OnTakeProfitUpdate(tp)
  \/ OnExitRequested
  \/ RollbackEntry
  \/ OnExitFilled

Spec == Init /\ [][Next]_vars

-----------------------------------------------------------------------------
TypeOK ==
  /\ state \in PositionState
  /\ position \in Position \cup {NoPosition}
  /\ pendingSignal \in Signal \cup {NoSignal}

(***************************************************************************)
(* A position object exists exactly while the lifecycle says one is held,  *)
(* and a signal is pending exactly while an entry is: what the engine's    *)
(* _check_state_consistency and the "pos is None" early returns assume.    *)
(***************************************************************************)
PositionMatchesState ==
  /\ position # NoPosition <=> state \in {"OPEN", "CLOSING"}
  /\ pendingSignal # NoSignal <=> state = "ENTERING"

=============================================================================
