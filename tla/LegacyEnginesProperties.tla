---------------------- MODULE LegacyEnginesProperties -----------------------
(***************************************************************************)
(* What the archived engines promise: none of them leaves a position       *)
(* without its stop, but behind a step that is named here.                 *)
(***************************************************************************)
EXTENDS LegacyEngines

\* No step of the engine under way, no message, no resting order.
RunnerSettled ==
  /\ engine = "runner"
  /\ at.loop \in {"head", "off"} /\ at.ws = "idle" /\ messages = <<>>
  /\ live = Protective

\* A settled position of the runner has a stop, or a fill was not heard, was
\* heard for an order no longer noted, or met the other thread in _on_fill, or
\* a call failed; or on_ws_fill swept the brackets after a TP2 or a stop that
\* left a part of the position, or when a newer one was held already, or the
\* stop was for a quantity that the position had outgrown (ExecutionEngine.tick,
\* on_ws_fill, _on_fill).
RunnerProtects == RunnerSettled /\ amt # 0 /\ ~Protected => gaps # {}

AutopilotSettled ==
  /\ engine = "autopilot"
  /\ step \in Waits /\ pending.id = 0
  /\ live = Protective

\* A settled position of the autopilot has a stop, or its limit order was
\* dropped with a part of it filled, its fill lay beyond the take profit, or a
\* call failed that ends the cycle with the old orders cancelled
\* (_check_pending_limit_orders, _set_sl_tp, the flip).
AutopilotProtects == AutopilotSettled /\ amt # 0 /\ ~Protected => gaps # {}

\* With a cooldown no entry is sent once the counted loss of the day has
\* reached the limit, though the loss is counted after the limit is checked;
\* but for a cycle during which the user stopped and started, which forgets
\* the cooldown (run_one_cycle, start_autopilot).
EntersWithinLimit ==
  [][PlaceLimit \/ PlaceMarket => counted > -DailyLimit \/ cycle.restarted]_legacyVars

ModularSettled == engine = "modular" /\ \A l \in Loops : loop[l].at \in {"off", "idle"}

\* Between the ticks of the modular engine a position has a stop for all of
\* it, or one was refused, not cancelled or placed on an old reading, or two
\* loops ran at a time (execute_risk_plan, _ensure_stop_for_position).
ModularCovers ==
  ModularSettled => \A c \in Coins : held[c] # 0 /\ ~Covered(c) => holes[c] # {}

\* Whatever the reads of a price answer, and however often, the plan that
\* reaches the last check of compute_target_positions is within the leverage,
\* so that nothing is scaled down there: redistribution gives away no more
\* than it takes.
PlanWithinLeverage ==
  planner = "validate" => PlanNotional <= Cfg.leverage * equity

=============================================================================
