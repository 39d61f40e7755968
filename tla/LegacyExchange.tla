--------------------------- MODULE LegacyExchange ---------------------------
(***************************************************************************)
(* The exchange as the engines under _legacy use it: one symbol of one     *)
(* futures account, in one-way mode, with its reduce-only protective       *)
(* orders and at most one resting entry order.  Which engine runs is up to *)
(* the modules that extend this one.                                       *)
(***************************************************************************)
EXTENDS LegacyFaults

CONSTANTS
  Full,          \* the size of a whole position
  MaxOrders      \* bound: orders known to anyone at a time

ASSUME LegacyAssumption ==
  /\ Full \in Nat /\ Full >= 2
  /\ MaxOrders \in Nat

VARIABLES
  amt,     \* positionAmt, signed
  live,    \* the live orders
  gaps     \* history: why the position may be without a stop

exchangeVars == <<amt, live, gaps>>

Kinds  == {"sl", "tp1", "tp2", "entry"}
\* qty 0: closePosition.
Orders == [kind : Kinds, id : 1..MaxOrders, side : {-1, 1}, qty : Nat]

Protective == {o \in live : o.kind # "entry"}
Protected  == \E o \in live : o.kind = "sl" /\ o.side = Sign(amt)

ExchangeTypeOK ==
  /\ amt \in Int
  /\ live \subseteq Orders

ExchangeInit == amt = 0 /\ live = {} /\ gaps = {}

-----------------------------------------------------------------------------
\* A market order: reduce-only ones are cut to the position, and refused when
\* there is nothing to reduce.
Bought(side, qty)  == amt + side * qty
Reduced(side, qty) == amt + side * AtMost(qty, Size(amt))
Reduces(side)      == Sign(amt) = -side

\* A protective order triggers: closePosition, or reduce-only for its quantity.
Fires(o) ==
  /\ o \in Protective /\ o.side = Sign(amt)
  /\ amt' = IF o.qty = 0 THEN 0 ELSE amt - o.side * AtMost(o.qty, Size(amt))
  /\ live' = live \ {o}
  /\ gaps' = IF amt' = 0 THEN {} ELSE gaps \cup IF o.kind = "sl" THEN {"outgrown"} ELSE {}

=============================================================================
