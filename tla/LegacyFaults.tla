---------------------------- MODULE LegacyFaults ----------------------------
(***************************************************************************)
(* What the modules about the engines under _legacy share: the faults an   *)
(* engine may meet, and signed sizes.                                      *)
(***************************************************************************)
EXTENDS Integers, FiniteSets

\* Every engine has a constant that says which of them it meets.
FaultKinds == {
  "read",      \* a query raises
  "lag",       \* the position query does not show an entry yet
  "refuse",    \* a protective order is refused
  "order",     \* an order is refused
  "lost",      \* an order is accepted and its answer lost
  "cancel",    \* a cancel is refused
  "setting",   \* margin mode or leverage cannot be set
  "stream",    \* the user data stream loses a message or hears nothing
  "stop"}      \* the user stops the engine, and starts it again

Sign(n) == IF n > 0 THEN 1 ELSE IF n < 0 THEN -1 ELSE 0
Size(n) == IF n < 0 THEN -n ELSE n
AtMost(m, n) == IF m < n THEN m ELSE n

=============================================================================
