------------------------- MODULE MCProtectiveOrders -------------------------
(***************************************************************************)
(* ProtectiveOrders over two sets of exchange rules: a coarse tick and a   *)
(* fine lot, or a fine tick and a coarse lot.                              *)
(***************************************************************************)
EXTENDS ProtectiveOrdersProperties

MCRuleSet == {[qtyStep |-> 1, qtyMin |-> 1, priceStep |-> 2],
              [qtyStep |-> 2, qtyMin |-> 2, priceStep |-> 1]}
=============================================================================
