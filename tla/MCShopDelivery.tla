--------------------------- MODULE MCShopDelivery ---------------------------
(***************************************************************************)
(* Instances of ShopDelivery for TLC: two contracts of one role, of an     *)
(* item with a term (sold once more after the first ran out) or of an item *)
(* without.                                                                *)
(***************************************************************************)
EXTENDS ShopDelivery

MCRow(item, timed) ==
  [item |-> item, user |-> "u", prov |-> TRUE, mode |-> "external",
   alt |-> FALSE, timed |-> timed, target |-> "r"]

MCItem == {"timed", "second"}
MCUser == {"u"}
MCRole == {"r"}
MCRows == {MCRow("timed", TRUE), MCRow("second", FALSE)}
MCTimed == {MCRow("timed", TRUE)}
MCStock == {Unlimited}
MCNone == {}
=============================================================================
