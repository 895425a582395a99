---------------------------- MODULE MCShopShelf ----------------------------
(***************************************************************************)
(* Two users and one item with a term, of the kind whose failed delivery   *)
(* is refunded at once.  They compete for its slots, which administrators  *)
(* limit and free again, and for the single place of a sweep.              *)
(***************************************************************************)
EXTENDS MCShopContract, ShopShelf

MCPairUser == {"u", "v"}
MCPairRows ==
  {[MCRow(TRUE, "external", FALSE, TRUE, NonRole) EXCEPT !.user = who] : who \in MCPairUser}

MCPairStock == {1, 2}
MCPairRequest == {1, Unlimited}
=============================================================================
