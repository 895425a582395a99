----------------------------- MODULE ShopShelf -----------------------------
(***************************************************************************)
(* The shelf of the shop: the contracts of ShopContract together with what *)
(* the administrators put up.  A refund gives its slot back at once, or,   *)
(* while the item is sold without limit, leaves it to be settled when the  *)
(* item is limited again: added to the new number, or absorbed by it.      *)
(***************************************************************************)
EXTENDS ShopContract

VARIABLE supply   \* history: slots put up for an item, less those taken off the shelf

shelfVars == <<vars, supply>>

\* An item without limit has no number to add to or to take from.
OnShelf(n) == IF n = Unlimited THEN 0 ELSE n

ShelfInit ==
  /\ Init
  /\ supply = [i \in Item |-> OnShelf(stock[i])]

\* Only the number the administrator asked for is new supply.  What the change adds
\* to it for earlier refunds was put up before.
StockChange(i, request, mode) ==
  /\ ApplyStockChange(i, request, mode)
  /\ supply' = [supply EXCEPT ![i] = @ + OnShelf(request) - OnShelf(stock[i])]

ShelfNext ==
  \/ PurchaseStep /\ UNCHANGED supply
  \/ \E i \in Item, request \in StockRequest, mode \in StockMode :
       StockChange(i, request, mode)

ShelfSpec == ShelfInit /\ [][ShelfNext]_shelfVars

\* The scheduler runs the sweep every minute for as long as the bot is up.
FairShelfSpec == ShelfSpec /\ WF_shelfVars(ExpireOverdue /\ UNCHANGED supply)

-----------------------------------------------------------------------------
\* The slots that were sold and are on no shelf again: their service is owed or
\* done, or their refund waits for a number, or an administrator counted them into
\* his ("absorbed").
Taken(i) ==
  {p \in Purchase : /\ row[p].item = i /\ consumed[p]
                    /\ restoration[p] # "applied" /\ settlement[p] # "applied"}

\* No slot is lost and none comes back twice, through sales, refunds and changes of
\* the stock in any order, from limited to unlimited and back: what was put up is on
\* the shelf or taken (service.ts, restoreStockForRefund and applyStockChange).
SlotsConserved == \A i \in Item : supply[i] = OnShelf(stock[i]) + Cardinality(Taken(i))
=============================================================================
