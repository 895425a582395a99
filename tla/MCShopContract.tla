--------------------------- MODULE MCShopContract ---------------------------
(***************************************************************************)
(* Instances of ShopContract for TLC.  The rows range over what the code   *)
(* can have written: a new sale records provenance and is paid in Land; an *)
(* old row lacks one or the other.  Values of the model that stand for     *)
(* configuration (items, users, the role) are single letters.              *)
(***************************************************************************)
EXTENDS ShopContract

MCRow(prov, mode, alt, timed, target) ==
  [item |-> "i", user |-> "u", prov |-> prov, mode |-> mode,
   alt |-> alt, timed |-> timed, target |-> target]

MCItem == {"i"}
MCUser == {"u"}
MCRole == {"r"}

\* What storefront, evaluation extension and request sales write.
MCNewRows ==
  {MCRow(TRUE, "external", FALSE, timed, target) : timed \in BOOLEAN, target \in {"r", NonRole}}
  \cup {MCRow(TRUE, "manual", FALSE, timed, target) : timed \in BOOLEAN, target \in {"r", NonRole}}
  \cup {MCRow(TRUE, "deadline", FALSE, FALSE, NonRole)}

\* Rows older than provenance, or sold for an alternative resource.
MCOldRows ==
  {MCRow(FALSE, "external", alt, timed, target) :
      alt \in BOOLEAN, timed \in BOOLEAN, target \in {"r", NonRole}}
  \cup {MCRow(FALSE, "deadline", FALSE, FALSE, NonRole)}
  \cup {MCRow(FALSE, "manual", FALSE, timed, UnknownTarget) : timed \in BOOLEAN}
  \cup {MCRow(TRUE, "external", TRUE, timed, NonRole) : timed \in BOOLEAN}

MCAllRows == MCNewRows \cup MCOldRows

MCStock == {1, Unlimited}
MCStockRequest == {0, 1, Unlimited}
=============================================================================
