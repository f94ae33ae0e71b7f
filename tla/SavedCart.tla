------------------------------ MODULE SavedCart ------------------------------
(***************************************************************************)
(* What the shopping screens of each app promise together: a cart that     *)
(* only ever grows at its end, by entries that were not in it before.      *)
(* FlutterShop (the list saved under 'data') and SwiftShop (the records of *)
(* CurrentPurchase) implement it.                                          *)
(***************************************************************************)
EXTENDS Naturals, Sequences

CONSTANTS Entries,     \* what the cart holds
          MaxAtOnce    \* bound: entries one screen adds

VARIABLE cart

Init == cart = <<>>

Grow ==
  /\ cart' \in Seq(Entries)
  /\ Len(cart') \in Len(cart) + 1 .. Len(cart) + MaxAtOnce
  /\ \A i \in DOMAIN cart : cart'[i] = cart[i]
  /\ \A i \in DOMAIN cart, j \in DOMAIN cart' \ DOMAIN cart : cart'[j] # cart[i]

Spec == Init /\ [][Grow]_cart
=============================================================================
