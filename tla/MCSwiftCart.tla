----------------------------- MODULE MCSwiftCart -----------------------------
(* Small instances of SwiftCart for TLC. *)
EXTENDS SwiftCart

Prices == [p \in Products |-> 1990]

\* The sums of up to three lines of 19.90 or 39.80, with and without the fee, whose
\* double times 100 rounds down (100 * 19.9 is 1989.9999..., 100 * 23.9 is 2390),
\* and of three such lines once each is truncated.
TwoSingles(a, b) == {<<a, a, b>>, <<a, b, a>>, <<b, a, a>>}
ShortSums ==
  {0} \X ({<<1990>>, <<3980>>, <<1990, 1990>>, <<3980, 3980>>}
          \cup TwoSingles(1990, 3980) \cup TwoSingles(1989, 3979))

\* The run about both screens tells messages apart only while the label shows one,
\* orders only while the repeat list is one, and the list an order has replaced only
\* while it is copied: otherwise no step and no property reads them.
LastMessage == IF label = Total(itemsProduct, delivery) THEN <<>> ELSE <<message>>
Replaced    == IF copying THEN old ELSE <<>>
Ordered     == IF copying \/ intact THEN order ELSE <<>>
ScreensView == <<context, store, shown, copying, left, LastMessage, Replaced, Ordered,
                 nextId, intact, failures>>
=============================================================================
