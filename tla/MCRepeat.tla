------------------------------ MODULE MCRepeat ------------------------------
(* A customer who never ordered or whose last order had three foods; or    *)
(* two products with a promotion among them, in either order, so that a    *)
(* removal moves each class under the other.                               *)
EXTENDS FlutterRepeat

Of(type, units) == [type |-> type, units |-> units]
TwoOrders == {<<>>, <<Of("food", 1), Of("food", 2), Of("food", 1)>>}
PromotionOrders == {<<Of("promotion", 1), Of("food", 2)>>, <<Of("food", 1), Of("promotion", 1)>>,
                    <<Of("promotion", 1), Of("promotion", 1)>>}

\* the screen left for the last time: nothing of interest follows
MoreToCome == open \/ opens < MaxOpens

\* what the run about promotions does not read: the message, which no step reads
RepeatView == <<saved, ready, pending, open, items, rows, delivery, total, queries, catalog, history>>
=============================================================================
