----------------------------- MODULE MCSwiftShop -----------------------------
(* A food with two additionals of different prices, a promotion, and a menu of *)
(* three drinks in a window of two rows.                                       *)
EXTENDS SwiftShop

CONSTANTS bacon, egg

Prices      == [t \in Products |-> IF t \in Foods THEN 5 ELSE 3]
AddPrices   == [a \in Additionals |-> IF a = bacon THEN 4 ELSE 2]
DrinkPrices == [r \in 1 .. Rows |-> 2 + r]
=============================================================================
