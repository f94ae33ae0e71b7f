---------------------------- MODULE MCFlutterShop ----------------------------
(* A food, a promotion, and a menu of two drinks.                             *)
EXTENDS FlutterShop

Prices      == [p \in Products |-> 3]
ExtraCharges == [e \in Extras |-> 4]
TwoOptions  == [m \in Menus |-> 2]
DrinkPrices == [m \in Menus |-> [o \in {1, 2} |-> 3 + o]]
=============================================================================
