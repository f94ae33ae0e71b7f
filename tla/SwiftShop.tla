------------------------------ MODULE SwiftShop ------------------------------
(***************************************************************************)
(* The shopping side of the iOS app: product screens (SwiftDetails) and    *)
(* drink screens (SwiftDrinks), presented modally, one at a time, over one *)
(* CurrentPurchase.  No screen reads what is in the cart: each inserts     *)
(* behind it.                                                              *)
(***************************************************************************)
EXTENDS SwiftDetails

CONSTANTS Rows, Window, DrinkPrice

VARIABLES drinkScreen, units, label, net, hidden, scrolled, sent

Drinks == INSTANCE SwiftDrinks WITH Price <- DrinkPrice, screen <- drinkScreen

ASSUME DrinksAssumption == Drinks!DrinksAssumption

productVars == <<view, opened>>
drinkVars   == <<drinkScreen, units, label, net, hidden, scrolled, sent>>
shopVars    == <<vars, drinkVars>>

ShopInit == Init /\ Drinks!Init

\* bound: screens of both kinds
Room == opened + Len(sent) < MaxScreens

ShopNext ==
  \/ /\ drinkScreen = 0 /\ Room
     /\ \E t \in Products : Open(t)
     /\ UNCHANGED drinkVars
  \/ /\ \E t \in Products :
          \/ AddUnit(t) \/ SubUnit(t) \/ CloseView(t) \/ AddMarketPlace(t)
          \/ \E a \in Additionals : Press(t, a)
     /\ UNCHANGED drinkVars
  \/ screen = {} /\ Room /\ Drinks!Present /\ UNCHANGED productVars
  \/ /\ \/ \E r \in 1 .. Rows : Drinks!AddButton(r) \/ Drinks!SubButton(r)
        \/ \E first \in 1 .. Rows - Window + 1 : Drinks!Scroll(first)
        \/ Drinks!Send \/ Drinks!Dismiss
     /\ UNCHANGED productVars

ShopSpec == ShopInit /\ [][ShopNext]_shopVars

-----------------------------------------------------------------------------
Entries == Entry \cup Drinks!Item

ShopTypeOK ==
  /\ cart \in Seq(Entries) /\ OwnTypeOK /\ Drinks!OwnTypeOK
  /\ screen = {} \/ drinkScreen = 0

\* LabelCoversOrder and TappedIsOrdered of SwiftDrinks, beside product screens.
LabelCoversOrder == Drinks!LabelCoversOrder
TappedIsOrdered  == Drinks!TappedIsOrdered

\* What they rest on, and the numbers of SwiftDetails.
CellsAgree         == Drinks!CellsAgree
LabelCoversCells   == Drinks!LabelCoversCells
ScreensAreNumbered == Drinks!ScreensAreNumbered

\* The screens of both kinds implement the growing list.
Saved == INSTANCE SavedCart WITH MaxAtOnce <- Window
ImplementsSavedCart == Saved!Spec
=============================================================================
