----------------------------- MODULE FlutterShop -----------------------------
(***************************************************************************)
(* The shopping side of the Flutter app: product screens (FlutterDetails)  *)
(* and drink screens (FlutterDrinks), one of them at a time on top of the  *)
(* menu, over one saved cart.                                              *)
(*                                                                         *)
(* Each screen has its own copy of the whole cart, loaded by the           *)
(* constructor and written back by save(); the continuations of a screen   *)
(* that was left run among those of its successors, in the one queue of    *)
(* microtasks.  Nothing else keeps the copies of different screens from    *)
(* overwriting each other.                                                 *)
(***************************************************************************)
EXTENDS FlutterDetails

CONSTANTS Menus, Options, DrinkPrice

VARIABLES drinkUnits, drinkStates, drinkTop, rows, drinkValue,
          drinkLoaded, chosen, drinkEarly, recreated

Drinks == INSTANCE FlutterDrinks WITH
  Price <- DrinkPrice, units <- drinkUnits, states <- drinkStates, top <- drinkTop,
  valueUn <- drinkValue, loaded <- drinkLoaded, early <- drinkEarly

ASSUME DrinksAssumption == Drinks!DrinksAssumption

productVars == <<states, top, checked, history>>
drinkVars   == <<drinkUnits, drinkStates, drinkTop, rows, drinkValue,
                 drinkLoaded, chosen, drinkEarly, recreated>>
shopVars    == <<vars, drinkVars>>

ShopInit == Init /\ Drinks!Init

\* bound: screens of both kinds
Room == Len(states) + Len(drinkStates) < MaxScreens

ShopNext ==
  \/ PrefsReady /\ UNCHANGED drinkVars
  \/ /\ drinkTop = 0 /\ Room
     /\ \E p \in Products : Open(p)
     /\ UNCHANGED drinkVars
  \/ /\ \/ \E s \in Screens : Load(s) \/ Save(s)
        \/ AddUnit \/ SubUnit \/ \E e \in Extras : Tick(e)
        \/ Add \/ BackArrow \/ SystemBack
     /\ UNCHANGED drinkVars
  \/ /\ top = 0 /\ Room
     /\ \E m \in Menus : Drinks!Open(m)
     /\ UNCHANGED productVars
  \/ /\ \/ \E s \in Screens : Drinks!Load(s) \/ Drinks!Save(s)
        \/ \E o \in 1 .. Drinks!MaxOptions : Drinks!AddUnit(o) \/ Drinks!SubUnit(o)
        \/ Drinks!RecreateRows \/ Drinks!MakeCartItens \/ Drinks!Back
     /\ UNCHANGED productVars

ShopSpec == ShopInit /\ [][ShopNext]_shopVars

-----------------------------------------------------------------------------
Entries == Item \cup Drinks!Item

ShopTypeOK ==
  /\ data \in Seq(Entries) /\ hasData \in BOOLEAN
  /\ ready \in BOOLEAN /\ pending \in Seq(Task \cup Drinks!Task)
  /\ OwnTypeOK(Entries) /\ Drinks!OwnTypeOK(Entries)
  /\ top = 0 \/ drinkTop = 0

\* What any screen put in the cart is saved once the continuations have run,
\* unless it was added before that screen had loaded the cart: products
\* (AddedIsSaved) and drinks, these once each and in their order, although
\* their screen was left before its saves and its units were reset since.
EverythingSaved == AddedIsSaved /\ Drinks!ChosenIsSaved

\* RowsCounted of FlutterDrinks: a row never counts more than the global list,
\* and the value shown is that of what would be added.
RowsCounted == Drinks!RowsCounted

\* The screens of both kinds implement the growing list: no screen's copy,
\* however old, takes back or doubles what another one saved.
Saved == INSTANCE SavedCart WITH cart <- data, MaxAtOnce <- Drinks!MaxOptions
ImplementsSavedCart == Saved!Spec
=============================================================================
