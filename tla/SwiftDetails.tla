---------------------------- MODULE SwiftDetails ----------------------------
(***************************************************************************)
(* The product screens of the iOS app: CategoryOportunitiesViewController  *)
(* (foods with additionals) and PromotionsViewController.                  *)
(*                                                                         *)
(* Which additionals are chosen is kept in the colours of labels.  Each    *)
(* handler sums their prices for itself: the three that set the price      *)
(* label, getPrice, which saves a unit price, and the cart, which reads the*)
(* names back from the text getAditionals saved and ignores that price.    *)
(* Entries carry a serial number and what the label said, as history; that *)
(* a save may fail is the subject of SwiftCart.  SwiftShop puts these      *)
(* screens beside those of the drinks.  Amounts are exact: the cent that   *)
(* truncate() may take from a label is left out (see SwiftCart).           *)
(***************************************************************************)
EXTENDS Integers, Sequences, FiniteSets, SequencesExt

CONSTANTS
  Foods, Promotions,
  Additionals,
  Price,          \* dictPrice and promotionBlock.price
  AddPrice,       \* additionalsPriceDict
  MaxUnits,       \* bound: units of a product
  MaxScreens      \* bound: screens opened

Products == Foods \cup Promotions

ASSUME DetailsAssumption ==
  /\ Foods \cap Promotions = {} /\ IsFiniteSet(Additionals)
  /\ Price \in [Products -> Nat \ {0}] /\ AddPrice \in [Additionals -> Nat \ {0}]
  /\ MaxUnits \in Nat \ {0} /\ MaxScreens \in Nat

VARIABLES
  cart,        \* CurrentPurchase
  screen,      \* the titles of the screen on top: a set of at most one
  unitsInt,
  green,       \* labels of additionals in the colour of a choice
  priceLabel,
  opened       \* screens opened so far

view == <<screen, unitsInt, green, priceLabel>>
vars == <<cart, view, opened>>

Entry == [of : {"product"}, n : 1 .. MaxScreens, title : Products, adds : SUBSET Additionals,
          units : 1 .. MaxUnits, price : Nat, shown : Nat]

Sum(adds) == SumFunction([a \in adds |-> AddPrice[a]])

\* mutant: units do not multiply the additionals
ShownOnce(t, units, adds) == Price[t] * units + Sum(adds)

\* the label as addUnit, subUnit and additionalPressed compute it
Shown(t, units, adds) == Price[t] * units + Sum(adds) * units

\* getPrice; a promotion's own price
GetPrice(t, adds) == Price[t] + Sum(adds)

Init ==
  /\ cart = <<>> /\ screen = {} /\ unitsInt = 1 /\ green = {} /\ priceLabel = 0 /\ opened = 0

\* viewDidLoad: a new controller, whose labels are black
Open(t) ==
  /\ screen = {} /\ opened < MaxScreens /\ opened' = opened + 1
  /\ screen' = {t} /\ unitsInt' = 1 /\ green' = {} /\ priceLabel' = Price[t]
  /\ UNCHANGED cart

\* the label after a change of units or of the choice
Relabel(t, units, adds) ==
  /\ unitsInt' = units /\ green' = adds /\ priceLabel' = Shown(t, units, adds)
  /\ UNCHANGED <<cart, screen, opened>>

AddUnit(t) ==
  /\ t \in screen /\ unitsInt < MaxUnits
  /\ Relabel(t, unitsInt + 1, green)

SubUnit(t) ==
  /\ t \in screen /\ unitsInt > 1
  /\ Relabel(t, unitsInt - 1, green)

\* additionalPressed: only the screen of a food has the buttons
Press(t, a) ==
  /\ t \in screen \cap Foods
  /\ Relabel(t, unitsInt, IF a \in green THEN green \ {a} ELSE green \cup {a})

CloseView(t) ==
  /\ t \in screen /\ screen' = {}
  /\ UNCHANGED <<cart, unitsInt, green, priceLabel, opened>>

\* mutant: the fetched record of the same product is overwritten
AddReplacing(t) ==
  /\ t \in screen /\ screen' = {}
  /\ cart' = Append(SelectSeq(cart, LAMBDA e : e.title # t),
                    [of |-> "product", n |-> opened, title |-> t, adds |-> green, units |-> unitsInt,
                     price |-> GetPrice(t, green), shown |-> priceLabel])
  /\ UNCHANGED <<unitsInt, green, priceLabel, opened>>

AddMarketPlace(t) ==
  /\ t \in screen /\ screen' = {}
  /\ cart' = Append(cart, [of |-> "product", n |-> opened, title |-> t, adds |-> green, units |-> unitsInt,
                           price |-> GetPrice(t, green), shown |-> priceLabel])
  /\ UNCHANGED <<unitsInt, green, priceLabel, opened>>

Next == \E t \in Products :
  \/ Open(t) \/ AddUnit(t) \/ SubUnit(t) \/ CloseView(t) \/ AddMarketPlace(t)
  \/ \E a \in Additionals : Press(t, a)

Spec == Init /\ [][Next]_vars

-----------------------------------------------------------------------------
\* what these screens keep
OwnTypeOK ==
  /\ screen \subseteq Products /\ \A t, u \in screen : t = u
  /\ unitsInt \in 1 .. MaxUnits /\ green \subseteq Additionals /\ priceLabel \in Nat
  /\ opened \in 0 .. MaxScreens

\* CarrinhoViewController.updateTotalValue: a food's names, a promotion's price
Charged(e) ==
  IF e.title \in Foods THEN (Price[e.title] + Sum(e.adds)) * e.units ELSE e.price * e.units

(* What the cart charges for a product is what its screen's label said when*)
(* it was added, and the unit price saved beside it agrees, whatever order *)
(* of + and - and choices came before; nothing is carried over from another*)
(* screen.                                                                 *)
ShownIsCharged ==
  \A i \in DOMAIN cart : cart[i].of = "product" =>
    /\ cart[i].shown = Charged(cart[i])
    /\ cart[i].price * cart[i].units = cart[i].shown

(* What it rests on.  Whatever the order of + and - and choices, the label *)
(* is what the units and the colours say together.                         *)
LabelIsShown == \A t \in screen : priceLabel = Shown(t, unitsInt, green)

(* No two screens add under the same number.                               *)
ProductsAreNumbered ==
  /\ screen # {} => opened > 0
  /\ \A i \in DOMAIN cart : cart[i].of = "product" =>
       cart[i].n <= opened /\ (screen # {} => cart[i].n < opened)
=============================================================================
