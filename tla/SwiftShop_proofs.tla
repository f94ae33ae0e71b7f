---------------------------- MODULE SwiftShop_proofs ----------------------------
(***************************************************************************)
(* Theorems about the shopping screens of the iOS app, for every set of    *)
(* products and additionals, every menu of drinks and window of the table, *)
(* and every bound of SwiftShop.                                           *)
(***************************************************************************)
EXTENDS SwiftShop, DataTheorems

(* The drink screens' names for what the lemmas are about *)

LEMMA DrinksSum == \A f : Drinks!SumFunction(f) = SumFunction(f)
  BY DEF Drinks!SumFunction, Drinks!SumFunctionOnSet, Drinks!FoldFunctionOnSet, Drinks!MapThenFoldSet,
         SumFunction, SumFunctionOnSet, FoldFunctionOnSet, MapThenFoldSet

LEMMA DrinksOrder == \A S : Drinks!InOrder(S) = InOrder(S)
  BY Zenon DEF Drinks!InOrder, InOrder, Drinks!Cardinality, Cardinality

LEMMA DrinksEntered == \A list, S : Drinks!Entered(list, S) = Entered(list, S)
  BY DrinksOrder DEF Drinks!Entered, Entered

LEMMA DrinkConstants ==
  /\ Rows \in Nat /\ Window \in 1 .. Rows /\ \A r \in 1 .. Rows : DrinkPrice[r] \in Nat \ {0}
  /\ MaxUnits \in Nat \ {0} /\ MaxScreens \in Nat
  BY DrinksAssumption, DetailsAssumption DEF Drinks!DrinksAssumption

-----------------------------------------------------------------------------
(* Prices of products *)

LEMMA SumIsNat ==
  /\ Sum({}) = 0
  /\ \A adds \in SUBSET Additionals : Sum(adds) \in Nat
<1>1. Sum({}) = 0
  <2> DEFINE f == [a \in {} |-> AddPrice[a]]
  <2>1. DOMAIN f = {} /\ IsFiniteSet({})
    BY FS_EmptySet
  <2> HIDE DEF f
  <2>2. SumFunction(f) = 0
    BY <2>1, SumOverSet DEF SumFunction
  <2> QED
    BY <2>2 DEF Sum, f
<1>2. ASSUME NEW adds \in SUBSET Additionals PROVE Sum(adds) \in Nat
  <2> DEFINE f == [a \in adds |-> AddPrice[a]]
  <2>1. IsFiniteSet(adds)
    BY DetailsAssumption, FS_Subset
  <2>2. DOMAIN f = adds /\ \A x \in DOMAIN f : f[x] \in Nat
    BY DetailsAssumption
  <2> HIDE DEF f
  <2>3. SumFunction(f) \in Nat
    BY <2>1, <2>2, SumOfFunction
  <2> QED
    BY <2>3 DEF Sum, f
<1> QED
  BY <1>1, <1>2

LEMMA Distributes ==
  ASSUME NEW p \in Nat, NEW s \in Nat, NEW u \in Nat
  PROVE  (p + s) * u = p * u + s * u /\ p * u + s * u \in Nat
  OBVIOUS

\* The unit price that is saved and the label that is shown are one sum.
LEMMA ProductPrices ==
  ASSUME NEW t \in Products, NEW u \in 1 .. MaxUnits, NEW adds \in SUBSET Additionals
  PROVE  /\ Shown(t, u, adds) \in Nat /\ GetPrice(t, adds) \in Nat
         /\ GetPrice(t, adds) * u = Shown(t, u, adds)
         /\ GetPrice(t, adds) = Price[t] + Sum(adds)
         /\ Shown(t, 1, {}) = Price[t] /\ Price[t] \in Nat
<1>1. Price[t] \in Nat /\ Sum(adds) \in Nat /\ Sum({}) = 0 /\ u \in Nat
  BY DetailsAssumption, SumIsNat
<1>2. (Price[t] + Sum(adds)) * u = Price[t] * u + Sum(adds) * u /\ Price[t] * u + Sum(adds) * u \in Nat
  BY <1>1, Distributes
<1>3. Price[t] * 1 + 0 * 1 = Price[t] /\ Price[t] + Sum(adds) \in Nat
  BY <1>1
<1> QED
  BY <1>1, <1>2, <1>3 DEF Shown, GetPrice

-----------------------------------------------------------------------------
(* Orders of drinks *)

\* The rows with units, and the order in which they are sent.
Picked(count) == {r \in DOMAIN count : count[r] # 0}

LEMMA Positive ==
  ASSUME NEW p \in Nat \ {0}, NEW c \in Nat
  PROVE  p * c \in Nat /\ (p * c > 0 <=> c # 0)
  OBVIOUS

LEMMA WantedIs ==
  ASSUME NEW count, DOMAIN count \subseteq 1 .. Rows, \A r \in DOMAIN count : count[r] \in 0 .. MaxUnits,
         drinkScreen \in 1 .. MaxScreens,
         NEW o, o = InOrder(Picked(count)), NEW w, w = Drinks!Wanted(count)
  PROVE  /\ Enumerates(o, Picked(count)) /\ Picked(count) \subseteq 1 .. Rows
         /\ w \in Seq(Drinks!Item) /\ DOMAIN w = DOMAIN o /\ Len(w) = Len(o)
         /\ w = [k \in DOMAIN o |-> [of |-> "drinks", n |-> drinkScreen, row |-> o[k], units |-> count[o[k]]]]
<1>1. Rows \in Nat /\ MaxUnits \in Nat /\ \A r \in 1 .. Rows : DrinkPrice[r] \in Nat \ {0}
  BY DrinkConstants
<1>2. \A r \in DOMAIN count : DrinkPrice[r] * count[r] > 0 <=> count[r] # 0
  <2>1. \A r \in DOMAIN count : DrinkPrice[r] \in Nat \ {0} /\ count[r] \in Nat
    BY <1>1
  <2> QED
    BY <2>1, Positive
<1>3. {r \in DOMAIN count : DrinkPrice[r] * count[r] > 0} = Picked(count)
  BY <1>2 DEF Picked
<1>4. w = [k \in DOMAIN o |-> [of |-> "drinks", n |-> drinkScreen, row |-> o[k], units |-> count[o[k]]]]
  BY <1>3, DrinksOrder DEF Drinks!Wanted
<1>5. Picked(count) \subseteq 1 .. Rows
  BY DEF Picked
<1>6. Enumerates(o, Picked(count))
  BY <1>1, <1>5, InOrderEnumerates
<1>7. o \in Seq(Picked(count))
  BY <1>6 DEF Enumerates
<1>8. \A k \in DOMAIN o : o[k] \in 1 .. Rows /\ count[o[k]] \in 1 .. MaxUnits
  <2>1. \A k \in DOMAIN o : o[k] \in Picked(count)
    BY <1>7
  <2> QED
    BY <1>1, <2>1 DEF Picked
<1>9. \A k \in DOMAIN o : [of |-> "drinks", n |-> drinkScreen, row |-> o[k], units |-> count[o[k]]] \in Drinks!Item
  BY <1>8 DEF Drinks!Item
<1>10. Len(o) \in Nat /\ DOMAIN o = 1 .. Len(o)
  BY <1>7
<1>11. w \in Seq(Drinks!Item) /\ DOMAIN w = DOMAIN o /\ Len(w) = Len(o)
  BY <1>4, <1>9, <1>10
<1> QED
  BY <1>4, <1>5, <1>6, <1>11

\* Only rows of the window are sent, each once.
LEMMA WantedFits ==
  ASSUME NEW count, NEW first \in 1 .. Rows - Window + 1, DOMAIN count = first .. first + Window - 1,
         \A r \in DOMAIN count : count[r] \in 0 .. MaxUnits,
         drinkScreen \in 1 .. MaxScreens
  PROVE  Drinks!Wanted(count) \in Seq(Drinks!Item) /\ Len(Drinks!Wanted(count)) <= Window
<1> DEFINE o == InOrder(Picked(count))
           w == Drinks!Wanted(count)
<1>1. Rows \in Nat /\ Window \in 1 .. Rows
  BY DrinkConstants
<1>2. DOMAIN count \subseteq 1 .. Rows
  BY <1>1
<1>3. Enumerates(o, Picked(count)) /\ Picked(count) \subseteq 1 .. Rows /\ w \in Seq(Drinks!Item) /\ Len(w) = Len(o)
  <2>1. o = InOrder(Picked(count)) /\ w = Drinks!Wanted(count)
    OBVIOUS
  <2> HIDE DEF o, w
  <2> QED
    BY <1>2, <2>1, WantedIs
<1> HIDE DEF o, w
<1>4. Cardinality(Picked(count)) = Len(o)
  <2>1. Picked(count) \subseteq Int
    BY <1>3
  <2> QED
    BY <1>3, <2>1, EnumerationCounts
<1>5. IsFiniteSet(DOMAIN count) /\ Cardinality(DOMAIN count) = Window
  <2>1. \A a \in Nat, b \in Nat : IsFiniteSet(a .. b) /\ Cardinality(a .. b) = IF a > b THEN 0 ELSE b - a + 1
    BY FS_Interval
  <2>2. first \in Nat /\ first + Window - 1 \in Nat /\ ~ (first > first + Window - 1)
        /\ (first + Window - 1) - first + 1 = Window
    BY <1>1
  <2> QED
    BY <2>1, <2>2
<1>6. Picked(count) \in SUBSET (DOMAIN count)
  BY DEF Picked
<1>7. Cardinality(Picked(count)) <= Window
  BY <1>5, <1>6, FS_Subset
<1> QED
  BY <1>3, <1>4, <1>7 DEF w

-----------------------------------------------------------------------------
(* The total of the cells *)

Costs(count) == [r \in DOMAIN count |-> DrinkPrice[r] * count[r]]

Labels(count) == DOMAIN count \subseteq 1 .. Rows /\ \A r \in DOMAIN count : count[r] \in 0 .. MaxUnits

LEMMA CostsAre ==
  ASSUME NEW count, Labels(count)
  PROVE  /\ Drinks!Total(count) = SumFunctionOnSet(Costs(count), DOMAIN count)
         /\ IsFiniteSet(DOMAIN count)
         /\ \A r \in DOMAIN count : Costs(count)[r] = DrinkPrice[r] * count[r] /\ Costs(count)[r] \in Nat
         /\ \A r \in DOMAIN count : count[r] = 0 => Costs(count)[r] = 0
         /\ Drinks!Total(count) \in Nat
<1>1. /\ \A r \in DOMAIN count : DrinkPrice[r] \in Nat \ {0} /\ count[r] \in Nat
      /\ Rows \in Nat
  BY DrinkConstants DEF Labels
<1>2. IsFiniteSet(DOMAIN count)
  <2>1. IsFiniteSet(1 .. Rows)
    BY <1>1, FS_Interval
  <2> QED
    BY <2>1, FS_Subset DEF Labels
<1> DEFINE f == Costs(count)
<1>3. DOMAIN f = DOMAIN count /\ \A r \in DOMAIN count : f[r] = DrinkPrice[r] * count[r]
  BY DEF Costs
<1>4. Drinks!Total(count) = SumFunction(f)
  BY DrinksSum DEF Drinks!Total, Costs
<1> HIDE DEF f
<1>5. \A r \in DOMAIN count : f[r] \in Nat /\ (count[r] = 0 => f[r] = 0)
  BY <1>1, <1>3, Positive
<1>6. SumFunction(f) = SumFunctionOnSet(f, DOMAIN count) /\ SumFunction(f) \in Nat
  BY <1>2, <1>3, <1>5, SumOfFunction DEF SumFunction
<1> QED
  BY <1>2, <1>3, <1>4, <1>5, <1>6 DEF f

\* Cells that leave and come back as "0" make the total no larger.
LEMMA ScrolledTotal ==
  ASSUME NEW a, Labels(a), NEW b, Labels(b),
         \A r \in DOMAIN b : b[r] = IF r \in DOMAIN a THEN a[r] ELSE 0
  PROVE  Drinks!Total(b) <= Drinks!Total(a)
<1> DEFINE C == DOMAIN a \cap DOMAIN b
           f == Costs(a)
           g == Costs(b)
<1>1. /\ Drinks!Total(a) = SumFunctionOnSet(f, DOMAIN a) /\ IsFiniteSet(DOMAIN a)
      /\ \A r \in DOMAIN a : f[r] \in Nat
      /\ Drinks!Total(b) = SumFunctionOnSet(g, DOMAIN b) /\ IsFiniteSet(DOMAIN b)
      /\ \A r \in DOMAIN b : g[r] \in Nat /\ (b[r] = 0 => g[r] = 0)
  BY CostsAre
<1>2. \A r \in C : f[r] = g[r]
  BY DEF Costs
<1> HIDE DEF f, g
<1>3. IsFiniteSet(C) /\ C \subseteq DOMAIN a /\ C \subseteq DOMAIN b
  BY <1>1, FS_Subset
<1>4. \A r \in DOMAIN b \ C : g[r] = 0
  BY <1>1
<1> HIDE DEF C
<1>5. SumFunctionOnSet(g, DOMAIN b) = SumFunctionOnSet(g, C)
  <2>1. \A r \in DOMAIN b : g[r] \in Int
    BY <1>1
  <2> QED
    BY <1>1, <1>3, <1>4, <2>1, SumOfPart
<1>6. SumFunctionOnSet(f, C) <= SumFunctionOnSet(f, DOMAIN a)
  <2>1. (\A r \in DOMAIN a : f[r] \in Int) /\ \A r \in DOMAIN a \ C : f[r] \in Nat
    BY <1>1
  <2> QED
    BY <1>1, <1>3, <2>1, SumOfPart
<1>7. SumFunctionOnSet(f, C) = SumFunctionOnSet(g, C)
  BY <1>2, <1>3, SameSum
<1> QED
  BY <1>1, <1>5, <1>6, <1>7

\* What would be sent costs what the cells add up to.
LEMMA OrderCosts ==
  ASSUME NEW count, Labels(count), drinkScreen \in 1 .. MaxScreens, NEW w, w = Drinks!Wanted(count)
  PROVE  SumFunction([k \in DOMAIN w |-> DrinkPrice[w[k].row] * w[k].units]) = Drinks!Total(count)
<1> DEFINE S == Picked(count)
           o == InOrder(S)
           f == Costs(count)
           g == [k \in DOMAIN w |-> DrinkPrice[w[k].row] * w[k].units]
<1>1. /\ Enumerates(o, S)
      /\ DOMAIN w = DOMAIN o
      /\ w = [k \in DOMAIN o |-> [of |-> "drinks", n |-> drinkScreen, row |-> o[k], units |-> count[o[k]]]]
  <2>1. o = InOrder(Picked(count))
    OBVIOUS
  <2> HIDE DEF o
  <2> QED
    BY <2>1, WantedIs DEF Labels
<1>2. S \subseteq DOMAIN count /\ \A r \in DOMAIN count \ S : count[r] = 0
  BY DEF Picked
<1>3. /\ Drinks!Total(count) = SumFunctionOnSet(f, DOMAIN count) /\ IsFiniteSet(DOMAIN count)
      /\ \A r \in DOMAIN count : f[r] = DrinkPrice[r] * count[r] /\ f[r] \in Nat /\ (count[r] = 0 => f[r] = 0)
  BY CostsAre
<1> HIDE DEF f, S, o
<1>4. \A k \in DOMAIN o : w[k].row = o[k] /\ w[k].units = count[o[k]]
  BY <1>1
<1>5. o \in Seq(S) /\ DOMAIN o = 1 .. Len(o) /\ Len(o) \in Nat /\ IsFiniteSet(DOMAIN o) /\ \A k \in DOMAIN o : o[k] \in S
  <2>1. o \in Seq(S)
    BY <1>1 DEF Enumerates
  <2>2. DOMAIN o = 1 .. Len(o) /\ Len(o) \in Nat
    BY <2>1
  <2>3. IsFiniteSet(DOMAIN o)
    BY <2>2, FS_Interval
  <2> QED
    BY <2>1, <2>2, <2>3
<1>6. \A k, l \in DOMAIN o : o[k] = o[l] => k = l
  <2>1. \A k, l \in DOMAIN o : k < l => o[k] < o[l]
    BY <1>1 DEF Enumerates
  <2>2. \A k \in DOMAIN o : o[k] \in Int
    BY <1>2, <1>5 DEF Labels
  <2>3. \A k, l \in DOMAIN o : k < l \/ l < k \/ k = l
    BY <1>5
  <2> QED
    BY <2>1, <2>2, <2>3
<1>7. DOMAIN g = DOMAIN o /\ \A k \in DOMAIN o : g[k] = f[o[k]] /\ f[o[k]] \in Int
  <2>1. \A k \in DOMAIN o : o[k] \in DOMAIN count
    BY <1>2, <1>5
  <2> QED
    BY <1>1, <1>3, <1>4, <2>1
<1> HIDE DEF g
<1>8. SumFunctionOnSet(g, DOMAIN o) = SumFunctionOnSet(f, {o[k] : k \in DOMAIN o})
  BY SMTT(30), <1>5, <1>6, <1>7, SumRenamed
<1>9. {o[k] : k \in DOMAIN o} = S
  BY <1>1, <1>5 DEF Enumerates
<1>10. SumFunctionOnSet(f, DOMAIN count) = SumFunctionOnSet(f, S)
  <2>1. (\A r \in DOMAIN count : f[r] \in Int) /\ \A r \in DOMAIN count \ S : f[r] = 0
    BY <1>2, <1>3
  <2> QED
    BY <1>2, <1>3, <2>1, SumOfPart
<1>11. SumFunction(g) = SumFunctionOnSet(g, DOMAIN o)
  BY <1>7 DEF SumFunction
<1> QED
  BY <1>3, <1>8, <1>9, <1>10, <1>11 DEF g

-----------------------------------------------------------------------------
(* The invariant *)

ProductSide == OwnTypeOK /\ LabelIsShown /\ ProductsAreNumbered /\ ShownIsCharged
DrinkSide   == Drinks!OwnTypeOK /\ CellsAgree /\ LabelCoversCells /\ ScreensAreNumbered /\ TappedIsOrdered

IndInv ==
  /\ cart \in Seq(Entries) /\ (screen = {} \/ drinkScreen = 0)
  /\ ProductSide /\ DrinkSide

\* The cart keeps what it had, and what is new is not of this kind.
CartKeeps(kind) ==
  /\ cart' \in Seq(Entries) /\ DOMAIN cart \subseteq DOMAIN cart'
  /\ \A i \in DOMAIN cart : cart'[i] = cart[i]
  /\ \A i \in DOMAIN cart' \ DOMAIN cart : cart'[i].of # kind

LEMMA SameCart ==
  ASSUME cart \in Seq(Entries), cart' = cart
  PROVE  CartKeeps("product") /\ CartKeeps("drinks")
  BY DEF CartKeeps

\* Drinks that are added change nothing of the products' side.
LEMMA ProductSideKept ==
  ASSUME ProductSide, CartKeeps("product"), UNCHANGED productVars
  PROVE  ProductSide'
<1>1. UNCHANGED <<screen, unitsInt, green, priceLabel, opened>>
  BY DEF productVars, view
<1>2. OwnTypeOK' /\ LabelIsShown'
  BY <1>1 DEF ProductSide, OwnTypeOK, LabelIsShown, Shown
<1>3. \A i \in DOMAIN cart' : cart'[i].of = "product" => i \in DOMAIN cart /\ cart'[i] = cart[i]
  BY DEF CartKeeps
<1>4. ProductsAreNumbered'
  BY <1>1, <1>3 DEF ProductSide, ProductsAreNumbered
<1>5. ShownIsCharged'
  BY <1>3 DEF ProductSide, ShownIsCharged, Charged
<1> QED
  BY <1>2, <1>4, <1>5 DEF ProductSide

Ordered(s) ==
  {i \in DOMAIN cart : cart[i].of = "drinks" /\ cart[i].n = s /\ cart[i].row \notin sent[s].hidden}

LEMMA TappedIs ==
  TappedIsOrdered <=> \A s \in DOMAIN sent : Entered(cart, Ordered(s)) = sent[s].order
  BY DrinksEntered DEF TappedIsOrdered, Drinks!TappedIsOrdered, Ordered

\* What a screen ordered stays as it is when others add to the cart.
LEMMA OrderedKept ==
  ASSUME cart \in Seq(Entries), DOMAIN cart \subseteq DOMAIN cart', \A i \in DOMAIN cart : cart'[i] = cart[i],
         NEW s, sent'[s] = sent[s], Entered(cart, Ordered(s)) = sent[s].order,
         \A i \in DOMAIN cart' \ DOMAIN cart : cart'[i].of # "drinks" \/ cart'[i].n # s
  PROVE  Entered(cart', Ordered(s)') = sent'[s].order
<1> DEFINE P == Ordered(s)
<1>1. Ordered(s)' = P
  BY DEF Ordered
<1>2. P \subseteq 1 .. Len(cart) /\ Len(cart) \in Nat /\ \A i \in P : cart'[i] = cart[i]
  BY DEF Ordered
<1> HIDE DEF P
<1>3. Entered(cart', P) = Entered(cart, P)
  BY <1>2, EnteredSame
<1> QED
  BY <1>1, <1>3 DEF P

\* Products that are added change nothing of the drinks' side.
LEMMA DrinkSideKept ==
  ASSUME cart \in Seq(Entries), DrinkSide, CartKeeps("drinks"), UNCHANGED drinkVars
  PROVE  DrinkSide'
<1>1. UNCHANGED <<drinkScreen, units, label, net, hidden, scrolled, sent>>
  BY DEF drinkVars
<1>2. Drinks!OwnTypeOK'
  BY <1>1 DEF DrinkSide, Drinks!OwnTypeOK
<1>3. CellsAgree'
  BY <1>1 DEF DrinkSide, CellsAgree, Drinks!CellsAgree, Drinks!visible
<1>4. LabelCoversCells'
  BY <1>1 DEF DrinkSide, LabelCoversCells, Drinks!LabelCoversCells, Drinks!Total
<1>5. \A i \in DOMAIN cart' : cart'[i].of = "drinks" => i \in DOMAIN cart /\ cart'[i] = cart[i]
  BY DEF CartKeeps
<1>6. ScreensAreNumbered'
  BY <1>1, <1>5 DEF DrinkSide, ScreensAreNumbered, Drinks!ScreensAreNumbered
<1>7. ASSUME NEW s \in DOMAIN sent PROVE Entered(cart', Ordered(s)') = sent'[s].order
  <2>1. Entered(cart, Ordered(s)) = sent[s].order
    BY TappedIs DEF DrinkSide
  <2> QED
    BY <1>1, <2>1, OrderedKept DEF CartKeeps
<1>8. TappedIsOrdered'
  <2>1. TappedIsOrdered' <=> \A s \in DOMAIN sent' : Entered(cart', Ordered(s)') = sent'[s].order
    BY DrinksEntered DEF TappedIsOrdered, Drinks!TappedIsOrdered, Ordered
  <2> QED
    BY <1>1, <1>7, <2>1
<1> QED
  BY <1>2, <1>3, <1>4, <1>6, <1>8 DEF DrinkSide

-----------------------------------------------------------------------------
(* The steps of a product screen *)

LEMMA ProductOpens ==
  ASSUME IndInv, NEW t \in Products, Open(t), drinkScreen = 0, UNCHANGED drinkVars
  PROVE  IndInv'
<1>1. /\ screen = {} /\ opened < MaxScreens /\ opened' = opened + 1 /\ cart' = cart
      /\ screen' = {t} /\ unitsInt' = 1 /\ green' = {} /\ priceLabel' = Price[t] /\ drinkScreen' = 0
  BY DEF Open, drinkVars
<1>2. DrinkSide'
  BY <1>1, SameCart, DrinkSideKept DEF IndInv
<1>3. 1 \in 1 .. MaxUnits /\ {} \in SUBSET Additionals /\ opened \in 0 .. MaxScreens /\ MaxScreens \in Nat
  BY DetailsAssumption DEF IndInv, ProductSide, OwnTypeOK
<1>4. Price[t] \in Nat /\ Shown(t, 1, {}) = Price[t]
  BY <1>3, ProductPrices
<1>5. OwnTypeOK' /\ LabelIsShown'
  BY <1>1, <1>3, <1>4 DEF OwnTypeOK, LabelIsShown, Shown
<1>6. ProductsAreNumbered'
  <2>1. ASSUME NEW i \in DOMAIN cart, cart[i].of = "product"
      PROVE  cart[i].n < opened + 1 /\ cart[i].n <= opened + 1
    <3>1. cart[i] \in Entry
      <4>1. cart[i] \in Entries
        BY DEF IndInv
      <4>2. \A d \in Drinks!Item : d.of # "product"
        BY DEF Drinks!Item
      <4> QED
        BY <2>1, <4>1, <4>2 DEF Entries
    <3>2. cart[i].n \in Nat
      BY <1>3, <3>1 DEF Entry
    <3>3. cart[i].n <= opened
      BY <2>1 DEF IndInv, ProductSide, ProductsAreNumbered
    <3> QED
      BY <1>3, <3>2, <3>3
  <2> QED
    BY <1>1, <1>3, <2>1 DEF ProductsAreNumbered
<1>7. ShownIsCharged'
  BY <1>1 DEF IndInv, ProductSide, ShownIsCharged, Charged
<1> QED
  BY <1>1, <1>2, <1>5, <1>6, <1>7 DEF IndInv, ProductSide

LEMMA ProductRelabels ==
  ASSUME IndInv, NEW t \in screen, NEW u \in 1 .. MaxUnits, NEW adds \in SUBSET Additionals,
         Relabel(t, u, adds), UNCHANGED drinkVars
  PROVE  IndInv'
<1>1. /\ unitsInt' = u /\ green' = adds /\ priceLabel' = Shown(t, u, adds)
      /\ UNCHANGED <<cart, screen, opened>> /\ drinkScreen' = drinkScreen
  BY DEF Relabel, drinkVars
<1>2. DrinkSide'
  BY <1>1, SameCart, DrinkSideKept DEF IndInv
<1>3. t \in Products /\ \A x \in screen : x = t
  BY DEF IndInv, ProductSide, OwnTypeOK
<1>4. Shown(t, u, adds) \in Nat
  BY <1>3, ProductPrices
<1>5. OwnTypeOK'
  BY <1>1, <1>4 DEF IndInv, ProductSide, OwnTypeOK
<1>6. LabelIsShown'
  BY <1>1, <1>3 DEF LabelIsShown, Shown
<1>7. ProductsAreNumbered' /\ ShownIsCharged'
  BY <1>1 DEF IndInv, ProductSide, ProductsAreNumbered, ShownIsCharged, Charged
<1> QED
  BY <1>1, <1>2, <1>5, <1>6, <1>7 DEF IndInv, ProductSide

LEMMA ProductCloses ==
  ASSUME IndInv, NEW t \in Products, CloseView(t), UNCHANGED drinkVars
  PROVE  IndInv'
<1>1. screen' = {} /\ UNCHANGED <<cart, unitsInt, green, priceLabel, opened>>
  BY DEF CloseView
<1>2. DrinkSide'
  BY <1>1, SameCart, DrinkSideKept DEF IndInv
<1>3. OwnTypeOK' /\ LabelIsShown'
  BY <1>1 DEF IndInv, ProductSide, OwnTypeOK, LabelIsShown
<1>4. ProductsAreNumbered' /\ ShownIsCharged'
  BY <1>1 DEF IndInv, ProductSide, ProductsAreNumbered, ShownIsCharged, Charged
<1> QED
  BY <1>1, <1>2, <1>3, <1>4 DEF IndInv, ProductSide

\* The entry that "Adicionar ao carrinho" makes.
NewEntry(t) ==
  [of |-> "product", n |-> opened, title |-> t, adds |-> green, units |-> unitsInt,
   price |-> GetPrice(t, green), shown |-> priceLabel]

LEMMA NewEntryIs ==
  ASSUME IndInv, NEW t \in screen
  PROVE  /\ NewEntry(t) \in Entry /\ NewEntry(t).of = "product" /\ NewEntry(t).n = opened
         /\ NewEntry(t).shown = Charged(NewEntry(t))
         /\ NewEntry(t).price * NewEntry(t).units = NewEntry(t).shown
<1> DEFINE e == NewEntry(t)
<1>1. t \in Products /\ green \in SUBSET Additionals /\ unitsInt \in 1 .. MaxUnits
      /\ opened \in 0 .. MaxScreens /\ MaxScreens \in Nat
  BY DetailsAssumption DEF IndInv, ProductSide, OwnTypeOK
<1>2. opened \in 1 .. MaxScreens
  BY <1>1 DEF IndInv, ProductSide, ProductsAreNumbered
<1>3. priceLabel = Shown(t, unitsInt, green)
  BY DEF IndInv, ProductSide, LabelIsShown
<1>4. /\ Shown(t, unitsInt, green) \in Nat /\ GetPrice(t, green) \in Nat
      /\ GetPrice(t, green) * unitsInt = Shown(t, unitsInt, green)
      /\ GetPrice(t, green) = Price[t] + Sum(green)
  BY <1>1, ProductPrices
<1>5. /\ e \in Entry /\ e.of = "product" /\ e.n = opened /\ e.title = t /\ e.adds = green /\ e.units = unitsInt
      /\ e.price = GetPrice(t, green) /\ e.shown = priceLabel
  BY <1>1, <1>2, <1>3, <1>4 DEF Entry, NewEntry
<1> HIDE DEF e
<1>6. Charged(e) = GetPrice(t, green) * unitsInt
  BY <1>4, <1>5 DEF Charged
<1> QED
  BY <1>3, <1>4, <1>5, <1>6 DEF e

LEMMA ProductAdds ==
  ASSUME IndInv, NEW t \in Products, AddMarketPlace(t), UNCHANGED drinkVars
  PROVE  IndInv'
<1> DEFINE e == NewEntry(t)
<1>1. t \in screen /\ screen' = {} /\ cart' = Append(cart, e) /\ UNCHANGED <<unitsInt, green, priceLabel, opened>>
  BY DEF AddMarketPlace, NewEntry
<1>2. /\ e \in Entry /\ e.of = "product" /\ e.n = opened /\ e.shown = Charged(e) /\ e.price * e.units = e.shown
  BY <1>1, NewEntryIs
<1> HIDE DEF e
<1>3. cart \in Seq(Entries) /\ e \in Entries
  BY <1>2 DEF IndInv, Entries
<1>4. /\ cart' \in Seq(Entries) /\ DOMAIN cart \subseteq DOMAIN cart' /\ \A i \in DOMAIN cart : cart'[i] = cart[i]
      /\ \A i \in DOMAIN cart' \ DOMAIN cart : cart'[i] = e
  BY <1>1, <1>3
<1>5. CartKeeps("drinks")
  BY <1>2, <1>4 DEF CartKeeps
<1>6. DrinkSide'
  BY <1>3, <1>5, DrinkSideKept DEF IndInv
<1>7. OwnTypeOK' /\ LabelIsShown'
  BY <1>1 DEF IndInv, ProductSide, OwnTypeOK, LabelIsShown
<1>8. ProductsAreNumbered'
  <2>1. opened \in Int
    BY DEF IndInv, ProductSide, OwnTypeOK
  <2>2. \A i \in DOMAIN cart' : cart'[i].of = "product" => cart'[i].n <= opened
    BY <1>2, <1>4, <2>1 DEF IndInv, ProductSide, ProductsAreNumbered
  <2> QED
    BY <1>1, <2>2 DEF ProductsAreNumbered
<1>9. ShownIsCharged'
  <2>1. \A i \in DOMAIN cart' : cart'[i].of = "product" =>
          cart'[i].shown = Charged(cart'[i]) /\ cart'[i].price * cart'[i].units = cart'[i].shown
    BY <1>2, <1>4 DEF IndInv, ProductSide, ShownIsCharged
  <2> QED
    BY <2>1 DEF ShownIsCharged, Charged
<1> QED
  BY <1>1, <1>4, <1>6, <1>7, <1>8, <1>9 DEF IndInv, ProductSide

-----------------------------------------------------------------------------
(* The steps of a drink screen *)

\* The cells of the window, and what they may say.
LEMMA CellsAre ==
  ASSUME DrinkSide
  PROVE  /\ \E first \in 1 .. Rows - Window + 1 : units \in [first .. first + Window - 1 -> 0 .. MaxUnits]
         /\ DOMAIN units \subseteq 1 .. Rows /\ Labels(units)
         /\ \A r \in 1 .. Rows : net[r] \in 0 .. MaxUnits
         /\ drinkScreen \in {0, Len(sent) + 1} /\ Len(sent) \in Nat /\ DOMAIN sent = 1 .. Len(sent)
         /\ drinkScreen # 0 => drinkScreen \in 1 .. MaxScreens
<1>1. PICK first \in 1 .. Rows - Window + 1 : units \in [first .. first + Window - 1 -> 0 .. MaxUnits]
  BY DEF DrinkSide, Drinks!OwnTypeOK, Drinks!At
<1>2. Rows \in Nat /\ Window \in 1 .. Rows
  BY DrinkConstants
<1>3. DOMAIN units \subseteq 1 .. Rows /\ \A r \in DOMAIN units : units[r] \in 0 .. MaxUnits
  BY <1>1, <1>2
<1>4. net \in [1 .. Rows -> 0 .. MaxUnits] /\ Len(sent) \in Nat /\ DOMAIN sent = 1 .. Len(sent)
      /\ drinkScreen \in 0 .. MaxScreens /\ drinkScreen \in {0, Len(sent) + 1}
  BY DEF DrinkSide, Drinks!OwnTypeOK, ScreensAreNumbered, Drinks!ScreensAreNumbered
<1> QED
  BY SMTT(30), <1>1, <1>3, <1>4, DrinkConstants DEF Labels

\* A tap, a scroll and a new screen leave the cart and the orders alone.
LEMMA CellsChange ==
  ASSUME IndInv, UNCHANGED productVars, cart' = cart, sent' = sent,
         Drinks!OwnTypeOK', CellsAgree', LabelCoversCells',
         drinkScreen' \in {0, Len(sent) + 1}, drinkScreen' # 0 => Len(sent) < MaxScreens,
         screen = {} \/ drinkScreen' = 0
  PROVE  IndInv'
<1>1. ProductSide'
  BY SameCart, ProductSideKept DEF IndInv
<1>2. screen' = screen
  BY DEF productVars, view
<1>3. ScreensAreNumbered'
  BY DEF IndInv, DrinkSide, ScreensAreNumbered, Drinks!ScreensAreNumbered
<1>4. TappedIsOrdered'
  <2>1. cart' = cart /\ sent' = sent /\ TappedIsOrdered
    BY DEF IndInv, DrinkSide
  <2> QED
    BY <2>1 DEF TappedIsOrdered, Drinks!TappedIsOrdered
<1> QED
  BY <1>1, <1>2, <1>3, <1>4 DEF IndInv, DrinkSide

LEMMA DrinksPresent ==
  ASSUME IndInv, screen = {}, Drinks!Present, UNCHANGED productVars
  PROVE  IndInv'
<1>1. /\ drinkScreen = 0 /\ Len(sent) < MaxScreens /\ drinkScreen' = Len(sent) + 1
      /\ units' = [r \in 1 .. 1 + Window - 1 |-> 0] /\ label' = Drinks!Total(units')
      /\ net' = [r \in 1 .. Rows |-> 0] /\ hidden' = {} /\ ~scrolled' /\ scrolled' \in BOOLEAN
      /\ cart' = cart /\ sent' = sent
  BY DEF Drinks!Present, Drinks!Fresh, Drinks!At
<1>2. Rows \in Nat /\ Window \in 1 .. Rows /\ MaxUnits \in Nat /\ MaxScreens \in Nat /\ Len(sent) \in Nat
  BY DrinkConstants, CellsAre DEF IndInv
<1>3. 1 \in 1 .. Rows - Window + 1 /\ 1 .. 1 + Window - 1 = 1 .. Window
  BY <1>2
<1>4. units' \in [1 .. 1 + Window - 1 -> 0 .. MaxUnits] /\ DOMAIN units' \subseteq 1 .. Rows /\ DOMAIN units' = 1 .. Window
      /\ \A r \in DOMAIN units' : units'[r] = 0
  BY <1>1, <1>2, <1>3
<1>5. Labels(units')
  BY <1>2, <1>4 DEF Labels
<1>6. Drinks!Total(units') \in Nat
  BY <1>5, CostsAre
<1>7. net' \in [1 .. Rows -> 0 .. MaxUnits] /\ Len(sent) + 1 \in 0 .. MaxScreens
  BY <1>1, <1>2
<1>8. Drinks!OwnTypeOK'
  <2>1. \E first \in 1 .. Rows - Window + 1 : units' \in [first .. first + Window - 1 -> 0 .. MaxUnits]
    BY <1>3, <1>4
  <2> QED
    BY <1>1, <1>6, <1>7, <2>1 DEF IndInv, DrinkSide, Drinks!OwnTypeOK, Drinks!At
<1>9. CellsAgree'
  BY <1>1, <1>4 DEF CellsAgree, Drinks!CellsAgree, Drinks!visible
<1>10. LabelCoversCells'
  <2>1. Drinks!Total(units)' = Drinks!Total(units')
    BY DEF Drinks!Total
  <2> QED
    BY <1>1, <1>6, <2>1 DEF LabelCoversCells, Drinks!LabelCoversCells
<1> QED
  BY <1>1, <1>8, <1>9, <1>10, CellsChange

LEMMA DrinksPress ==
  ASSUME IndInv, NEW r \in 1 .. Rows, NEW d \in {1, -1}, drinkScreen # 0, r \in DOMAIN units,
         units[r] + d \in 0 .. MaxUnits, net[r] + d \in 0 .. MaxUnits,
         Drinks!Press(r, d), UNCHANGED productVars
  PROVE  IndInv'
<1>1. /\ units' = [units EXCEPT ![r] = units[r] + d] /\ label' = Drinks!Total(units')
      /\ net' = [net EXCEPT ![r] = net[r] + d] /\ ~scrolled' /\ scrolled' \in BOOLEAN
      /\ cart' = cart /\ drinkScreen' = drinkScreen /\ hidden' = hidden /\ sent' = sent
  BY DEF Drinks!Press
<1>2. PICK first \in 1 .. Rows - Window + 1 : units \in [first .. first + Window - 1 -> 0 .. MaxUnits]
  BY CellsAre DEF IndInv
<1>3. /\ DOMAIN units \subseteq 1 .. Rows /\ Len(sent) \in Nat /\ drinkScreen \in {0, Len(sent) + 1}
      /\ \A s \in DOMAIN units : units[s] \in 0 .. MaxUnits
      /\ net \in [1 .. Rows -> 0 .. MaxUnits]
  BY CellsAre DEF IndInv, DrinkSide, Drinks!OwnTypeOK, Labels
<1>4. /\ units' \in [first .. first + Window - 1 -> 0 .. MaxUnits]
      /\ DOMAIN units' = DOMAIN units /\ \A s \in DOMAIN units : units'[s] = IF s = r THEN units[r] + d ELSE units[s]
  BY <1>1, <1>2
<1>5. /\ net' \in [1 .. Rows -> 0 .. MaxUnits]
      /\ \A s \in 1 .. Rows : net'[s] = IF s = r THEN net[r] + d ELSE net[s]
  BY <1>1, <1>3
<1>6. Labels(units')
  BY <1>3, <1>4 DEF Labels
<1>7. Drinks!Total(units') \in Nat
  BY <1>6, CostsAre
<1>8. Drinks!OwnTypeOK'
  <2>1. \E f \in 1 .. Rows - Window + 1 : units' \in [f .. f + Window - 1 -> 0 .. MaxUnits]
    BY <1>4
  <2> QED
    BY <1>1, <1>5, <1>7, <2>1 DEF IndInv, DrinkSide, Drinks!OwnTypeOK, Drinks!At
<1>9. CellsAgree'
  <2>1. \A s \in 1 .. Rows : /\ s \in DOMAIN units => units[s] <= net[s]
                             /\ s \notin hidden => net[s] = IF s \in DOMAIN units THEN units[s] ELSE 0
    BY DEF IndInv, DrinkSide, CellsAgree, Drinks!CellsAgree, Drinks!visible
  <2>2. ASSUME NEW s \in 1 .. Rows
        PROVE  /\ s \in DOMAIN units' => units'[s] <= net'[s]
               /\ s \notin hidden => net'[s] = IF s \in DOMAIN units' THEN units'[s] ELSE 0
    <3>1. CASE s = r
      BY <1>3, <1>4, <1>5, <2>1, <3>1
    <3>2. CASE s # r
      BY <1>4, <1>5, <2>1, <3>2
    <3> QED
      BY <3>1, <3>2
  <2> QED
    BY <1>1, <2>2 DEF CellsAgree, Drinks!CellsAgree, Drinks!visible
<1>10. LabelCoversCells'
  <2>1. Drinks!Total(units)' = Drinks!Total(units')
    BY DEF Drinks!Total
  <2> QED
    BY <1>1, <1>7, <2>1 DEF LabelCoversCells, Drinks!LabelCoversCells
<1>11. drinkScreen # 0 => Len(sent) < MaxScreens
  BY DEF IndInv, DrinkSide, ScreensAreNumbered, Drinks!ScreensAreNumbered
<1>12. screen = {} \/ drinkScreen' = 0
  BY <1>1 DEF IndInv
<1> QED
  BY <1>1, <1>3, <1>8, <1>9, <1>10, <1>11, <1>12, CellsChange

\* A row with cells has as many taps as the cell says, so a tap on - that the
\* cell allows is one the count allows.
LEMMA DrinksButtons ==
  ASSUME IndInv, NEW r \in 1 .. Rows, Drinks!AddButton(r) \/ Drinks!SubButton(r), UNCHANGED productVars
  PROVE  IndInv'
<1>1. /\ Labels(units) /\ MaxUnits \in Nat /\ net[r] \in 0 .. MaxUnits
      /\ r \in DOMAIN units => units[r] \in 0 .. MaxUnits /\ units[r] <= net[r]
  BY CellsAre, DrinkConstants DEF IndInv, DrinkSide, CellsAgree, Drinks!CellsAgree, Drinks!visible, Labels
<1>2. CASE Drinks!AddButton(r)
  <2>1. r \in DOMAIN units /\ units[r] < MaxUnits /\ net[r] < MaxUnits /\ drinkScreen # 0 /\ Drinks!Press(r, 1)
    BY <1>2 DEF Drinks!AddButton, Drinks!visible
  <2>2. units[r] + 1 \in 0 .. MaxUnits /\ net[r] + 1 \in 0 .. MaxUnits
    BY <1>1, <2>1
  <2> QED
    BY <2>1, <2>2, DrinksPress
<1>3. CASE Drinks!SubButton(r)
  <2>1. r \in DOMAIN units /\ units[r] > 0 /\ drinkScreen # 0 /\ Drinks!Press(r, -1)
    BY <1>3 DEF Drinks!SubButton, Drinks!visible
  <2>2. units[r] + (-1) \in 0 .. MaxUnits /\ net[r] + (-1) \in 0 .. MaxUnits
    BY <1>1, <2>1
  <2> QED
    BY <2>1, <2>2, DrinksPress
<1> QED
  BY <1>2, <1>3

LEMMA DrinksScroll ==
  ASSUME IndInv, NEW first \in 1 .. Rows - Window + 1, Drinks!Scroll(first), UNCHANGED productVars
  PROVE  IndInv'
<1> DEFINE W == first .. first + Window - 1
<1>1. /\ drinkScreen # 0 /\ units' = [r \in W |-> IF r \in DOMAIN units THEN units[r] ELSE 0]
      /\ hidden' = hidden \cup {r \in DOMAIN units \ W : net[r] > 0} /\ scrolled' /\ scrolled' \in BOOLEAN
      /\ cart' = cart /\ drinkScreen' = drinkScreen /\ label' = label /\ net' = net /\ sent' = sent
  BY DEF Drinks!Scroll, Drinks!At, Drinks!visible
<1>2. /\ Rows \in Nat /\ Window \in 1 .. Rows /\ MaxUnits \in Nat
      /\ DOMAIN units \subseteq 1 .. Rows /\ Labels(units) /\ (\A r \in DOMAIN units : units[r] \in 0 .. MaxUnits)
      /\ drinkScreen \in {0, Len(sent) + 1} /\ \A r \in 1 .. Rows : net[r] \in 0 .. MaxUnits
  BY CellsAre, DrinkConstants DEF IndInv, Labels
<1>3. W \subseteq 1 .. Rows
  BY <1>2
<1>4. /\ DOMAIN units' = W /\ units' \in [W -> 0 .. MaxUnits]
      /\ \A r \in W : units'[r] = IF r \in DOMAIN units THEN units[r] ELSE 0
  <2>1. 0 \in 0 .. MaxUnits
    BY <1>2
  <2> HIDE DEF W
  <2> QED
    BY <1>1, <1>2, <2>1
<1>5. Labels(units')
  BY <1>3, <1>4 DEF Labels
<1>6. Drinks!OwnTypeOK'
  <2>1. \E f \in 1 .. Rows - Window + 1 : units' \in [f .. f + Window - 1 -> 0 .. MaxUnits]
    BY <1>4
  <2>2. hidden' \subseteq 1 .. Rows
    BY <1>1, <1>2 DEF IndInv, DrinkSide, Drinks!OwnTypeOK
  <2> QED
    BY <1>1, <2>1, <2>2 DEF IndInv, DrinkSide, Drinks!OwnTypeOK, Drinks!At
<1> HIDE DEF W
<1>7. CellsAgree'
  <2>1. \A s \in 1 .. Rows : /\ s \in DOMAIN units => units[s] <= net[s]
                             /\ s \notin hidden => net[s] = IF s \in DOMAIN units THEN units[s] ELSE 0
    BY DEF IndInv, DrinkSide, CellsAgree, Drinks!CellsAgree, Drinks!visible
  <2>2. ASSUME NEW s \in 1 .. Rows
        PROVE  /\ s \in W => units'[s] <= net[s]
               /\ s \notin hidden' => net[s] = IF s \in W THEN units'[s] ELSE 0
    <3>1. s \in W => units'[s] <= net[s]
      BY <1>2, <1>4, <2>1
    <3>2. ASSUME s \notin hidden' PROVE net[s] = IF s \in W THEN units'[s] ELSE 0
      <4>1. s \notin hidden /\ ~ (s \in DOMAIN units /\ s \notin W /\ net[s] > 0)
        BY <1>1, <3>2
      <4> QED
        BY <1>2, <1>4, <2>1, <4>1
    <3> QED
      BY <3>1, <3>2
  <2> QED
    BY <1>1, <1>4, <2>2 DEF CellsAgree, Drinks!CellsAgree, Drinks!visible
<1>8. LabelCoversCells'
  <2>1. Drinks!Total(units') <= Drinks!Total(units)
    BY <1>2, <1>4, <1>5, ScrolledTotal
  <2>2. Drinks!Total(units) \in Nat /\ Drinks!Total(units') \in Nat
    BY <1>2, <1>5, CostsAre
  <2>3. Drinks!Total(units) <= label /\ label \in Nat
    BY <1>1 DEF IndInv, DrinkSide, LabelCoversCells, Drinks!LabelCoversCells, Drinks!OwnTypeOK
  <2>4. Drinks!Total(units)' = Drinks!Total(units')
    BY DEF Drinks!Total
  <2> QED
    BY <1>1, <2>1, <2>2, <2>3, <2>4 DEF LabelCoversCells, Drinks!LabelCoversCells
<1>9. drinkScreen # 0 => Len(sent) < MaxScreens
  BY DEF IndInv, DrinkSide, ScreensAreNumbered, Drinks!ScreensAreNumbered
<1>10. screen = {} \/ drinkScreen' = 0
  BY <1>1 DEF IndInv
<1> QED
  BY <1>1, <1>2, <1>6, <1>7, <1>8, <1>9, <1>10, CellsChange

\* A screen that is left adds its own order, under its own number, or nothing.
LEMMA DrinksClose ==
  ASSUME IndInv, NEW screenOf, screenOf = drinkScreen, drinkScreen # 0,
         NEW order \in Seq(Drinks!Item), Drinks!Close(order), UNCHANGED productVars,
         CartKeeps("product"), \A i \in DOMAIN cart' \ DOMAIN cart : cart'[i].n = screenOf,
         Entered(cart', Ordered(screenOf)') = order
  PROVE  IndInv'
<1>1. /\ drinkScreen' = 0 /\ sent' = Append(sent, [order |-> order, hidden |-> hidden])
      /\ UNCHANGED <<units, label, net, hidden, scrolled>>
  BY DEF Drinks!Close
<1>2. /\ drinkScreen = Len(sent) + 1 /\ Len(sent) \in Nat /\ DOMAIN sent = 1 .. Len(sent)
      /\ drinkScreen \in 1 .. MaxScreens /\ Len(sent) + 1 <= MaxScreens
  BY CellsAre DEF IndInv
<1>3. ProductSide'
  BY ProductSideKept DEF IndInv
<1>4. hidden \in SUBSET (1 .. Rows) /\ sent \in Seq([order : Seq(Drinks!Item), hidden : SUBSET (1 .. Rows)])
  BY DEF IndInv, DrinkSide, Drinks!OwnTypeOK
<1>5. [order |-> order, hidden |-> hidden] \in [order : Seq(Drinks!Item), hidden : SUBSET (1 .. Rows)]
  BY <1>4
<1>6. /\ sent' \in Seq([order : Seq(Drinks!Item), hidden : SUBSET (1 .. Rows)]) /\ Len(sent') = Len(sent) + 1
      /\ DOMAIN sent' = 1 .. Len(sent) + 1 /\ (\A s \in DOMAIN sent : sent'[s] = sent[s])
      /\ sent'[Len(sent) + 1].order = order /\ sent'[Len(sent) + 1].hidden = hidden
  BY <1>1, <1>2, <1>4, <1>5
<1>7. Drinks!OwnTypeOK'
  <2>1. 0 \in 0 .. MaxScreens
    BY DrinkConstants
  <2> QED
    BY <1>1, <1>2, <1>6, <2>1 DEF IndInv, DrinkSide, Drinks!OwnTypeOK
<1>8. CellsAgree' /\ LabelCoversCells'
  BY <1>1 DEF IndInv, DrinkSide, CellsAgree, Drinks!CellsAgree, Drinks!visible, LabelCoversCells, Drinks!LabelCoversCells
<1>9. ScreensAreNumbered'
  <2>1. \A i \in DOMAIN cart' : cart'[i].of = "drinks" => cart'[i].n \in DOMAIN sent'
    <3>1. \A i \in DOMAIN cart : cart[i].of = "drinks" => cart[i].n \in DOMAIN sent
      BY DEF IndInv, DrinkSide, ScreensAreNumbered, Drinks!ScreensAreNumbered
    <3> QED
      BY SMTT(30), <1>2, <1>6, <3>1 DEF CartKeeps
  <2> QED
    BY <1>1, <2>1 DEF ScreensAreNumbered, Drinks!ScreensAreNumbered
<1>10. ASSUME NEW s \in DOMAIN sent' PROVE Entered(cart', Ordered(s)') = sent'[s].order
  <2>1. CASE s = screenOf
    BY <1>2, <1>6, <2>1
  <2>2. CASE s # screenOf
    <3>1. s \in DOMAIN sent
      BY <1>2, <1>6, <2>2
    <3>2. sent'[s] = sent[s] /\ Entered(cart, Ordered(s)) = sent[s].order
      BY <1>6, <3>1, TappedIs DEF IndInv, DrinkSide
    <3> QED
      BY <2>2, <3>2, OrderedKept DEF CartKeeps, IndInv
  <2> QED
    BY <2>1, <2>2
<1>11. TappedIsOrdered'
  <2>1. TappedIsOrdered' <=> \A s \in DOMAIN sent' : Entered(cart', Ordered(s)') = sent'[s].order
    BY DrinksEntered DEF TappedIsOrdered, Drinks!TappedIsOrdered, Ordered
  <2> QED
    BY <1>10, <2>1
<1> QED
  BY <1>1, <1>3, <1>7, <1>8, <1>9, <1>11 DEF IndInv, DrinkSide, CartKeeps

\* No drink in the cart has the number of the screen on top.
LEMMA NumberIsNew ==
  ASSUME IndInv, drinkScreen # 0
  PROVE  \A i \in DOMAIN cart : cart[i].of = "drinks" => cart[i].n # drinkScreen
<1>1. drinkScreen = Len(sent) + 1 /\ Len(sent) \in Nat /\ DOMAIN sent = 1 .. Len(sent)
  BY CellsAre DEF IndInv
<1>2. \A i \in DOMAIN cart : cart[i].of = "drinks" => cart[i].n \in 1 .. Len(sent)
  BY <1>1 DEF IndInv, DrinkSide, ScreensAreNumbered, Drinks!ScreensAreNumbered
<1> QED
  BY <1>1, <1>2

LEMMA DrinksDismiss ==
  ASSUME IndInv, Drinks!Dismiss, UNCHANGED productVars
  PROVE  IndInv'
<1>1. drinkScreen # 0 /\ cart' = cart /\ Drinks!Close(<<>>) /\ cart \in Seq(Entries)
  BY DEF Drinks!Dismiss, IndInv
<1>2. CartKeeps("product") /\ DOMAIN cart' = DOMAIN cart
  BY <1>1, SameCart
<1>3. PICK s : s = drinkScreen
  OBVIOUS
<1>6. Ordered(s)' = {}
  <2>1. \A i \in DOMAIN cart' : ~ (cart'[i].of = "drinks" /\ cart'[i].n = s)
    BY <1>1, <1>3, NumberIsNew
  <2> QED
    BY <2>1 DEF Ordered
<1>4. Entered(cart', {}) = <<>>
  <2> DEFINE at == InOrder({})
  <2>1. Enumerates(at, {})
    <3>1. {} \subseteq 1 .. 0 /\ 0 \in Nat
      OBVIOUS
    <3> QED
      BY <3>1, InOrderEnumerates
  <2> HIDE DEF at
  <2>2. DOMAIN at = {} /\ at \in Seq({})
    BY <2>1 DEF Enumerates
  <2>3. [k \in DOMAIN at |-> cart'[at[k]]] = <<>>
    BY <2>2
  <2> QED
    BY <2>3 DEF Entered, at
<1>5. <<>> \in Seq(Drinks!Item)
  OBVIOUS
<1> QED
  BY <1>1, <1>2, <1>3, <1>4, <1>5, <1>6, DrinksClose

\* "Adicionar ao carrinho": of the rows that never lost their cell, what the
\* cells say is what was tapped.
LEMMA SendOrders ==
  ASSUME IndInv, NEW s, s = drinkScreen, drinkScreen # 0, cart' = cart \o Drinks!Wanted(units), Drinks!Close(Drinks!Tapped)
  PROVE  Entered(cart', Ordered(s)') = Drinks!Tapped /\ Drinks!Tapped \in Seq(Drinks!Item)
<1> DEFINE n == Len(cart)
           w == Drinks!Wanted(units)
           S == Picked(units)
           o == InOrder(S)
           count == [r \in (1 .. Rows) \ hidden |-> net[r]]
           Q == Picked(count)
           q == InOrder(Q)
           P == {n + k : k \in {l \in DOMAIN o : o[l] \in Q}}
           at == InOrder(P)
<1>1. /\ Labels(units) /\ (\A r \in 1 .. Rows : net[r] \in 0 .. MaxUnits) /\ s \in 1 .. MaxScreens
      /\ s = Len(sent) + 1 /\ Len(sent) \in Nat /\ Rows \in Nat
  BY CellsAre, DrinkConstants DEF IndInv
<1>2. \A r \in 1 .. Rows : r \notin hidden => net[r] = IF r \in DOMAIN units THEN units[r] ELSE 0
  BY DEF IndInv, DrinkSide, CellsAgree, Drinks!CellsAgree, Drinks!visible
<1>3. Q \subseteq S /\ \A r \in S : r \in Q <=> r \notin hidden
  BY <1>1, <1>2 DEF Picked, Labels
<1>4. \A r \in Q : count[r] = units[r]
  BY <1>1, <1>2, <1>3 DEF Picked, Labels
<1>5. /\ Enumerates(o, S) /\ S \subseteq 1 .. Rows
      /\ w \in Seq(Drinks!Item) /\ DOMAIN w = DOMAIN o /\ Len(w) = Len(o)
      /\ w = [k \in DOMAIN o |-> [of |-> "drinks", n |-> s, row |-> o[k], units |-> units[o[k]]]]
  <2>1. o = InOrder(Picked(units)) /\ w = Drinks!Wanted(units)
    OBVIOUS
  <2> HIDE DEF o, w
  <2> QED
    BY <1>1, <2>1, WantedIs DEF Labels
<1>6. /\ Enumerates(q, Q)
      /\ Drinks!Tapped \in Seq(Drinks!Item)
      /\ Drinks!Tapped = [k \in DOMAIN q |-> [of |-> "drinks", n |-> s, row |-> q[k], units |-> count[q[k]]]]
  <2>1. /\ DOMAIN count \subseteq 1 .. Rows /\ (\A r \in DOMAIN count : count[r] \in 0 .. MaxUnits)
        /\ Drinks!Tapped = Drinks!Wanted(count)
    BY <1>1 DEF Drinks!Tapped
  <2>2. q = InOrder(Picked(count))
    OBVIOUS
  <2> HIDE DEF count, q
  <2> QED
    BY <1>1, <2>1, <2>2, WantedIs
<1>7. \A l \in DOMAIN w : w[l] = [of |-> "drinks", n |-> s, row |-> o[l], units |-> units[o[l]]]
                          /\ o[l] \in S
  BY <1>5 DEF Enumerates
<1> HIDE DEF w, o, S, count, Q, q
<1>8. /\ n \in Nat /\ DOMAIN cart = 1 .. n /\ DOMAIN cart' = 1 .. n + Len(o)
      /\ \A i \in 1 .. n : cart'[i] = cart[i]
      /\ \A l \in DOMAIN o : n + l \in DOMAIN cart' /\ cart'[n + l] = w[l]
      /\ \A i \in DOMAIN cart' : i \notin 1 .. n => i - n \in DOMAIN o /\ i = n + (i - n)
  <2>1. cart \in Seq(Entries) /\ cart' = cart \o w /\ w \in Seq(Drinks!Item) /\ Len(o) \in Nat
        /\ DOMAIN o = 1 .. Len(o)
    <3>1. o \in Seq(S)
      BY <1>5 DEF Enumerates
    <3> QED
      BY <1>5, <3>1 DEF IndInv, w
  <2> QED
    BY <1>5, <2>1
<1> HIDE DEF n
<1>9. sent'[s].hidden = hidden
  <2>1. sent \in Seq([order : Seq(Drinks!Item), hidden : SUBSET (1 .. Rows)])
        /\ sent' = Append(sent, [order |-> Drinks!Tapped, hidden |-> hidden])
    BY DEF IndInv, DrinkSide, Drinks!OwnTypeOK, Drinks!Close
  <2> QED
    BY <1>1, <2>1
<1>10. Ordered(s)' = P
  <2>1. Ordered(s)' = {i \in DOMAIN cart' : cart'[i].of = "drinks" /\ cart'[i].n = s /\ cart'[i].row \notin hidden}
    BY <1>9 DEF Ordered
  <2>2. \A i \in 1 .. n : ~ (cart'[i].of = "drinks" /\ cart'[i].n = s)
    BY <1>8, NumberIsNew
  <2>3. \A l \in DOMAIN o : /\ cart'[n + l].of = "drinks" /\ cart'[n + l].n = s
                            /\ cart'[n + l].row \notin hidden <=> o[l] \in Q
    <3> SUFFICES ASSUME NEW l \in DOMAIN o
                 PROVE  /\ cart'[n + l].of = "drinks" /\ cart'[n + l].n = s
                        /\ cart'[n + l].row \notin hidden <=> o[l] \in Q
      OBVIOUS
    <3>1. cart'[n + l] = [of |-> "drinks", n |-> s, row |-> o[l], units |-> units[o[l]]] /\ o[l] \in S
      BY <1>5, <1>7, <1>8
    <3>2. cart'[n + l].of = "drinks" /\ cart'[n + l].n = s /\ cart'[n + l].row = o[l]
      BY <3>1
    <3> QED
      BY <1>3, <3>1, <3>2
  <2>4. \A i \in DOMAIN cart' :
          (cart'[i].of = "drinks" /\ cart'[i].n = s /\ cart'[i].row \notin hidden)
          <=> i - n \in DOMAIN o /\ i = n + (i - n) /\ o[i - n] \in Q
    <3> SUFFICES ASSUME NEW i \in DOMAIN cart'
                 PROVE  (cart'[i].of = "drinks" /\ cart'[i].n = s /\ cart'[i].row \notin hidden)
                        <=> i - n \in DOMAIN o /\ i = n + (i - n) /\ o[i - n] \in Q
      OBVIOUS
    <3>1. CASE i \in 1 .. n
      <4>1. i - n \notin DOMAIN o
        <5>1. o \in Seq(S)
          BY <1>5 DEF Enumerates
        <5>2. DOMAIN o = 1 .. Len(o)
          BY <5>1
        <5> QED
          BY <1>8, <3>1, <5>2
      <4> QED
        BY <2>2, <3>1, <4>1
    <3>2. CASE i \notin 1 .. n
      <4>1. i - n \in DOMAIN o /\ i = n + (i - n)
        BY <1>8, <3>2
      <4>2. PICK l \in DOMAIN o : l = i - n /\ i = n + l
        BY <4>1
      <4>3. cart'[i].of = "drinks" /\ cart'[i].n = s /\ (cart'[i].row \notin hidden <=> o[l] \in Q)
        BY <2>3, <4>2
      <4> QED
        BY <4>1, <4>2, <4>3
    <3> QED
      BY <3>1, <3>2
  <2> QED
    BY SMTT(30), <1>8, <2>1, <2>4
<1> HIDE DEF P, at
<1>11. /\ \A k \in DOMAIN at : at[k] - n \in DOMAIN o /\ at[k] = n + (at[k] - n)
       /\ DOMAIN q = DOMAIN at /\ \A k \in DOMAIN at : q[k] = o[at[k] - n]
  <2>1. IsPart(P, n, o, Q) /\ Rows \in Nat /\ n \in Nat
    BY <1>1, <1>8 DEF P, IsPart
  <2>2. Enumerates(o, S) /\ S \subseteq 1 .. Rows /\ Q \subseteq S
    BY <1>3, <1>5
  <2> HIDE DEF S, n, o, Q, q
  <2>3. Meet(P, n, o, Q)
    BY Zenon, <2>1, <2>2, OrderOfPart
  <2> QED
    BY <2>3 DEF at, q, Meet
<1>12. DOMAIN q = DOMAIN at /\ \A k \in DOMAIN at : q[k] = o[at[k] - n] /\ q[k] \in Q
  BY <1>6, <1>11 DEF Enumerates
<1>13. \A k \in DOMAIN at : cart'[at[k]] = [of |-> "drinks", n |-> s, row |-> q[k], units |-> count[q[k]]]
  <2> SUFFICES ASSUME NEW k \in DOMAIN at
               PROVE  cart'[at[k]] = [of |-> "drinks", n |-> s, row |-> q[k], units |-> count[q[k]]]
    OBVIOUS
  <2>1. PICK l \in DOMAIN o : at[k] = n + l /\ l = at[k] - n
    BY <1>11
  <2>2. cart'[at[k]] = [of |-> "drinks", n |-> s, row |-> o[l], units |-> units[o[l]]]
    BY <1>5, <1>7, <1>8, <2>1
  <2>3. q[k] = o[l] /\ count[q[k]] = units[q[k]]
    BY <1>4, <1>12, <2>1
  <2> QED
    BY <2>2, <2>3
<1>14. Entered(cart', P) = [k \in DOMAIN at |-> cart'[at[k]]]
  BY DEF Entered, at
<1> QED
  BY ZenonT(40), <1>6, <1>10, <1>12, <1>13, <1>14
LEMMA WantedAre ==
  ASSUME NEW count, Labels(count), drinkScreen \in 1 .. MaxScreens, NEW w, w = Drinks!Wanted(count)
  PROVE  \A k \in DOMAIN w : w[k].of = "drinks" /\ w[k].n = drinkScreen
<1> DEFINE o == InOrder(Picked(count))
<1>1. w = [k \in DOMAIN o |-> [of |-> "drinks", n |-> drinkScreen, row |-> o[k], units |-> count[o[k]]]]
  <2>1. o = InOrder(Picked(count))
    OBVIOUS
  <2> HIDE DEF o
  <2> QED
    BY <2>1, WantedIs DEF Labels
<1> HIDE DEF o
<1> QED
  BY <1>1

\* What a drink screen sends: at most a window of drinks, under its own number.
LEMMA SendKeeps ==
  ASSUME IndInv, NEW s, s = drinkScreen, drinkScreen # 0, NEW w, w = Drinks!Wanted(units), cart' = cart \o w
  PROVE  /\ CartKeeps("product") /\ w \in Seq(Drinks!Item) /\ Len(w) <= Window
         /\ \A i \in DOMAIN cart' \ DOMAIN cart : cart'[i].of = "drinks" /\ cart'[i].n = s
<1>1. /\ Labels(units) /\ s \in 1 .. MaxScreens
      /\ \E first \in 1 .. Rows - Window + 1 : units \in [first .. first + Window - 1 -> 0 .. MaxUnits]
  BY CellsAre DEF IndInv
<1>2. \A k \in DOMAIN w : w[k].of = "drinks" /\ w[k].n = s
  BY <1>1, WantedAre
<1>3. w \in Seq(Drinks!Item) /\ Len(w) <= Window
  <2>1. PICK first \in 1 .. Rows - Window + 1 : units \in [first .. first + Window - 1 -> 0 .. MaxUnits]
    BY <1>1
  <2>2. DOMAIN units = first .. first + Window - 1 /\ \A r \in DOMAIN units : units[r] \in 0 .. MaxUnits
    BY <2>1
  <2> QED
    BY <1>1, <2>2, WantedFits
<1>4. \A k \in DOMAIN w : w[k] \in Entries /\ w[k].of = "drinks" /\ w[k].n = s
  <2>1. \A k \in DOMAIN w : w[k] \in Drinks!Item
    BY <1>3
  <2> QED
    BY <1>2, <2>1 DEF Entries
<1>5. cart \in Seq(Entries) /\ w \in Seq(Entries)
  BY <1>3, <1>4 DEF IndInv
<1>6. /\ cart' \in Seq(Entries) /\ DOMAIN cart \subseteq DOMAIN cart' /\ \A i \in DOMAIN cart : cart'[i] = cart[i]
      /\ \A i \in DOMAIN cart' \ DOMAIN cart : \E k \in DOMAIN w : cart'[i] = w[k]
  <2>1. /\ cart' \in Seq(Entries) /\ DOMAIN cart = 1 .. Len(cart) /\ DOMAIN w = 1 .. Len(w)
        /\ DOMAIN cart' = 1 .. Len(cart) + Len(w) /\ Len(cart) \in Nat /\ Len(w) \in Nat
        /\ \A i \in DOMAIN cart' : cart'[i] = IF i <= Len(cart) THEN cart[i] ELSE w[i - Len(cart)]
    BY <1>5
  <2>2. ASSUME NEW i \in DOMAIN cart' \ DOMAIN cart PROVE \E k \in DOMAIN w : cart'[i] = w[k]
    <3>1. i - Len(cart) \in DOMAIN w /\ cart'[i] = w[i - Len(cart)]
      BY <2>1
    <3> QED
      BY <3>1
  <2> QED
    BY <2>1, <2>2
<1>7. \A i \in DOMAIN cart' \ DOMAIN cart : cart'[i].of = "drinks" /\ cart'[i].n = s
  BY <1>4, <1>6
<1>8. CartKeeps("product")
  BY <1>6, <1>7 DEF CartKeeps
<1> QED
  BY <1>3, <1>7, <1>8

LEMMA DrinksSend ==
  ASSUME IndInv, Drinks!Send, UNCHANGED productVars
  PROVE  IndInv'
<1>1. drinkScreen # 0 /\ cart' = cart \o Drinks!Wanted(units) /\ Drinks!Close(Drinks!Tapped)
  BY DEF Drinks!Send
<1>2. PICK s : s = drinkScreen
  OBVIOUS
<1>3. CartKeeps("product") /\ \A i \in DOMAIN cart' \ DOMAIN cart : cart'[i].n = s
  BY <1>1, <1>2, SendKeeps
<1>4. Entered(cart', Ordered(s)') = Drinks!Tapped /\ Drinks!Tapped \in Seq(Drinks!Item)
  BY <1>1, <1>2, SendOrders
<1> QED
  BY <1>1, <1>2, <1>3, <1>4, DrinksClose

-----------------------------------------------------------------------------
(* The invariant holds *)

LEMMA ShopStarts == ShopInit => IndInv
<1> SUFFICES ASSUME ShopInit PROVE IndInv
  OBVIOUS
<1>1. /\ cart = <<>> /\ screen = {} /\ unitsInt = 1 /\ green = {} /\ priceLabel = 0 /\ opened = 0
      /\ drinkScreen = 0 /\ units = [r \in 1 .. 1 + Window - 1 |-> 0] /\ label = 0
      /\ net = [r \in 1 .. Rows |-> 0] /\ hidden = {} /\ scrolled = FALSE /\ sent = <<>>
  BY DEF ShopInit, Init, Drinks!Init, Drinks!Fresh, Drinks!At
<1>2. Rows \in Nat /\ Window \in 1 .. Rows /\ MaxUnits \in Nat \ {0} /\ MaxScreens \in Nat
  BY DrinkConstants
<1>3. cart \in Seq(Entries) /\ DOMAIN cart = {}
  BY <1>1
<1>4. ProductSide
  <2>1. OwnTypeOK
    BY <1>1, <1>2 DEF OwnTypeOK
  <2>2. LabelIsShown /\ ProductsAreNumbered /\ ShownIsCharged
    BY <1>1, <1>3 DEF LabelIsShown, ProductsAreNumbered, ShownIsCharged
  <2> QED
    BY <2>1, <2>2 DEF ProductSide
<1>5. 1 .. 1 + Window - 1 = 1 .. Window /\ 1 \in 1 .. Rows - Window + 1 /\ 1 .. Window \subseteq 1 .. Rows
  BY <1>2
<1>6. Drinks!OwnTypeOK
  <2>1. units \in [1 .. 1 + Window - 1 -> 0 .. MaxUnits] /\ net \in [1 .. Rows -> 0 .. MaxUnits]
    BY <1>1, <1>2
  <2>2. \E first \in 1 .. Rows - Window + 1 : units \in [first .. first + Window - 1 -> 0 .. MaxUnits]
    BY <1>5, <2>1
  <2>3. sent \in Seq([order : Seq(Drinks!Item), hidden : SUBSET (1 .. Rows)]) /\ Len(sent) = 0
    BY <1>1
  <2>4. scrolled \in BOOLEAN
    BY <1>1
  <2> QED
    BY <1>1, <1>2, <2>1, <2>2, <2>3, <2>4 DEF Drinks!OwnTypeOK, Drinks!At
<1>7. CellsAgree
  <2>1. \A r \in 1 .. Rows : net[r] = 0 /\ (r \in DOMAIN units => units[r] = 0)
    BY <1>1
  <2> QED
    BY <2>1 DEF CellsAgree, Drinks!CellsAgree, Drinks!visible
<1>8. LabelCoversCells /\ ScreensAreNumbered /\ DOMAIN sent = {}
  BY <1>1, <1>3 DEF LabelCoversCells, Drinks!LabelCoversCells, ScreensAreNumbered, Drinks!ScreensAreNumbered
<1>9. TappedIsOrdered
  BY <1>8, TappedIs
<1> QED
  BY <1>1, <1>3, <1>4, <1>6, <1>7, <1>8, <1>9 DEF IndInv, DrinkSide

LEMMA ShopSteps == IndInv /\ [ShopNext]_shopVars => IndInv'
<1> SUFFICES ASSUME IndInv, [ShopNext]_shopVars PROVE IndInv'
  OBVIOUS
<1>1. ASSUME NEW t \in Products, Open(t), drinkScreen = 0, UNCHANGED drinkVars PROVE IndInv'
  BY <1>1, ProductOpens
<1>2. ASSUME NEW t \in Products, UNCHANGED drinkVars, AddUnit(t) \/ SubUnit(t) \/ \E a \in Additionals : Press(t, a)
      PROVE  IndInv'
  <2>1. unitsInt \in 1 .. MaxUnits /\ green \in SUBSET Additionals /\ MaxUnits \in Nat
    BY DrinkConstants DEF IndInv, ProductSide, OwnTypeOK
  <2>2. CASE AddUnit(t)
    <3>1. t \in screen /\ unitsInt + 1 \in 1 .. MaxUnits /\ Relabel(t, unitsInt + 1, green)
      BY <2>1, <2>2 DEF AddUnit
    <3> QED
      BY <1>2, <2>1, <3>1, ProductRelabels
  <2>3. CASE SubUnit(t)
    <3>1. t \in screen /\ unitsInt - 1 \in 1 .. MaxUnits /\ Relabel(t, unitsInt - 1, green)
      BY <2>1, <2>3 DEF SubUnit
    <3> QED
      BY <1>2, <2>1, <3>1, ProductRelabels
  <2>4. ASSUME NEW a \in Additionals, Press(t, a) PROVE IndInv'
    <3>1. PICK adds : adds = IF a \in green THEN green \ {a} ELSE green \cup {a}
      OBVIOUS
    <3>2. t \in screen /\ adds \in SUBSET Additionals /\ Relabel(t, unitsInt, adds)
      BY <2>1, <2>4, <3>1 DEF Press
    <3> QED
      BY <1>2, <2>1, <3>2, ProductRelabels
  <2> QED
    BY <1>2, <2>2, <2>3, <2>4
<1>3. ASSUME NEW t \in Products, UNCHANGED drinkVars, CloseView(t) PROVE IndInv'
  BY <1>3, ProductCloses
<1>4. ASSUME NEW t \in Products, UNCHANGED drinkVars, AddMarketPlace(t) PROVE IndInv'
  BY <1>4, ProductAdds
<1>5. ASSUME screen = {}, Drinks!Present, UNCHANGED productVars PROVE IndInv'
  BY <1>5, DrinksPresent
<1>6. ASSUME NEW r \in 1 .. Rows, Drinks!AddButton(r) \/ Drinks!SubButton(r), UNCHANGED productVars PROVE IndInv'
  BY <1>6, DrinksButtons
<1>7. ASSUME NEW first \in 1 .. Rows - Window + 1, Drinks!Scroll(first), UNCHANGED productVars PROVE IndInv'
  BY <1>7, DrinksScroll
<1>8. ASSUME Drinks!Send, UNCHANGED productVars PROVE IndInv'
  BY <1>8, DrinksSend
<1>9. ASSUME Drinks!Dismiss, UNCHANGED productVars PROVE IndInv'
  BY <1>9, DrinksDismiss
<1>10. ASSUME UNCHANGED shopVars PROVE IndInv'
  <2>1. cart' = cart /\ UNCHANGED productVars /\ UNCHANGED drinkVars /\ UNCHANGED <<screen, drinkScreen>>
    BY <1>10 DEF shopVars, vars, productVars, view, drinkVars
  <2>2. ProductSide'
    BY <2>1, SameCart, ProductSideKept DEF IndInv
  <2>3. DrinkSide'
    BY <2>1, SameCart, DrinkSideKept DEF IndInv
  <2> QED
    BY <2>1, <2>2, <2>3 DEF IndInv
<1>11. CASE ShopNext
  BY <1>1, <1>2, <1>3, <1>4, <1>5, <1>6, <1>7, <1>8, <1>9, <1>11 DEF ShopNext
<1> QED
  BY <1>10, <1>11

LEMMA ShopInvariant == ShopSpec => []IndInv
  BY ShopStarts, ShopSteps, PTL DEF ShopSpec

(* Whatever screens follow each other, the cart holds products and drinks  *)
(* as the screens make them, the cells are those of one window of the menu *)
(* and their numbers within the bounds, and never are a product screen and *)
(* a drink screen presented at once.                                       *)
THEOREM ShopTypeCorrect == ShopSpec => []ShopTypeOK
<1>1. IndInv => ShopTypeOK
  BY DEF IndInv, ProductSide, DrinkSide, ShopTypeOK
<1> QED
  BY <1>1, ShopInvariant, PTL

(* What the cart charges for a product is what the label of its screen     *)
(* said when it was added, and the unit price saved beside it agrees,      *)
(* whatever order of + and - and choices came before.                      *)
THEOREM WhatIsShownIsCharged == ShopSpec => []ShownIsCharged
<1>1. IndInv => ShownIsCharged
  BY DEF IndInv, ProductSide
<1> QED
  BY <1>1, ShopInvariant, PTL

(* On the drink screen, "Adicionar ao carrinho" would never order for more *)
(* than the total says, and for exactly that until the table is scrolled.  *)
THEOREM LabelIsAtLeastTheOrder == ShopSpec => []LabelCoversOrder
<1>1. IndInv => LabelCoversOrder
  <2> SUFFICES ASSUME IndInv, drinkScreen # 0
               PROVE  LET cost == Drinks!SumFunction([k \in DOMAIN Drinks!Wanted(units) |->
                                    DrinkPrice[Drinks!Wanted(units)[k].row] * Drinks!Wanted(units)[k].units])
                      IN cost <= label /\ (~scrolled => cost = label)
    BY DEF LabelCoversOrder, Drinks!LabelCoversOrder
  <2>1. PICK w : w = Drinks!Wanted(units)
    OBVIOUS
  <2>2. Labels(units) /\ drinkScreen \in 1 .. MaxScreens
    BY CellsAre DEF IndInv
  <2>3. SumFunction([k \in DOMAIN w |-> DrinkPrice[w[k].row] * w[k].units]) = Drinks!Total(units)
    BY <2>1, <2>2, OrderCosts
  <2>4. Drinks!Total(units) <= label /\ (~scrolled => Drinks!Total(units) = label)
    BY DEF IndInv, DrinkSide, LabelCoversCells, Drinks!LabelCoversCells
  <2> QED
    BY <2>1, <2>3, <2>4, DrinksSum
<1> QED
  BY <1>1, ShopInvariant, PTL

(* Of the drinks whose row never lost its cell after a tap, each screen    *)
(* orders exactly what was tapped on it, once and in the order of the menu,*)
(* however the table was scrolled and whatever other screens add.          *)
THEOREM WhatIsTappedIsOrdered == ShopSpec => []TappedIsOrdered
<1>1. IndInv => TappedIsOrdered
  BY DEF IndInv, DrinkSide
<1> QED
  BY <1>1, ShopInvariant, PTL

-----------------------------------------------------------------------------
(* The growing list *)

\* Entries that come behind the cart, and were not in it, make it grow.
LEMMA CartGrows ==
  ASSUME NEW w \in Seq(Entries), cart \in Seq(Entries), cart' = cart \o w,
         w # <<>>, Len(w) <= Window, Window \in Nat,
         \A i \in DOMAIN cart, j \in DOMAIN w : w[j] # cart[i]
  PROVE  Saved!Grow
<1>1. /\ cart' \in Seq(Entries) /\ DOMAIN cart = 1 .. Len(cart) /\ DOMAIN w = 1 .. Len(w)
      /\ DOMAIN cart' = 1 .. Len(cart) + Len(w) /\ Len(cart) \in Nat /\ Len(w) \in Nat
      /\ Len(cart') = Len(cart) + Len(w)
  OBVIOUS
<1>2. \A i \in DOMAIN cart' : cart'[i] = IF i <= Len(cart) THEN cart[i] ELSE w[i - Len(cart)]
  OBVIOUS
<1>3. Len(cart') \in Len(cart) + 1 .. Len(cart) + Window
  <2>1. Len(w) # 0
    OBVIOUS
  <2> QED
    BY <1>1, <2>1
<1>4. \A i \in DOMAIN cart : cart'[i] = cart[i]
  BY <1>1, <1>2
<1>5. ASSUME NEW i \in DOMAIN cart, NEW j \in DOMAIN cart' \ DOMAIN cart PROVE cart'[j] # cart[i]
  <2>1. j - Len(cart) \in DOMAIN w /\ cart'[j] = w[j - Len(cart)]
    BY <1>1, <1>2
  <2> QED
    BY <2>1
<1> QED
  BY <1>1, <1>3, <1>4, <1>5 DEF Saved!Grow

LEMMA AddGrows ==
  ASSUME IndInv, NEW t \in Products, AddMarketPlace(t)
  PROVE  Saved!Grow
<1> DEFINE e == NewEntry(t)
<1>1. t \in screen /\ cart' = Append(cart, e)
  BY DEF AddMarketPlace, NewEntry
<1>2. e \in Entry /\ e.of = "product" /\ e.n = opened
  BY <1>1, NewEntryIs
<1> HIDE DEF e
<1>3. cart \in Seq(Entries) /\ e \in Entries /\ Window \in Nat /\ 1 <= Window
  BY <1>2, DrinkConstants DEF IndInv, Entries
<1>4. PICK w \in Seq(Entries) : cart' = cart \o w /\ Len(w) = 1 /\ w # <<>> /\ \A j \in DOMAIN w : w[j] = e
  <2>1. cart' = cart \o <<e>> /\ <<e>> \in Seq(Entries) /\ Len(<<e>>) = 1 /\ <<e>> # <<>> /\ \A j \in DOMAIN <<e>> : <<e>>[j] = e
    BY <1>1, <1>3
  <2> QED
    BY <2>1
<1>5. ASSUME NEW i \in DOMAIN cart PROVE e # cart[i]
  <2>1. CASE cart[i].of = "product"
    <3>1. cart[i].n < opened
      BY <1>1, <2>1 DEF IndInv, ProductSide, ProductsAreNumbered
    <3>2. opened \in Int
      BY DEF IndInv, ProductSide, OwnTypeOK
    <3> QED
      BY <1>2, <3>1, <3>2
  <2> QED
    BY <1>2, <2>1
<1> QED
  BY <1>3, <1>4, <1>5, CartGrows

LEMMA SendGrows ==
  ASSUME IndInv, Drinks!Send
  PROVE  Saved!Grow \/ cart' = cart
<1>1. PICK s, w : s = drinkScreen /\ w = Drinks!Wanted(units)
  OBVIOUS
<1>2. drinkScreen # 0 /\ cart' = cart \o w
  BY <1>1 DEF Drinks!Send
<1>3. /\ w \in Seq(Drinks!Item) /\ Len(w) <= Window /\ Len(w) \in Nat
      /\ \A i \in DOMAIN cart' \ DOMAIN cart : cart'[i].of = "drinks" /\ cart'[i].n = s
  BY <1>1, <1>2, SendKeeps
<1>4. cart \in Seq(Entries) /\ w \in Seq(Entries) /\ Window \in Nat
  BY <1>3, DrinkConstants DEF IndInv, Entries
<1>5. \A j \in DOMAIN w : w[j].of = "drinks" /\ w[j].n = s
  <2>1. \A j \in DOMAIN w : Len(cart) + j \in DOMAIN cart' \ DOMAIN cart /\ cart'[Len(cart) + j] = w[j]
    BY <1>2, <1>4
  <2> QED
    BY <1>3, <2>1
<1>6. \A i \in DOMAIN cart, j \in DOMAIN w : w[j] # cart[i]
  BY <1>1, <1>2, <1>5, NumberIsNew
<1>7. CASE w = <<>>
  BY <1>2, <1>4, <1>7
<1>8. CASE w # <<>>
  BY <1>2, <1>3, <1>4, <1>6, <1>8, CartGrows
<1> QED
  BY <1>7, <1>8

LEMMA ShopGrows == IndInv /\ [ShopNext]_shopVars => [Saved!Grow]_cart
<1> SUFFICES ASSUME IndInv, [ShopNext]_shopVars PROVE Saved!Grow \/ cart' = cart
  OBVIOUS
<1>1. ASSUME NEW t \in Products, AddMarketPlace(t) PROVE Saved!Grow
  BY <1>1, AddGrows
<1>2. CASE Drinks!Send
  BY <1>2, SendGrows
<1>3. ASSUME NEW t \in Products, Open(t) \/ AddUnit(t) \/ SubUnit(t) \/ CloseView(t) \/ \E a \in Additionals : Press(t, a)
      PROVE  cart' = cart
  BY <1>3 DEF Open, AddUnit, SubUnit, CloseView, Press, Relabel
<1>4. ASSUME \/ Drinks!Present \/ Drinks!Dismiss
             \/ \E r \in 1 .. Rows : Drinks!AddButton(r) \/ Drinks!SubButton(r)
             \/ \E first \in 1 .. Rows - Window + 1 : Drinks!Scroll(first)
      PROVE  cart' = cart
  BY <1>4 DEF Drinks!Present, Drinks!Dismiss, Drinks!AddButton, Drinks!SubButton, Drinks!Press, Drinks!Scroll
<1>5. CASE UNCHANGED shopVars
  BY <1>5 DEF shopVars, vars
<1>6. CASE ShopNext
  BY <1>1, <1>2, <1>3, <1>4, <1>6 DEF ShopNext
<1> QED
  BY <1>5, <1>6

(* The screens of both kinds implement the list of SavedCart: whatever     *)
(* order they are used in, a screen only ever adds behind what is in the   *)
(* cart, at most a window of entries at once, and none that was in it.     *)
THEOREM ShopImplementsSavedCart == ShopSpec => ImplementsSavedCart
<1>1. ShopInit => Saved!Init
  BY DEF ShopInit, Init, Saved!Init
<1>2. ShopSpec => [][Saved!Grow]_cart
  BY ShopInvariant, ShopGrows, PTL DEF ShopSpec
<1> QED
  BY <1>1, <1>2, PTL DEF ImplementsSavedCart, Saved!Spec, ShopSpec

=============================================================================
