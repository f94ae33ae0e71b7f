----------------------------- MODULE SwiftDrinks -----------------------------
(***************************************************************************)
(* The drink screen of the iOS app: DrinksViewController.swift and         *)
(* CellDrink.swift.                                                        *)
(*                                                                         *)
(* The only place where the units of a drink are kept is the label of the  *)
(* cell that shows it.  A row scrolled out of the table's window gives its *)
(* cell back, and a row scrolled in gets one prepared with "0"; the total  *)
(* and the order ask the table for the cells of all rows and get those of  *)
(* the window.  The buttons of a cell have two targets, the cell first and *)
(* the controller second (Main.storyboard), so the total follows the tap.  *)
(*                                                                         *)
(* cart is CurrentPurchase in the view context; that saving it may fail is *)
(* the subject of SwiftCart, what else is put in it of SwiftShop.  net,    *)
(* hidden, scrolled and sent are history.  Amounts are exact: the cent that*)
(* truncate() may take from the label is left out (see SwiftCart).         *)
(***************************************************************************)
EXTENDS Integers, Sequences, Functions, OrderedSets

CONSTANTS
  Rows,         \* number of drinks of the menu
  Window,       \* rows the table shows at a time
  Price,        \* of each drink
  MaxUnits,     \* bound: units of a drink
  MaxScreens    \* bound: screens presented over the behaviour

DrinksAssumption ==
  /\ Rows \in Nat /\ Window \in 1 .. Rows
  /\ Price \in [1 .. Rows -> Nat \ {0}]
  /\ MaxUnits \in Nat /\ MaxScreens \in Nat

VARIABLES
  cart,      \* CurrentPurchase: the drinks added so far
  screen,    \* the screen presented, counted from 1, or 0
  units,     \* the labels unitsItem of the cells in the window
  label,     \* paymentTotalLabel
  net,       \* taps on + less effective taps on -, per row of this screen
  hidden,    \* rows that lost their cell since they were tapped
  scrolled,  \* the table was scrolled since the total was computed
  sent       \* of each screen, what the taps on rows never hidden add up to

history == <<net, hidden, scrolled, sent>>
vars    == <<cart, screen, units, label, history>>

Item == [of : {"drinks"}, n : 1 .. MaxScreens, row : 1 .. Rows, units : 1 .. MaxUnits]

visible == DOMAIN units
At(first) == first .. first + Window - 1

\* updateTotalValue
Total(count) == SumFunction([r \in DOMAIN count |-> Price[r] * count[r]])

\* the loop of saveInRepeatPurchase, over the rows that have a cell
Wanted(count) ==
  LET chosen == InOrder({r \in DOMAIN count : Price[r] * count[r] > 0})
  IN [k \in DOMAIN chosen |-> [of |-> "drinks", n |-> screen, row |-> chosen[k], units |-> count[chosen[k]]]]

Fresh == [r \in At(1) |-> 0]

-----------------------------------------------------------------------------
Init ==
  /\ cart = <<>> /\ screen = 0 /\ units = Fresh /\ label = 0
  /\ net = [r \in 1 .. Rows |-> 0] /\ hidden = {} /\ scrolled = FALSE /\ sent = <<>>

\* viewDidLoad, viewWillAppear
Present ==
  /\ screen = 0 /\ Len(sent) < MaxScreens
  /\ screen' = Len(sent) + 1 /\ units' = Fresh /\ label' = Total(units')
  /\ net' = [r \in 1 .. Rows |-> 0] /\ hidden' = {} /\ scrolled' = FALSE
  /\ UNCHANGED <<cart, sent>>

PressTotalFirst(r, d) ==    \* mutant: the controller's action runs before the cell's
  /\ units' = [units EXCEPT ![r] = @ + d]
  /\ label' = Total(units)
  /\ net' = [net EXCEPT ![r] = @ + d] /\ scrolled' = FALSE
  /\ UNCHANGED <<cart, screen, hidden, sent>>
Press(r, d) ==
  /\ units' = [units EXCEPT ![r] = @ + d]
  /\ label' = Total(units')
  /\ net' = [net EXCEPT ![r] = @ + d] /\ scrolled' = FALSE
  /\ UNCHANGED <<cart, screen, hidden, sent>>

AddButton(r) == screen # 0 /\ r \in visible /\ units[r] < MaxUnits /\ net[r] < MaxUnits /\ Press(r, 1)

SubButton(r) == screen # 0 /\ r \in visible /\ units[r] > 0 /\ Press(r, -1)

ScrollKeepingLabels(first) ==    \* mutant: cellForRowAt does not reset the label
  /\ screen # 0 /\ At(first) # visible
  /\ units' = [r \in At(first) |->
                 units[IF r \in visible THEN r ELSE CHOOSE s \in visible : s \notin At(first)]]
  /\ hidden' = hidden \cup {r \in visible \ At(first) : net[r] > 0} /\ scrolled' = TRUE
  /\ UNCHANGED <<cart, screen, label, net, sent>>
\* the rows that come into the window are prepared by cellForRowAt
Scroll(first) ==
  /\ screen # 0 /\ At(first) # visible
  /\ units' = [r \in At(first) |-> IF r \in visible THEN units[r] ELSE 0]
  /\ hidden' = hidden \cup {r \in visible \ At(first) : net[r] > 0} /\ scrolled' = TRUE
  /\ UNCHANGED <<cart, screen, label, net, sent>>

Close(order) ==
  /\ screen' = 0 /\ sent' = Append(sent, [order |-> order, hidden |-> hidden])
  /\ UNCHANGED <<units, label, net, hidden, scrolled>>
Tapped == Wanted([r \in (1 .. Rows) \ hidden |-> net[r]])

\* "Adicionar ao carrinho"
Send ==
  /\ screen # 0 /\ cart' = cart \o Wanted(units)
  /\ Close(Tapped)

Dismiss == screen # 0 /\ UNCHANGED cart /\ Close(<<>>)

Next ==
  \/ Present \/ Send \/ Dismiss
  \/ \E r \in 1 .. Rows : AddButton(r) \/ SubButton(r)
  \/ \E first \in 1 .. Rows - Window + 1 : Scroll(first)

Spec == Init /\ [][Next]_vars

-----------------------------------------------------------------------------
\* what these screens keep
OwnTypeOK ==
  /\ screen \in 0 .. MaxScreens
  /\ \E first \in 1 .. Rows - Window + 1 : units \in [At(first) -> 0 .. MaxUnits]
  /\ label \in Nat /\ net \in [1 .. Rows -> 0 .. MaxUnits]
  /\ hidden \subseteq 1 .. Rows /\ scrolled \in BOOLEAN
  /\ sent \in Seq([order : Seq(Item), hidden : SUBSET (1 .. Rows)]) /\ Len(sent) <= MaxScreens

\* What would be ordered now never costs more than the label says, and exactly
\* that until the table is scrolled.
LabelCoversOrder ==
  screen # 0 =>
    LET cost == SumFunction([k \in DOMAIN Wanted(units) |->
                               Price[Wanted(units)[k].row] * Wanted(units)[k].units])
    IN cost <= label /\ (~scrolled => cost = label)

\* Of the drinks whose row never lost its cell after it was tapped, a screen
\* orders what was tapped, each once and in the order of the menu; no units of
\* another row, or of another screen, come in with a reused cell.
TappedIsOrdered ==
  \A s \in DOMAIN sent :
    Entered(cart, {i \in DOMAIN cart : /\ cart[i].of = "drinks" /\ cart[i].n = s
                                       /\ cart[i].row \notin sent[s].hidden})
      = sent[s].order

\* What they rest on.  A cell never says more than was tapped, and exactly that
\* unless its row lost the cell since; a row out of the window was not tapped,
\* or lost its cell.
CellsAgree ==
  \A r \in 1 .. Rows :
    /\ r \in visible => units[r] <= net[r]
    /\ r \notin hidden => net[r] = IF r \in visible THEN units[r] ELSE 0

\* The label covers the cells, and says exactly what they add up to until the
\* table is scrolled.
LabelCoversCells ==
  screen # 0 => Total(units) <= label /\ (~scrolled => Total(units) = label)

\* No two screens order under the same number.
ScreensAreNumbered ==
  /\ screen \in {0, Len(sent) + 1} /\ (screen # 0 => Len(sent) < MaxScreens)
  /\ \A i \in DOMAIN cart : cart[i].of = "drinks" => cart[i].n \in DOMAIN sent
=============================================================================
