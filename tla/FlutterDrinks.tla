---------------------------- MODULE FlutterDrinks ----------------------------
(***************************************************************************)
(* The drink screen of the Flutter app (lib/screens/detailsDrink.dart) and *)
(* its rows (lib/widgets/drinkItemDetail.dart).                            *)
(*                                                                         *)
(* How many of an option are wanted is kept twice: in the global lists of  *)
(* lib/data/drinksData.dart, which outlive the screen, and in the State of *)
(* the option's row, which is made anew with 0 when the row is scrolled    *)
(* back into view.  "Adicionar ao carrinho" appends one item per wanted    *)
(* option to the screen's copy of the cart and saves once per item.        *)
(*                                                                         *)
(* A row loads the saved cart too, into a list that nothing reads: left    *)
(* out.  load() and save() continue after getInstance(), as in             *)
(* FlutterDetails, and share its saved cart in FlutterShop.  loaded,       *)
(* chosen, early and recreated are history.                                *)
(***************************************************************************)
EXTENDS Integers, Sequences, Functions, OrderedSets

CONSTANTS
  Menus,        \* "Refrigerante", "Cerveja", "Água"
  Options,      \* number of options of a menu
  Price,        \* price of each option of a menu
  MaxUnits,     \* bound: units of an option
  MaxScreens    \* bound: screens opened over the behaviour

Screens == 1 .. MaxScreens
MaxOptions == CHOOSE n \in {Options[m] : m \in Menus} : \A m \in Menus : Options[m] <= n

DrinksAssumption ==
  /\ Menus # {} /\ IsFiniteSet(Menus)
  /\ Options \in [Menus -> Nat \ {0}]
  /\ \A m \in Menus : \A o \in 1 .. Options[m] : Price[m][o] \in Nat
  /\ MaxUnits \in Nat /\ MaxScreens \in Nat

VARIABLES
  data,      \* the list under the key 'data' of SharedPreferences
  hasData,   \* the key was ever set
  ready,     \* the first getInstance() has completed
  pending,   \* continuations waiting for it
  units,     \* drinksSoda, drinksBeer, drinksWater: units of each option
  states,    \* the State objects made so far
  top,       \* the screen on the navigator, 0 for none
  rows,      \* units in the rows of that screen
  valueUn,   \* the value it shows
  loaded, chosen, early, recreated

screen  == <<top, rows, valueUn>>
history == <<loaded, chosen, early, recreated>>
vars    == <<data, hasData, ready, pending, units, states, screen, history>>

Item == [type : {"drink"}, of : Screens, option : 1 .. MaxOptions, units : 1 .. MaxUnits, valueUn : Nat]
Task == [on : {"drinks"}, call : {"load", "save"}, of : Screens]
None(m) == [o \in 1 .. Options[m] |-> 0]

menu == states[top].menu

\* the sum over dataList
Value(m, count) == SumFunction([o \in 1 .. Options[m] |-> Price[m][o] * count[o]])

Quiet == pending = <<>> \/ ~ready
Event == Quiet /\ top # 0

-----------------------------------------------------------------------------
Init ==
  /\ data = <<>> /\ hasData \in BOOLEAN
  /\ ready = FALSE /\ pending = <<>>
  /\ units = [m \in Menus |-> None(m)]
  /\ states = <<>> /\ top = 0 /\ rows = <<>> /\ valueUn = 0
  /\ loaded = {} /\ chosen = [s \in Screens |-> <<>>] /\ early = {} /\ recreated = FALSE

PrefsReady ==
  /\ ~ready /\ ready' = TRUE
  /\ UNCHANGED <<data, hasData, pending, units, states, screen, history>>

OpenKeepingUnits(m) ==    \* mutant: initState does not reset the global list
  /\ Quiet /\ top = 0 /\ Len(states) < MaxScreens
  /\ states' = Append(states, [menu |-> m, items |-> <<>>])
  /\ top' = Len(states') /\ rows' = None(m) /\ valueUn' = 0
  /\ pending' = Append(pending, [on |-> "drinks", call |-> "load", of |-> top'])
  /\ recreated' = FALSE
  /\ UNCHANGED <<data, hasData, ready, units, loaded, chosen, early>>
Open(m) ==
  /\ Quiet /\ top = 0 /\ Len(states) < MaxScreens
  /\ states' = Append(states, [menu |-> m, items |-> <<>>])
  /\ top' = Len(states') /\ rows' = None(m) /\ valueUn' = 0
  /\ pending' = Append(pending, [on |-> "drinks", call |-> "load", of |-> top'])
  /\ units' = [units EXCEPT ![m] = None(m)]
  /\ recreated' = FALSE
  /\ UNCHANGED <<data, hasData, ready, loaded, chosen, early>>

Run(call, s) ==
  /\ ready /\ pending # <<>> /\ Head(pending) = [on |-> "drinks", call |-> call, of |-> s]
  /\ pending' = Tail(pending)

Load(s) ==
  /\ Run("load", s)
  /\ states' = IF hasData THEN [states EXCEPT ![s].items = data] ELSE states
  /\ loaded' = loaded \cup {s}
  /\ UNCHANGED <<data, hasData, ready, units, screen, chosen, early, recreated>>

Save(s) ==
  /\ Run("save", s)
  /\ data' = states[s].items /\ hasData' = TRUE
  /\ UNCHANGED <<ready, units, states, screen, history>>

-----------------------------------------------------------------------------
(* The rows' buttons *)

\* the row counts for itself, then addTotalValue or subTotalValue counts again
Count(o, d) ==
  /\ rows'  = [rows EXCEPT ![o] = @ + d]
  /\ units' = [units EXCEPT ![menu][o] = @ + d]
  /\ valueUn' = Value(menu, units'[menu])
  /\ UNCHANGED <<data, hasData, ready, pending, states, top, history>>

AddUnit(o) == Event /\ o \in DOMAIN rows /\ units[menu][o] < MaxUnits /\ Count(o, 1)

SubUnit(o) == Event /\ o \in DOMAIN rows /\ rows[o] > 0 /\ Count(o, -1)

\* the list of options is scrolled out of view and back
RecreateRows ==
  /\ Event /\ rows' = None(menu) /\ recreated' = TRUE
  /\ UNCHANGED <<data, hasData, ready, pending, units, states, top, valueUn, loaded, chosen, early>>

-----------------------------------------------------------------------------
\* add() for each option with units
NewItems ==
  LET wanted == InOrder({o \in 1 .. Options[menu] : units[menu][o] # 0})
  IN [k \in DOMAIN wanted |->
        [type |-> "drink", of |-> top, option |-> wanted[k], units |-> units[menu][wanted[k]],
         valueUn |-> Price[menu][wanted[k]]]]

MakeCartItens ==
  /\ Event
  /\ states' = [states EXCEPT ![top].items = @ \o NewItems]
  /\ pending' = pending \o [k \in 1 .. Len(NewItems) |-> [on |-> "drinks", call |-> "save", of |-> top]]
  /\ top' = 0 /\ rows' = <<>> /\ valueUn' = 0
  /\ chosen' = [chosen EXCEPT ![top] = NewItems]
  /\ early' = IF top \in loaded THEN early ELSE early \cup {top}
  /\ UNCHANGED <<data, hasData, ready, units, loaded, recreated>>

\* the arrow or the system's back
Back ==
  /\ Event /\ top' = 0 /\ rows' = <<>> /\ valueUn' = 0
  /\ UNCHANGED <<data, hasData, ready, pending, units, states, history>>

Next ==
  \/ PrefsReady \/ \E m \in Menus : Open(m)
  \/ \E s \in Screens : Load(s) \/ Save(s)
  \/ \E o \in 1 .. MaxOptions : AddUnit(o) \/ SubUnit(o)
  \/ RecreateRows \/ MakeCartItens \/ Back

Spec == Init /\ [][Next]_vars

-----------------------------------------------------------------------------
\* what these screens keep, with lists of any Entries
OwnTypeOK(Entries) ==
  /\ \A m \in Menus : units[m] \in [1 .. Options[m] -> 0 .. MaxUnits]
  /\ states \in Seq([menu : Menus, items : Seq(Entries)])
  /\ Len(states) <= MaxScreens /\ top \in 0 .. Len(states)
  /\ rows \in Seq(0 .. MaxUnits) /\ valueUn \in Nat
  /\ loaded \subseteq Screens /\ chosen \in [Screens -> Seq(Item)] /\ early \subseteq Screens
  /\ recreated \in BOOLEAN

\* A row never counts more than the global list, and the value shown is that
\* of what would be added now: the row's own guard "units > 0" keeps the list's
\* count from going below zero, also after the row was made anew.  Only then
\* do the two numbers differ.
RowsCounted ==
  top # 0 =>
    /\ \A o \in DOMAIN rows :
         /\ 0 <= rows[o] /\ rows[o] <= units[menu][o]
         /\ ~recreated => rows[o] = units[menu][o]
    /\ valueUn = SumFunction([k \in DOMAIN NewItems |-> NewItems[k].valueUn * NewItems[k].units])

\* Once the continuations have run the cart has, of every drink screen that had
\* loaded it, exactly the options chosen there, once each and in the order of
\* the menu, although the screen was left before its saves and its units were
\* reset since.
ChosenIsSaved ==
  ready /\ pending = <<>> =>
    \A s \in Screens \ early :
      Entered(data, {i \in DOMAIN data : data[i].type = "drink" /\ data[i].of = s}) = chosen[s]
=============================================================================
