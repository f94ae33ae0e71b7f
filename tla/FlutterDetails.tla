--------------------------- MODULE FlutterDetails ---------------------------
(***************************************************************************)
(* The two product screens of the Flutter app: lib/screens/details.dart    *)
(* (a food, with additionals to tick) and lib/screens/detailsPromotions    *)
(* .dart (a promotion).  Each opening makes a new State object that loads  *)
(* the saved cart, changes its copy and saves it back; the ticks live in   *)
(* the global list of lib/data/comments.dart, shared by all of them.       *)
(*                                                                         *)
(* load() and save() continue after "await SharedPreferences               *)
(* .getInstance()": at once (as microtasks) when the plug-in is ready, much *)
(* later during the first moments of the process.  The screens can be      *)
(* opened, used and left meanwhile.                                        *)
(*                                                                         *)
(* The saved cart and the tasks of getInstance() are shared with the drink *)
(* screens: FlutterShop composes the two.  The number of the screen is the *)
(* id of the item it adds.  loaded, added, early, swiped and leftover are  *)
(* history.                                                                *)
(***************************************************************************)
EXTENDS Integers, Sequences, FiniteSets, Functions

CONSTANTS
  Foods, Promotions,   \* titles
  Extras,              \* names in data/comments.dart
  Price,               \* of a product
  Charge,              \* of an additional
  MaxUnits,            \* bound: units shown on a screen
  MaxScreens           \* bound: screens opened over the behaviour

Products == Foods \cup Promotions
Screens  == 1 .. MaxScreens

ASSUME DetailsAssumption ==
  /\ Foods \cap Promotions = {} /\ IsFiniteSet(Extras)
  /\ Price \in [Products -> Nat] /\ Charge \in [Extras -> Nat]
  /\ MaxUnits \in Nat \ {0} /\ MaxScreens \in Nat

VARIABLES
  data,      \* the list under the key 'data' of SharedPreferences
  hasData,   \* the key was ever set
  ready,     \* the first getInstance() has completed
  pending,   \* continuations waiting for it
  states,    \* the State objects made so far
  top,       \* the screen on the navigator, 0 for none
  checked,   \* names in comments whose 'state' is true
  loaded, added, early, swiped, leftover

history == <<loaded, added, early, swiped, leftover>>
vars    == <<data, hasData, ready, pending, states, top, checked, history>>

Charges(names) == SumFunction([e \in names |-> Charge[e]])

Kinds == {"food", "promotion"}
Item == [id : Screens, type : Kinds, title : Products, units : 1 .. MaxUnits, valueUn : Nat,
         additionals : SUBSET Extras]
Task == [on : {"product"}, call : {"load", "save"}, of : Screens]

\* positions of a list that these screens filled
Own(list)   == {i \in DOMAIN list : list[i].type \in Kinds}
IdsOf(list) == {list[i].id : i \in Own(list)}

Quiet == pending = <<>> \/ ~ready
Event == Quiet /\ top # 0

Await(call, s) == pending' = Append(pending, [on |-> "product", call |-> call, of |-> s])

-----------------------------------------------------------------------------
Init ==
  /\ data = <<>> /\ hasData \in BOOLEAN    \* an order leaves an empty list
  /\ ready = FALSE /\ pending = <<>>
  /\ states = <<>> /\ top = 0 /\ checked = {}
  /\ loaded = {} /\ added = {} /\ early = {} /\ swiped = FALSE /\ leftover = {}

PrefsReady ==
  /\ ~ready /\ ready' = TRUE
  /\ UNCHANGED <<data, hasData, pending, states, top, checked, history>>

OpenUnloaded(p) ==    \* mutant: the constructor does not call load()
  /\ Quiet /\ top = 0 /\ Len(states) < MaxScreens
  /\ states' = Append(states, [product |-> p, items |-> <<>>, units |-> 1, valueUn |-> Price[p],
                               additionalsValue |-> 0, additionals |-> {}])
  /\ top' = Len(states')
  /\ leftover' = IF swiped THEN leftover \cup {top'} ELSE leftover
  /\ UNCHANGED <<data, hasData, ready, pending, checked, loaded, added, early, swiped>>
Open(p) ==
  /\ Quiet /\ top = 0 /\ Len(states) < MaxScreens
  /\ states' = Append(states, [product |-> p, items |-> <<>>, units |-> 1, valueUn |-> Price[p],
                               additionalsValue |-> 0, additionals |-> {}])
  /\ top' = Len(states')
  /\ Await("load", top')
  /\ leftover' = IF swiped THEN leftover \cup {top'} ELSE leftover
  /\ UNCHANGED <<data, hasData, ready, checked, loaded, added, early, swiped>>

-----------------------------------------------------------------------------
(* Continuations *)

Run(call, s) ==
  /\ ready /\ pending # <<>> /\ Head(pending) = [on |-> "product", call |-> call, of |-> s]
  /\ pending' = Tail(pending)

\* a missing key leaves the State alone; a food also resets the price it shows
Load(s) ==
  /\ Run("load", s)
  /\ states' = IF ~hasData THEN states
               ELSE [states EXCEPT ![s].items = data,
                       ![s].valueUn = IF states[s].product \in Foods THEN Price[states[s].product] ELSE @]
  /\ loaded' = loaded \cup {s}
  /\ UNCHANGED <<data, hasData, ready, top, checked, added, early, swiped, leftover>>

SaveIfMounted(s) ==    \* mutant: returns early once the screen was left
  /\ Run("save", s)
  /\ data' = IF top = s THEN states[s].items ELSE data
  /\ hasData' = TRUE
  /\ UNCHANGED <<ready, states, top, checked, history>>
Save(s) ==
  /\ Run("save", s)
  /\ data' = states[s].items /\ hasData' = TRUE
  /\ UNCHANGED <<ready, states, top, checked, history>>

-----------------------------------------------------------------------------
(* The screen on top *)

SetUnits(n) ==
  /\ states' = [states EXCEPT ![top].units = n,
       ![top].additionalsValue = Charges(checked),
       ![top].valueUn = (Price[states[top].product] + Charges(checked)) * n]
  /\ UNCHANGED <<data, hasData, ready, pending, top, checked, loaded, added, early, swiped, leftover>>

AddUnit == Event /\ states[top].units < MaxUnits /\ SetUnits(states[top].units + 1)
SubUnitFree == Event /\ SetUnits(states[top].units - 1)    \* mutant: no "units > 1"
SubUnit == Event /\ states[top].units > 1 /\ SetUnits(states[top].units - 1)

\* a CheckboxListTile: all texts and prices are rebuilt from comments
Tick(e) ==
  /\ Event /\ states[top].product \in Foods
  /\ checked' = IF e \in checked THEN checked \ {e} ELSE checked \cup {e}
  /\ states' = [states EXCEPT ![top].additionals = checked',
       ![top].additionalsValue = Charges(checked'),
       ![top].valueUn = (Price[states[top].product] + Charges(checked')) * states[top].units]
  /\ UNCHANGED <<data, hasData, ready, pending, top, loaded, added, early, swiped, leftover>>

NewItem(s) ==
  LET st == states[s] IN
  [id |-> s, type |-> IF st.product \in Foods THEN "food" ELSE "promotion", title |-> st.product, units |-> st.units,
   valueUn |-> Price[st.product] + st.additionalsValue, additionals |-> st.additionals]

AddKeepingTicks ==    \* mutant: the ticks are not reset
  /\ Event
  /\ states' = [states EXCEPT ![top].items = Append(@, NewItem(top)),
       ![top].valueUn = IF states[top].product \in Foods THEN NewItem(top).valueUn ELSE @]
  /\ Await("save", top) /\ top' = 0
  /\ added' = added \cup {top}
  /\ early' = IF top \in loaded THEN early ELSE early \cup {top}
  /\ swiped' = FALSE
  /\ UNCHANGED <<data, hasData, ready, checked, loaded, leftover>>
\* "Adicionar ao carrinho"
Add ==
  /\ Event
  /\ states' = [states EXCEPT ![top].items = Append(@, NewItem(top)),
       ![top].valueUn = IF states[top].product \in Foods THEN NewItem(top).valueUn ELSE @]
  /\ Await("save", top) /\ checked' = {} /\ top' = 0
  /\ added' = added \cup {top}
  /\ early' = IF top \in loaded THEN early ELSE early \cup {top}
  /\ swiped' = FALSE
  /\ UNCHANGED <<data, hasData, ready, loaded, leftover>>

BackArrow ==
  /\ Event /\ checked' = {} /\ top' = 0 /\ swiped' = FALSE
  /\ UNCHANGED <<data, hasData, ready, pending, states, loaded, added, early, leftover>>

\* the system's back gesture or button: the arrow's handler does not run
SystemBack ==
  /\ Event /\ top' = 0
  /\ swiped' = (swiped \/ checked # {})
  /\ UNCHANGED <<data, hasData, ready, pending, states, checked, loaded, added, early, leftover>>

Next ==
  \/ PrefsReady
  \/ \E p \in Products : Open(p)
  \/ \E s \in Screens : Load(s) \/ Save(s)
  \/ AddUnit \/ SubUnit \/ \E e \in Extras : Tick(e)
  \/ Add \/ BackArrow \/ SystemBack

Spec == Init /\ [][Next]_vars

-----------------------------------------------------------------------------
\* what these screens keep, with lists of any Entries
OwnTypeOK(Entries) ==
  /\ states \in Seq([product : Products, items : Seq(Entries), units : 1 .. MaxUnits, valueUn : Nat,
                     additionalsValue : Nat, additionals : SUBSET Extras])
  /\ Len(states) <= MaxScreens /\ top \in 0 .. Len(states)
  /\ checked \subseteq Extras
  /\ loaded \subseteq Screens /\ added \subseteq Screens /\ early \subseteq added
  /\ swiped \in BOOLEAN /\ leftover \subseteq Screens

\* Every saved item costs its product plus exactly the additionals its text
\* names.  The one exception: a food left by the system's back keeps its ticks,
\* and the item of the next screen may be charged for them with an empty text.
ChargedIsNamed ==
  \A i \in Own(data) :
    LET it == data[i] IN
    \/ it.valueUn = Price[it.title] + Charges(it.additionals)
    \/ it.id \in leftover /\ it.additionals = {}

\* Every product added is in the saved cart once the continuations have run,
\* unless it was added before its own screen had loaded that cart.
AddedIsSaved == ready /\ pending = <<>> => added \ early \subseteq IdsOf(data)
=============================================================================
