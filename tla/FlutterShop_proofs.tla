-------------------------- MODULE FlutterShop_proofs --------------------------
(***************************************************************************)
(* Theorems about the shopping screens of the Flutter app, for every set   *)
(* of products, additionals and drink menus, all prices and every bound of *)
(* FlutterShop.                                                            *)
(*                                                                         *)
(* Most of the argument is about the queue of continuations and the copies *)
(* of the cart, and is the same for both kinds of screens: it is made once *)
(* for a screen s of either kind, on \in Both.                             *)
(***************************************************************************)
EXTENDS FlutterShop, DataTheorems

(* The drink screens' names for what the lemmas are about, and their constants *)

LEMMA DrinksSum == \A f : Drinks!SumFunction(f) = SumFunction(f)
  BY DEF Drinks!SumFunction, Drinks!SumFunctionOnSet, Drinks!FoldFunctionOnSet, Drinks!MapThenFoldSet,
         SumFunction, SumFunctionOnSet, FoldFunctionOnSet, MapThenFoldSet

LEMMA DrinksOrder == \A S : Drinks!InOrder(S) = InOrder(S)
  BY Zenon DEF Drinks!InOrder, InOrder, Drinks!Cardinality, Cardinality

LEMMA DrinksEntered == \A list, S : Drinks!Entered(list, S) = Entered(list, S)
  BY DrinksOrder DEF Drinks!Entered, Entered

\* No menu has more than MaxOptions options.
LEMMA OptionsBound ==
  /\ Drinks!MaxOptions \in Nat \ {0}
  /\ \A m \in Menus : Options[m] \in 1 .. Drinks!MaxOptions
<1>1. Menus # {} /\ IsFiniteSet(Menus) /\ Options \in [Menus -> Nat \ {0}]
  BY DrinksAssumption DEF Drinks!DrinksAssumption, Drinks!IsFiniteSet, IsFiniteSet
<1> DEFINE Bounds(S, k) == k \in S /\ \A m \in S : Options[m] <= Options[k]
           T == {S \in SUBSET Menus : S # {} /\ ~ \E k \in S : Bounds(S, k)}
<1>2. \E k \in Menus : Bounds(Menus, k)
  <2>1. SUFFICES ASSUME ~ \E k \in Menus : Bounds(Menus, k)
                 PROVE  FALSE
    OBVIOUS
  <2>2. T # {} /\ T \subseteq SUBSET Menus
    BY <1>1, <2>1
  <2>3. PICK x \in T : \A y \in T : y \subseteq x => y = x
    <3> HIDE DEF T
    <3> QED
      BY <1>1, <2>2, SmallestSet
  <2>4. x \subseteq Menus /\ x # {} /\ ~ \E k \in x : Bounds(x, k)
    BY <2>3
  <2>5. PICK m \in x : TRUE
    BY <2>4
  <2> DEFINE y == x \ {m}
  <2>6. y \notin T /\ y \subseteq Menus
    BY <2>3, <2>4, <2>5
  <2>7. \A k \in x : Options[k] \in Nat
    BY <1>1, <2>4
  <2>8. CASE y = {}
    <3>1. x = {m}
      BY <2>5, <2>8
    <3>2. Bounds(x, m)
      BY <2>7, <3>1
    <3> QED
      BY <2>4, <2>5, <3>2
  <2>9. CASE y # {}
    <3>1. PICK k \in y : Bounds(y, k)
      BY <2>6, <2>9
    <3>2. \A l \in x : l = m \/ l \in y
      OBVIOUS
    <3>3. Bounds(x, m) \/ Bounds(x, k)
      BY <2>5, <2>7, <3>1, <3>2
    <3> QED
      BY <2>4, <2>5, <3>1, <3>3
  <2> QED
    BY <2>8, <2>9
<1>3. \E n \in {Options[m] : m \in Menus} : \A m \in Menus : Options[m] <= n
  BY <1>2
<1>4. /\ Drinks!MaxOptions \in {Options[m] : m \in Menus}
      /\ \A m \in Menus : Options[m] <= Drinks!MaxOptions
  BY <1>3 DEF Drinks!MaxOptions
<1> QED
  BY <1>1, <1>4

(* The tasks and the copies of the cart, of screens of both kinds *)

Both == {"product", "drinks"}

Opened(on)    == IF on = "product" THEN DOMAIN states ELSE DOMAIN drinkStates
Items(on, s)  == IF on = "product" THEN states[s].items ELSE drinkStates[s].items
LoadedOf(on)  == IF on = "product" THEN loaded ELSE drinkLoaded
TopOf(on)     == IF on = "product" THEN top ELSE drinkTop

\* an entry that screen s added
IsOf(e, on, s) ==
  \/ on = "product" /\ e.type \in Kinds /\ e.id = s
  \/ on = "drinks" /\ e.type = "drink" /\ e.of = s

Asks(i, call, on, s) == pending[i].on = on /\ pending[i].call = call /\ pending[i].of = s

\* Tasks are those of screens that were opened.
TasksAreOfScreens ==
  \A i \in DOMAIN pending : /\ pending[i].on \in Both /\ pending[i].call \in {"load", "save"}
                            /\ pending[i].of \in Opened(pending[i].on)

\* A screen's load is its first task; what comes right before a save is a task of
\* the same screen.
TasksAreGrouped ==
  /\ \A i, j \in DOMAIN pending :
       i < j /\ pending[i].on = pending[j].on /\ pending[i].of = pending[j].of => pending[j].call = "save"
  /\ \A i, j \in DOMAIN pending :
       j = i + 1 /\ pending[j].call = "save" => pending[i].on = pending[j].on /\ pending[i].of = pending[j].of

\* A screen's load is due until the screen has loaded the cart.
LoadsAreDue ==
  \A on \in Both : /\ LoadedOf(on) \subseteq Opened(on)
                   /\ \A s \in Opened(on) : s \notin LoadedOf(on) <=> \E i \in DOMAIN pending : Asks(i, "load", on, s)

\* The screen on top has the saved cart and nothing else, or nothing at all, and
\* then its load is the last task.
TopIsFresh ==
  /\ \E on \in Both : TopOf(on) = 0
  /\ \A on \in Both : TopOf(on) # 0 =>
       /\ TopOf(on) \in Opened(on)
       /\ pending = <<>> => TopOf(on) \in LoadedOf(on) /\ Items(on, TopOf(on)) = data
       /\ pending # <<>> => Asks(Len(pending), "load", on, TopOf(on)) /\ Items(on, TopOf(on)) = <<>>

\* What is saved came from screens that had loaded the cart and were left.
SavedByLoaded ==
  /\ ~hasData => data = <<>>
  /\ \A i \in DOMAIN data : \A on \in Both : \A s \in Screens :
       IsOf(data[i], on, s) => s \in LoadedOf(on) /\ s # TopOf(on)

\* A list of entries that screen s added, no more than one "Adicionar" adds.
IsOwn(list, on, s) ==
  Len(list) <= Drinks!MaxOptions /\ \A i \in DOMAIN list : IsOf(list[i], on, s)

\* A screen that has not loaded the cart has at most what it added itself.
UnloadedIsOwn ==
  \A on \in Both : \A s \in Opened(on) : s \notin LoadedOf(on) => IsOwn(Items(on, s), on, s)

\* list is the saved cart, or the saved cart with the first entries of screen s
\* behind it.
Continues(list, on, s) ==
  \/ list = data
  \/ /\ Len(list) \in Len(data) .. Len(data) + Drinks!MaxOptions
     /\ \A i \in DOMAIN data : list[i] = data[i] /\ ~ IsOf(data[i], on, s)
     /\ \A i \in DOMAIN list \ DOMAIN data : IsOf(list[i], on, s)

\* A save that comes next continues the saved cart.
NextSaveContinues ==
  \A on \in Both : \A s \in Opened(on) :
    pending # <<>> /\ Asks(1, "save", on, s) => Continues(Items(on, s), on, s)

\* Products cost what they name, but for those of screens that ticks were left to.
Named(list, left) ==
  \A i \in DOMAIN list : list[i].type \in Kinds =>
    \/ list[i].valueUn = Price[list[i].title] + Charges(list[i].additionals)
    \/ list[i].id \in left /\ list[i].additionals = {}

AllNamed == Named(data, leftover) /\ \A on \in Both : \A s \in Opened(on) : Named(Items(on, s), leftover)

\* What the screen would charge beyond the product is ticked, or ticks were left
\* to it and it names none.
TicksAreNamed ==
  IF top = 0 THEN swiped \/ checked = {}
  ELSE \/ states[top].additionals = checked /\ states[top].additionalsValue = Charges(checked)
       \/ states[top].additionals = {} /\ top \in leftover

SaveIsDue(on, s) == \E i \in DOMAIN pending : Asks(i, "save", on, s)

\* What screen s added is saved, or in its list and about to be.
AddedIsSafe(s) ==
  \/ s \in IdsOf(data)
  \/ s \in LoadedOf("product") /\ SaveIsDue("product", s) /\ s \in IdsOf(Items("product", s))

AddedWillBeSaved == \A s \in added \ early : AddedIsSafe(s)

DrinksAt(list, s) == {i \in DOMAIN list : list[i].type = "drink" /\ list[i].of = s}
DrinksOf(list, s) == Entered(list, DrinksAt(list, s))

\* The drinks of screen s are the list l.
ChosenIsSafe(s, l) ==
  IF SaveIsDue("drinks", s)
  THEN s \in LoadedOf("drinks") /\ DrinksOf(Items("drinks", s), s) = l
  ELSE DrinksOf(data, s) = l

ChosenWillBeSaved == \A s \in Screens \ drinkEarly : ChosenIsSafe(s, chosen[s])

\* The rows of the drink screen on top count what its menu counts, or less once
\* they were made anew.
Counted(m) ==
  /\ rows \in [1 .. Options[m] -> 0 .. MaxUnits]
  /\ \A o \in 1 .. Options[m] : rows[o] <= drinkUnits[m][o] /\ (~recreated => rows[o] = drinkUnits[m][o])
  /\ drinkValue = Drinks!Value(m, drinkUnits[m])

RowsAgree ==
  /\ DOMAIN drinkUnits = Menus
  /\ drinkTop # 0 => Counted(drinkStates[drinkTop].menu)

Copies ==
  /\ pending \in Seq(Task \cup Drinks!Task) /\ data \in Seq(Entries)
  /\ \A on \in Both : /\ Opened(on) \subseteq Screens
                      /\ \A s \in Opened(on) : Items(on, s) \in Seq(Entries)

Tasks == TasksAreOfScreens /\ TasksAreGrouped /\ LoadsAreDue
Lists == TopIsFresh /\ SavedByLoaded /\ UnloadedIsOwn /\ NextSaveContinues
Core  == Copies /\ Tasks /\ Lists

-----------------------------------------------------------------------------
(* What the actions do to the tasks, the copies and the saved cart *)

OthersKept(on0, s0) ==
  \A on \in Both : \A s \in Opened(on) : on # on0 \/ s # s0 => Items(on, s)' = Items(on, s)

Idles ==
  /\ pending' = pending /\ data' = data /\ hasData' = hasData
  /\ \A on \in Both : /\ Opened(on)' = Opened(on) /\ LoadedOf(on)' = LoadedOf(on)
                      /\ TopOf(on)' = TopOf(on) \/ TopOf(on)' = 0
                      /\ \A s \in Opened(on) : Items(on, s)' = Items(on, s)

Opens(on0, s0) ==
  /\ pending' = Append(pending, [on |-> on0, call |-> "load", of |-> s0])
  /\ data' = data /\ hasData' = hasData
  /\ s0 \in Screens \ Opened(on0) /\ Items(on0, s0)' = <<>> /\ OthersKept(on0, s0)
  /\ \A on \in Both : /\ Opened(on)' = IF on = on0 THEN Opened(on) \cup {s0} ELSE Opened(on)
                      /\ LoadedOf(on)' = LoadedOf(on)
                      /\ TopOf(on) = 0 /\ TopOf(on)' = IF on = on0 THEN s0 ELSE 0

Loads(on0, s0) ==
  /\ pending # <<>> /\ Asks(1, "load", on0, s0) /\ pending' = Tail(pending)
  /\ data' = data /\ hasData' = hasData
  /\ Items(on0, s0)' = (IF hasData THEN data ELSE Items(on0, s0)) /\ OthersKept(on0, s0)
  /\ \A on \in Both : /\ Opened(on)' = Opened(on) /\ TopOf(on)' = TopOf(on)
                      /\ LoadedOf(on)' = IF on = on0 THEN LoadedOf(on) \cup {s0} ELSE LoadedOf(on)

Saves(on0, s0) ==
  /\ pending # <<>> /\ Asks(1, "save", on0, s0) /\ pending' = Tail(pending)
  /\ data' = Items(on0, s0) /\ hasData' = TRUE
  /\ \A on \in Both : /\ Opened(on)' = Opened(on) /\ LoadedOf(on)' = LoadedOf(on) /\ TopOf(on)' = TopOf(on)
                      /\ \A s \in Opened(on) : Items(on, s)' = Items(on, s)

SavesOf(on0, s0, w) == [k \in 1 .. Len(w) |-> [on |-> on0, call |-> "save", of |-> s0]]

Adds(on0, s0, w) ==
  /\ w \in Seq(Entries) /\ IsOwn(w, on0, s0) /\ Named(w, leftover)
  /\ pending' = pending \o SavesOf(on0, s0, w)
  /\ data' = data /\ hasData' = hasData
  /\ TopOf(on0) = s0 /\ s0 # 0 /\ Items(on0, s0)' = Items(on0, s0) \o w /\ OthersKept(on0, s0)
  /\ \A on \in Both : Opened(on)' = Opened(on) /\ LoadedOf(on)' = LoadedOf(on) /\ TopOf(on)' = 0

(* The tasks of one list at the positions of another *)

SameTask(t, u) == t.on = u.on /\ t.call = u.call /\ t.of = u.of

\* After a task has run the others have moved up.
Shifted ==
  /\ Len(pending) \in Nat \ {0} /\ Len(pending') = Len(pending) - 1
  /\ DOMAIN pending = 1 .. Len(pending) /\ DOMAIN pending' = 1 .. Len(pending')
  /\ \A i \in DOMAIN pending' : pending'[i] = pending[i + 1]

LEMMA TailShifts ==
  ASSUME Copies, pending # <<>>, pending' = Tail(pending)
  PROVE  Shifted
<1>1. pending \in Seq(Task \cup Drinks!Task)
  BY DEF Copies
<1>2. Len(pending) \in Nat \ {0} /\ Len(Tail(pending)) = Len(pending) - 1
  BY <1>1
<1>3. DOMAIN pending = 1 .. Len(pending) /\ DOMAIN Tail(pending) = 1 .. Len(Tail(pending))
  BY <1>1
<1>4. \A i \in 1 .. Len(pending) - 1 : Tail(pending)[i] = pending[i + 1]
  BY <1>1
<1> QED
  BY <1>2, <1>3, <1>4 DEF Shifted

\* Tasks are queued behind those that wait.
Queued(on0, s0, call, n) ==
  /\ Len(pending) \in Nat /\ n \in Nat /\ Len(pending') = Len(pending) + n
  /\ DOMAIN pending = 1 .. Len(pending) /\ DOMAIN pending' = 1 .. Len(pending')
  /\ \A i \in DOMAIN pending : pending'[i] = pending[i]
  /\ \A i \in DOMAIN pending' : i > Len(pending) =>
       pending'[i].on = on0 /\ pending'[i].call = call /\ pending'[i].of = s0

LEMMA AppendQueues ==
  ASSUME Copies, NEW on0, NEW s0, NEW call, pending' = Append(pending, [on |-> on0, call |-> call, of |-> s0])
  PROVE  Queued(on0, s0, call, 1)
<1> PICK t : t = [on |-> on0, call |-> call, of |-> s0]
  OBVIOUS
<1>0. t.on = on0 /\ t.call = call /\ t.of = s0
  OBVIOUS
<1> HIDE DEF Copies
<1>1. pending \in Seq(Task \cup Drinks!Task) /\ pending' = Append(pending, t)
  BY DEF Copies
<1> QED
  BY <1>0, <1>1 DEF Queued

LEMMA ConcatQueues ==
  ASSUME Copies, NEW on0, NEW s0, NEW w, w \in Seq(Entries), pending' = pending \o SavesOf(on0, s0, w)
  PROVE  Queued(on0, s0, "save", Len(w))
<1> DEFINE v == SavesOf(on0, s0, w)
<1>1. Len(w) \in Nat
  OBVIOUS
<1>2. DOMAIN v = 1 .. Len(w) /\ Len(v) = Len(w)
      /\ \A k \in 1 .. Len(w) : v[k].on = on0 /\ v[k].call = "save" /\ v[k].of = s0
  BY <1>1 DEF SavesOf
<1>3. v \in Seq(Range(v))
  BY <1>1 DEF SavesOf, Range
<1>4. pending \in Seq(Task \cup Drinks!Task) /\ pending' = pending \o v
  BY DEF Copies
<1> HIDE DEF v
<1>5. Len(pending) \in Nat /\ Len(pending') = Len(pending) + Len(w) /\ DOMAIN pending = 1 .. Len(pending)
      /\ DOMAIN pending' = 1 .. Len(pending')
  <2>1. Len(pending) \in Nat /\ DOMAIN pending = 1 .. Len(pending)
    BY <1>4
  <2>2. \E X : pending \in Seq(X) /\ v \in Seq(X)
    <3> DEFINE X == (Task \cup Drinks!Task) \cup Range(v)
    <3>1. pending \in Seq(X) /\ v \in Seq(X)
      BY <1>3, <1>4
    <3> QED
      BY <3>1
  <2>3. Len(pending') = Len(pending) + Len(v) /\ DOMAIN pending' = 1 .. Len(pending')
    BY <1>4, <2>2
  <2> QED
    BY <1>1, <1>2, <2>1, <2>3
<1>6. \A i \in DOMAIN pending : pending'[i] = pending[i]
  BY <1>3, <1>4
<1>7. \A i \in DOMAIN pending' : i > Len(pending) => i - Len(pending) \in 1 .. Len(w) /\ pending'[i] = v[i - Len(pending)]
  BY <1>1, <1>2, <1>3, <1>4, <1>5
<1> QED
  BY <1>1, <1>2, <1>5, <1>6, <1>7 DEF Queued

(* The tasks *)

LEMMA ShiftedTasks ==
  ASSUME Tasks, Shifted, \A on \in Both : Opened(on)' = Opened(on)
  PROVE  TasksAreOfScreens' /\ TasksAreGrouped'
<1>1. \A i \in DOMAIN pending' : i + 1 \in DOMAIN pending /\ pending'[i] = pending[i + 1]
  BY DEF Shifted
<1>2. \A i, j \in DOMAIN pending' : /\ i \in Int /\ j \in Int /\ (i < j => i + 1 < j + 1)
                                    /\ (j = i + 1 => j + 1 = (i + 1) + 1)
  BY DEF Shifted
<1>3. TasksAreOfScreens'
  BY <1>1 DEF Tasks, TasksAreOfScreens
<1>4. TasksAreGrouped'
  BY <1>1, <1>2 DEF Tasks, TasksAreGrouped
<1> QED
  BY <1>3, <1>4

\* After the head of the tasks, its screen has only saves.
LEMMA HeadIsAlone ==
  ASSUME Tasks, Shifted, NEW on0, NEW s0, NEW c, Asks(1, c, on0, s0)
  PROVE  /\ 1 \in DOMAIN pending /\ on0 \in Both /\ s0 \in Opened(on0)
         /\ \A i \in DOMAIN pending' : pending'[i].on = on0 /\ pending'[i].of = s0 => pending'[i].call = "save"
         /\ \A j \in DOMAIN pending' : j = 1 /\ pending'[j].call = "save" => pending'[j].on = on0 /\ pending'[j].of = s0
<1>1. 1 \in DOMAIN pending /\ \A i \in DOMAIN pending' : i + 1 \in DOMAIN pending /\ 1 < i + 1 /\ pending'[i] = pending[i + 1]
  BY DEF Shifted
<1>2. on0 \in Both /\ s0 \in Opened(on0)
  BY <1>1 DEF Tasks, TasksAreOfScreens, Asks
<1>3. \A i \in DOMAIN pending' : pending'[i].on = on0 /\ pending'[i].of = s0 => pending'[i].call = "save"
  BY <1>1 DEF Tasks, TasksAreGrouped, Asks
<1>4. \A j \in DOMAIN pending' : j = 1 /\ pending'[j].call = "save" => pending'[j].on = on0 /\ pending'[j].of = s0
  <2>1. \A j \in DOMAIN pending' : j = 1 => 2 \in DOMAIN pending /\ 2 = 1 + 1 /\ pending'[j] = pending[2]
    BY <1>1
  <2> QED
    BY <1>1, <2>1 DEF Tasks, TasksAreGrouped, Asks
<1> QED
  BY <1>1, <1>2, <1>3, <1>4

LEMMA SavedWasLoaded ==
  ASSUME Tasks, Shifted, NEW on0, NEW s0, Asks(1, "save", on0, s0)
  PROVE  s0 \in LoadedOf(on0)
<1>1. on0 \in Both /\ s0 \in Opened(on0)
  BY HeadIsAlone
<1>2. \A i \in DOMAIN pending : pending[i].on = on0 /\ pending[i].of = s0 => pending[i].call = "save"
  <2>1. \A i \in DOMAIN pending : i = 1 \/ 1 < i
    BY DEF Shifted
  <2>2. 1 \in DOMAIN pending
    BY DEF Shifted
  <2> QED
    BY <2>1, <2>2 DEF Tasks, TasksAreGrouped, Asks
<1>3. ~ \E i \in DOMAIN pending : Asks(i, "load", on0, s0)
  BY <1>2 DEF Asks
<1> QED
  BY <1>1, <1>3 DEF Tasks, LoadsAreDue

\* Which tasks remain when one has run.
LEMMA TasksRemain ==
  ASSUME Tasks, Shifted, NEW on0, NEW s0, NEW c, Asks(1, c, on0, s0), NEW on, NEW s, NEW d
  PROVE  /\ (\E i \in DOMAIN pending' : Asks(i, d, on, s)') => \E i \in DOMAIN pending : Asks(i, d, on, s)
         /\ (\E i \in DOMAIN pending : Asks(i, d, on, s)) /\ ~ (c = d /\ on0 = on /\ s0 = s)
              => \E i \in DOMAIN pending' : Asks(i, d, on, s)'
<1>1. /\ \A i \in DOMAIN pending' : i + 1 \in DOMAIN pending /\ pending'[i] = pending[i + 1]
      /\ \A i \in DOMAIN pending : i = 1 \/ (i - 1 \in DOMAIN pending' /\ pending'[i - 1] = pending[i])
  BY DEF Shifted
<1> QED
  BY <1>1 DEF Asks

LEMMA TasksAfterLoad ==
  ASSUME Copies, Tasks, NEW on0, NEW s0, Loads(on0, s0)
  PROVE  Tasks'
<1>0. Shifted
  BY TailShifts DEF Loads
<1>1. Asks(1, "load", on0, s0) /\ \A on \in Both : Opened(on)' = Opened(on)
      /\ LoadedOf(on)' = IF on = on0 THEN LoadedOf(on) \cup {s0} ELSE LoadedOf(on)
  BY DEF Loads
<1>2. TasksAreOfScreens' /\ TasksAreGrouped'
  BY <1>0, <1>1, ShiftedTasks
<1>3. /\ on0 \in Both /\ s0 \in Opened(on0)
      /\ \A i \in DOMAIN pending' : pending'[i].on = on0 /\ pending'[i].of = s0 => pending'[i].call = "save"
  BY <1>0, <1>1, HeadIsAlone
<1>4. ASSUME NEW on \in Both
      PROVE  /\ LoadedOf(on)' \subseteq Opened(on)'
             /\ \A s \in Opened(on)' : s \notin LoadedOf(on)' <=> \E i \in DOMAIN pending' : Asks(i, "load", on, s)'
  <2>1. LoadedOf(on) \subseteq Opened(on)
    BY DEF Tasks, LoadsAreDue
  <2>2. LoadedOf(on)' \subseteq Opened(on)'
    BY <1>1, <1>3, <2>1
  <2>3. ASSUME NEW s \in Opened(on)
        PROVE  s \notin LoadedOf(on)' <=> \E i \in DOMAIN pending' : Asks(i, "load", on, s)'
    <3>1. s \notin LoadedOf(on) <=> \E i \in DOMAIN pending : Asks(i, "load", on, s)
      BY DEF Tasks, LoadsAreDue
    <3>2. CASE on = on0 /\ s = s0
      <4>1. s \in LoadedOf(on)'
        BY <1>1, <3>2
      <4>2. ~ \E i \in DOMAIN pending' : Asks(i, "load", on, s)'
        BY <1>3, <3>2 DEF Asks
      <4> QED
        BY <4>1, <4>2
    <3>3. CASE ~ (on = on0 /\ s = s0)
      <4>1. s \notin LoadedOf(on)' <=> s \notin LoadedOf(on)
        BY <1>1, <3>3
      <4>2. (\E i \in DOMAIN pending' : Asks(i, "load", on, s)') <=> \E i \in DOMAIN pending : Asks(i, "load", on, s)
        BY <1>0, <1>1, <3>3, TasksRemain
      <4> QED
        BY <3>1, <4>1, <4>2
    <3> QED
      BY <3>2, <3>3
  <2> QED
    BY <1>1, <2>2, <2>3
<1>5. LoadsAreDue'
  BY <1>4 DEF LoadsAreDue
<1> QED
  BY <1>2, <1>5 DEF Tasks

LEMMA TasksAfterSave ==
  ASSUME Copies, Tasks, NEW on0, NEW s0, Saves(on0, s0)
  PROVE  Tasks'
<1>0. Shifted
  BY TailShifts DEF Saves
<1>1. Asks(1, "save", on0, s0) /\ \A on \in Both : Opened(on)' = Opened(on) /\ LoadedOf(on)' = LoadedOf(on)
  BY DEF Saves
<1>2. TasksAreOfScreens' /\ TasksAreGrouped'
  BY <1>0, <1>1, ShiftedTasks
<1>3. ASSUME NEW on \in Both, NEW s
      PROVE  (\E i \in DOMAIN pending' : Asks(i, "load", on, s)') <=> \E i \in DOMAIN pending : Asks(i, "load", on, s)
  BY <1>0, <1>1, TasksRemain
<1>4. LoadsAreDue'
  BY <1>1, <1>3 DEF Tasks, LoadsAreDue
<1> QED
  BY <1>2, <1>4 DEF Tasks

LEMMA TasksAfterOpen ==
  ASSUME Copies, Tasks, NEW on0 \in Both, NEW s0, Opens(on0, s0)
  PROVE  Tasks'
<1>0. Queued(on0, s0, "load", 1)
  BY AppendQueues DEF Opens
<1>1. s0 \notin Opened(on0) /\ \A on \in Both : LoadedOf(on)' = LoadedOf(on)
      /\ Opened(on)' = IF on = on0 THEN Opened(on) \cup {s0} ELSE Opened(on)
  BY DEF Opens
<1>2. \A i \in DOMAIN pending' :
        \/ i \in DOMAIN pending /\ pending'[i] = pending[i]
        \/ i = Len(pending) + 1 /\ pending'[i].on = on0 /\ pending'[i].call = "load" /\ pending'[i].of = s0
  BY <1>0 DEF Queued
<1>3. \A i \in DOMAIN pending : pending[i].on \in Both /\ pending[i].call \in {"load", "save"} /\ pending[i].of \in Opened(pending[i].on)
  BY DEF Tasks, TasksAreOfScreens
<1>4. TasksAreOfScreens'
  BY <1>1, <1>2, <1>3 DEF TasksAreOfScreens
<1>5. TasksAreGrouped'
  <2>1. \A i, j \in DOMAIN pending' : i \in Int /\ j \in Int /\ (i < j /\ j \in DOMAIN pending => i \in DOMAIN pending)
        /\ (i < j => i \in DOMAIN pending) /\ (j = i + 1 => i < j)
    BY <1>0 DEF Queued
  <2>2. \A i \in DOMAIN pending : ~ (pending[i].on = on0 /\ pending[i].of = s0)
    BY <1>1, <1>3
  <2>3. ASSUME NEW i \in DOMAIN pending', NEW j \in DOMAIN pending', i < j,
               pending'[i].on = pending'[j].on, pending'[i].of = pending'[j].of
        PROVE  pending'[j].call = "save"
    <3>1. i \in DOMAIN pending /\ pending'[i] = pending[i]
      BY <2>1, <2>3, <1>2, <1>0 DEF Queued
    <3>2. j \in DOMAIN pending /\ pending'[j] = pending[j]
      BY <3>1, <2>2, <2>3, <1>2
    <3> QED
      BY <3>1, <3>2, <2>3 DEF Tasks, TasksAreGrouped
  <2>4. ASSUME NEW i \in DOMAIN pending', NEW j \in DOMAIN pending', j = i + 1, pending'[j].call = "save"
        PROVE  pending'[i].on = pending'[j].on /\ pending'[i].of = pending'[j].of
    <3>1. j \in DOMAIN pending /\ pending'[j] = pending[j]
      BY <2>4, <1>2
    <3>2. i \in DOMAIN pending /\ pending'[i] = pending[i]
      BY <2>1, <2>4, <3>1, <1>0 DEF Queued
    <3> QED
      BY <3>1, <3>2, <2>4 DEF Tasks, TasksAreGrouped
  <2> QED
    BY <2>3, <2>4 DEF TasksAreGrouped
<1>6. LoadsAreDue'
  <2>1. Len(pending) + 1 \in DOMAIN pending' /\ \A i \in DOMAIN pending : i \in DOMAIN pending' /\ pending'[i] = pending[i]
    BY <1>0 DEF Queued
  <2>2. ASSUME NEW on \in Both, NEW s
        PROVE  (\E i \in DOMAIN pending' : Asks(i, "load", on, s)') <=>
                 \/ \E i \in DOMAIN pending : Asks(i, "load", on, s)
                 \/ on = on0 /\ s = s0
    <3>1. Len(pending) + 1 \notin DOMAIN pending
      BY <1>0 DEF Queued
    <3> QED
      BY <2>1, <3>1, <1>2 DEF Asks
  <2>3. \A on \in Both : LoadedOf(on) \subseteq Opened(on)
    BY DEF Tasks, LoadsAreDue
  <2>4. ASSUME NEW on \in Both, NEW s \in Opened(on)'
        PROVE  s \notin LoadedOf(on)' <=> \E i \in DOMAIN pending' : Asks(i, "load", on, s)'
    <3>1. CASE on = on0 /\ s = s0
      BY <1>1, <2>2, <2>3, <3>1
    <3>2. CASE ~ (on = on0 /\ s = s0)
      <4>1. s \in Opened(on)
        BY <1>1, <3>2
      <4>2. s \notin LoadedOf(on) <=> \E i \in DOMAIN pending : Asks(i, "load", on, s)
        BY <4>1 DEF Tasks, LoadsAreDue
      <4> QED
        BY <1>1, <2>2, <3>2, <4>2
    <3> QED
      BY <3>1, <3>2
  <2>5. \A on \in Both : LoadedOf(on)' \subseteq Opened(on)'
    BY <1>1, <2>3
  <2> QED
    BY <2>4, <2>5 DEF LoadsAreDue
<1> QED
  BY <1>4, <1>5, <1>6 DEF Tasks

LEMMA TasksAfterAdd ==
  ASSUME Copies, Tasks, TopIsFresh, NEW on0 \in Both, NEW s0, NEW w, Adds(on0, s0, w)
  PROVE  Tasks'
<1>0. Queued(on0, s0, "save", Len(w))
  BY ConcatQueues DEF Adds
<1>1. s0 \in Opened(on0) /\ \A on \in Both : LoadedOf(on)' = LoadedOf(on) /\ Opened(on)' = Opened(on)
  BY DEF Adds, TopIsFresh
<1>2. /\ \A i \in DOMAIN pending : i \in DOMAIN pending' /\ pending'[i] = pending[i]
      /\ \A i \in DOMAIN pending' : i \notin DOMAIN pending =>
           pending'[i].on = on0 /\ pending'[i].call = "save" /\ pending'[i].of = s0
  BY <1>0 DEF Queued
<1>3. \A i \in DOMAIN pending : pending[i].on \in Both /\ pending[i].call \in {"load", "save"} /\ pending[i].of \in Opened(pending[i].on)
  BY DEF Tasks, TasksAreOfScreens
<1>4. TasksAreOfScreens'
  <2>1. \A i \in DOMAIN pending' : \/ i \in DOMAIN pending /\ pending'[i] = pending[i]
                                   \/ pending'[i].on = on0 /\ pending'[i].call = "save" /\ pending'[i].of = s0
    BY <1>2
  <2> QED
    BY <1>1, <1>3, <2>1 DEF TasksAreOfScreens
<1>5. TasksAreGrouped'
  <2>1. \A i, j \in DOMAIN pending' : i \in Int /\ j \in Int /\ (i < j /\ j \in DOMAIN pending => i \in DOMAIN pending)
        /\ (j = i + 1 => i < j) /\ (j = i + 1 /\ j \notin DOMAIN pending /\ i \in DOMAIN pending => i = Len(pending))
    BY <1>0 DEF Queued
  <2>2. ASSUME NEW i \in DOMAIN pending', NEW j \in DOMAIN pending', i < j,
               pending'[i].on = pending'[j].on, pending'[i].of = pending'[j].of
        PROVE  pending'[j].call = "save"
    <3>1. CASE j \notin DOMAIN pending
      BY <3>1, <1>2
    <3>2. CASE j \in DOMAIN pending
      <4>1. i \in DOMAIN pending /\ pending'[i] = pending[i] /\ pending'[j] = pending[j]
        BY <3>2, <2>1, <2>2, <1>2
      <4> QED
        BY <4>1, <3>2, <2>2 DEF Tasks, TasksAreGrouped
    <3> QED
      BY <3>1, <3>2
  <2>3. ASSUME NEW i \in DOMAIN pending', NEW j \in DOMAIN pending', j = i + 1, pending'[j].call = "save"
        PROVE  pending'[i].on = pending'[j].on /\ pending'[i].of = pending'[j].of
    <3>1. CASE j \in DOMAIN pending
      <4>1. i \in DOMAIN pending /\ pending'[i] = pending[i] /\ pending'[j] = pending[j]
        BY <3>1, <2>1, <2>3, <1>2
      <4> QED
        BY <4>1, <3>1, <2>3 DEF Tasks, TasksAreGrouped
    <3>2. CASE j \notin DOMAIN pending /\ i \notin DOMAIN pending
      BY <3>2, <1>2
    <3>3. CASE j \notin DOMAIN pending /\ i \in DOMAIN pending
      <4>1. i = Len(pending) /\ pending # <<>>
        BY <3>3, <2>1, <2>3
      <4>2. TopOf(on0) = s0 /\ s0 # 0
        BY DEF Adds
      <4>3. pending[i].on = on0 /\ pending[i].of = s0
        BY <4>1, <4>2 DEF TopIsFresh, Asks
      <4> QED
        BY <4>3, <3>3, <1>2
    <3> QED
      BY <3>1, <3>2, <3>3
  <2> QED
    BY <2>2, <2>3 DEF TasksAreGrouped
<1>6. LoadsAreDue'
  <2>1. ASSUME NEW on \in Both, NEW s
        PROVE  (\E i \in DOMAIN pending' : Asks(i, "load", on, s)') <=> \E i \in DOMAIN pending : Asks(i, "load", on, s)
    BY <1>2 DEF Asks
  <2> QED
    BY <1>1, <2>1 DEF Tasks, LoadsAreDue
<1> QED
  BY <1>4, <1>5, <1>6 DEF Tasks

LEMMA TasksAfterIdle ==
  ASSUME Tasks, Idles
  PROVE  Tasks'
<1>1. pending' = pending /\ \A on \in Both : LoadedOf(on)' = LoadedOf(on) /\ Opened(on)' = Opened(on)
  BY DEF Idles
<1>2. TasksAreOfScreens'
  BY <1>1 DEF Tasks, TasksAreOfScreens
<1>3. TasksAreGrouped'
  BY <1>1 DEF Tasks, TasksAreGrouped
<1>4. LoadsAreDue'
  BY <1>1 DEF Tasks, LoadsAreDue, Asks
<1> QED
  BY <1>2, <1>3, <1>4 DEF Tasks

-----------------------------------------------------------------------------
(* The copies of the cart and the saved one *)

LEMMA CopiesKept ==
  ASSUME Copies, NEW on0 \in Both, NEW s0,
         Idles \/ Opens(on0, s0) \/ (Loads(on0, s0) /\ s0 \in Opened(on0)) \/ (Saves(on0, s0) /\ s0 \in Opened(on0))
               \/ (\E w : Adds(on0, s0, w) /\ s0 \in Opened(on0))
  PROVE  data' \in Seq(Entries) /\ \A on \in Both : Opened(on)' \subseteq Screens /\ \A s \in Opened(on)' : Items(on, s)' \in Seq(Entries)
<1>0. /\ data \in Seq(Entries)
      /\ \A on \in Both : Opened(on) \subseteq Screens /\ \A s \in Opened(on) : Items(on, s) \in Seq(Entries)
  BY DEF Copies
<1>1. CASE Idles
  BY <1>0, <1>1 DEF Idles
<1>2. CASE Opens(on0, s0)
  <2>1. <<>> \in Seq(Entries)
    OBVIOUS
  <2>2. data' = data /\ s0 \in Screens /\ Items(on0, s0)' = <<>> /\ OthersKept(on0, s0)
        /\ \A on \in Both : Opened(on)' = IF on = on0 THEN Opened(on) \cup {s0} ELSE Opened(on)
    BY <1>2 DEF Opens
  <2>3. \A on \in Both : \A s \in Opened(on)' : (on = on0 /\ s = s0) \/ (s \in Opened(on) /\ (on # on0 \/ s # s0))
    BY <2>2
  <2> QED
    BY <1>0, <2>1, <2>2, <2>3 DEF OthersKept
<1>3. CASE Loads(on0, s0) /\ s0 \in Opened(on0)
  <2>1. data' = data /\ Items(on0, s0)' \in {data, Items(on0, s0)} /\ OthersKept(on0, s0)
        /\ \A on \in Both : Opened(on)' = Opened(on)
    BY <1>3 DEF Loads
  <2>2. Items(on0, s0)' \in Seq(Entries)
    BY <1>0, <1>3, <2>1
  <2> QED
    BY <1>0, <2>1, <2>2 DEF OthersKept
<1>4. CASE Saves(on0, s0) /\ s0 \in Opened(on0)
  BY <1>0, <1>4 DEF Saves
<1>5. ASSUME NEW w, Adds(on0, s0, w) /\ s0 \in Opened(on0)
      PROVE  data' \in Seq(Entries) /\ \A on \in Both : Opened(on)' \subseteq Screens /\ \A s \in Opened(on)' : Items(on, s)' \in Seq(Entries)
  <2>1. data' = data /\ Items(on0, s0)' = Items(on0, s0) \o w /\ w \in Seq(Entries) /\ OthersKept(on0, s0)
        /\ \A on \in Both : Opened(on)' = Opened(on)
    BY <1>5 DEF Adds
  <2>2. \A l \in Seq(Entries), v \in Seq(Entries) : l \o v \in Seq(Entries)
    OBVIOUS
  <2>3. Items(on0, s0)' \in Seq(Entries)
    BY <1>0, <1>5, <2>1, <2>2
  <2> QED
    BY <1>0, <2>1, <2>3 DEF OthersKept
<1> QED
  BY <1>1, <1>2, <1>3, <1>4, <1>5

\* An entry is of one screen.
LEMMA OneOwner ==
  ASSUME NEW e, NEW on1 \in Both, NEW s1, NEW on2 \in Both, NEW s2, IsOf(e, on1, s1), IsOf(e, on2, s2)
  PROVE  on1 = on2 /\ s1 = s2
  BY DEF IsOf, Both, Kinds

LEMMA ListsAfterIdle ==
  ASSUME Core, Idles
  PROVE  Lists'
<1>1. /\ pending' = pending /\ data' = data /\ hasData' = hasData
      /\ \A on \in Both : /\ Opened(on)' = Opened(on) /\ LoadedOf(on)' = LoadedOf(on)
                          /\ TopOf(on)' = TopOf(on) \/ TopOf(on)' = 0
                          /\ \A s \in Opened(on) : Items(on, s)' = Items(on, s)
  BY DEF Idles
<1>2. TopIsFresh'
  <2>1. \A on \in Both : TopOf(on)' # 0 => TopOf(on)' = TopOf(on) /\ TopOf(on) \in Opened(on)
    BY <1>1 DEF Core, Lists, TopIsFresh
  <2>2. \A on \in Both : TopOf(on)' # 0 => Items(on, TopOf(on))' = Items(on, TopOf(on))
    BY <1>1, <2>1
  <2> QED
    BY <1>1, <2>1, <2>2 DEF Core, Lists, TopIsFresh, Asks
<1>3. SavedByLoaded'
  <2>1. 0 \notin Screens
    BY DEF Screens
  <2> QED
    BY <1>1, <2>1 DEF Core, Lists, SavedByLoaded
<1>4. UnloadedIsOwn'
  BY <1>1 DEF Core, Lists, UnloadedIsOwn
<1>5. NextSaveContinues'
  BY <1>1 DEF Core, Lists, NextSaveContinues, Continues, Asks
<1> QED
  BY <1>2, <1>3, <1>4, <1>5 DEF Lists

LEMMA ListsAfterOpen ==
  ASSUME Core, NEW on0 \in Both, NEW s0, Opens(on0, s0)
  PROVE  Lists'
<1>0. Queued(on0, s0, "load", 1)
  BY AppendQueues DEF Opens, Core
<1>1. /\ data' = data /\ hasData' = hasData /\ s0 \in Screens \ Opened(on0)
      /\ Items(on0, s0)' = <<>> /\ OthersKept(on0, s0)
      /\ \A on \in Both : /\ Opened(on)' = IF on = on0 THEN Opened(on) \cup {s0} ELSE Opened(on)
                          /\ LoadedOf(on)' = LoadedOf(on)
                          /\ TopOf(on) = 0 /\ TopOf(on)' = IF on = on0 THEN s0 ELSE 0
  BY DEF Opens
<1>2. TopIsFresh'
  <2>1. /\ Len(pending') \in DOMAIN pending' /\ pending' # <<>>
        /\ pending'[Len(pending')].on = on0 /\ pending'[Len(pending')].call = "load" /\ pending'[Len(pending')].of = s0
    BY <1>0 DEF Queued
  <2>2. \E on \in Both : TopOf(on)' = 0
    BY <1>1 DEF Both
  <2>3. ASSUME NEW on \in Both, TopOf(on)' # 0
        PROVE  /\ TopOf(on)' \in Opened(on)' /\ Asks(Len(pending), "load", on, TopOf(on))'
               /\ Items(on, TopOf(on))' = <<>>
    <3>1. on = on0 /\ TopOf(on0)' = s0
      BY <1>1, <2>3
    <3>2. Items(on, TopOf(on))' = Items(on0, s0)'
      BY <3>1
    <3> QED
      BY <1>1, <2>1, <3>1, <3>2 DEF Asks
  <2> QED
    BY <2>1, <2>2, <2>3 DEF TopIsFresh
<1>3. SavedByLoaded'
  <2>1. \A i \in DOMAIN data : \A on \in Both : \A s \in Screens : IsOf(data[i], on, s) => s \in LoadedOf(on)
    BY DEF Core, Lists, SavedByLoaded
  <2>2. \A on \in Both : \A s \in Screens : s \in LoadedOf(on) => s # TopOf(on)'
    <3>1. \A on \in Both : LoadedOf(on) \subseteq Opened(on)
      BY DEF Core, Tasks, LoadsAreDue
    <3>2. 0 \notin Screens
      BY DEF Screens
    <3> QED
      BY <1>1, <3>1, <3>2
  <2> QED
    BY <1>1, <2>1, <2>2 DEF Core, Lists, SavedByLoaded
<1>4. UnloadedIsOwn'
  <2>1. IsOwn(<<>>, on0, s0)
    BY OptionsBound DEF IsOwn
  <2>2. \A on \in Both : \A s \in Opened(on)' :
          (on = on0 /\ s = s0) \/ (s \in Opened(on) /\ Items(on, s)' = Items(on, s))
    BY <1>1 DEF OthersKept
  <2> QED
    BY <1>1, <2>1, <2>2 DEF Core, Lists, UnloadedIsOwn
<1>5. NextSaveContinues'
  <2>1. ASSUME NEW on \in Both, NEW s \in Opened(on)', pending' # <<>>, Asks(1, "save", on, s)'
        PROVE  pending # <<>> /\ Asks(1, "save", on, s) /\ s \in Opened(on) /\ Items(on, s)' = Items(on, s)
    <3>1. 1 \in DOMAIN pending' /\ (1 \notin DOMAIN pending => pending'[1].call = "load")
          /\ (1 \in DOMAIN pending => pending'[1] = pending[1] /\ pending # <<>>)
      BY <1>0 DEF Queued
    <3>2. 1 \in DOMAIN pending /\ pending # <<>> /\ Asks(1, "save", on, s)
      BY <2>1, <3>1 DEF Asks
    <3>3. s \in Opened(on)
      BY <3>2 DEF Core, Tasks, TasksAreOfScreens, Asks
    <3>4. on # on0 \/ s # s0
      BY <1>1, <3>3
    <3> QED
      BY <1>1, <3>2, <3>3, <3>4 DEF OthersKept
  <2>2. \A l, on, s : Continues(l, on, s) => (data' = data => Continues(l, on, s)')
    BY DEF Continues
  <2>3. ASSUME NEW on \in Both, NEW s \in Opened(on)', pending' # <<>>, Asks(1, "save", on, s)'
        PROVE  Continues(Items(on, s), on, s)'
    <3>1. Continues(Items(on, s), on, s) /\ Items(on, s)' = Items(on, s)
      BY <2>1, <2>3 DEF Core, Lists, NextSaveContinues
    <3> QED
      BY <1>1, <3>1 DEF Continues
  <2> QED
    BY <2>3 DEF NextSaveContinues
<1> QED
  BY <1>2, <1>3, <1>4, <1>5 DEF Lists

LEMMA ListsAfterLoad ==
  ASSUME Core, NEW on0 \in Both, NEW s0, Loads(on0, s0)
  PROVE  Lists'
<1>0. Shifted
  BY TailShifts DEF Loads, Core
<1>1. /\ pending # <<>> /\ Asks(1, "load", on0, s0) /\ data' = data /\ hasData' = hasData
      /\ Items(on0, s0)' = (IF hasData THEN data ELSE Items(on0, s0)) /\ OthersKept(on0, s0)
      /\ \A on \in Both : /\ Opened(on)' = Opened(on) /\ TopOf(on)' = TopOf(on)
                          /\ LoadedOf(on)' = IF on = on0 THEN LoadedOf(on) \cup {s0} ELSE LoadedOf(on)
  BY DEF Loads
<1>2. /\ 1 \in DOMAIN pending /\ s0 \in Opened(on0)
      /\ \A i \in DOMAIN pending' : pending'[i].on = on0 /\ pending'[i].of = s0 => pending'[i].call = "save"
      /\ \A j \in DOMAIN pending' : j = 1 /\ pending'[j].call = "save" => pending'[j].on = on0 /\ pending'[j].of = s0
  BY <1>0, <1>1, HeadIsAlone DEF Core
<1>3. s0 \notin LoadedOf(on0) /\ IsOwn(Items(on0, s0), on0, s0)
  BY <1>1, <1>2 DEF Core, Tasks, LoadsAreDue, Lists, UnloadedIsOwn
<1>4. ~ hasData => data = <<>>
  BY DEF Core, Lists, SavedByLoaded
<1>5. TopIsFresh'
  <2>1. \A on \in Both : TopOf(on) # 0 =>
          TopOf(on) \in Opened(on) /\ Asks(Len(pending), "load", on, TopOf(on)) /\ Items(on, TopOf(on)) = <<>>
    BY <1>1 DEF Core, Lists, TopIsFresh
  <2>2. \E on \in Both : TopOf(on)' = 0
    BY <1>1 DEF Core, Lists, TopIsFresh
  <2>3. ASSUME NEW on \in Both, TopOf(on) # 0, pending' = <<>>
        PROVE  TopOf(on)' \in LoadedOf(on)' /\ Items(on, TopOf(on))' = data'
    <3>1. Len(pending) = 1
      BY <1>0, <2>3 DEF Shifted
    <3>2. on = on0 /\ TopOf(on) = s0
      BY <1>1, <2>1, <2>3, <3>1 DEF Asks
    <3>3. Items(on0, s0)' = data
      BY <1>1, <1>4, <2>1, <2>3, <3>2
    <3>4. Items(on, TopOf(on))' = Items(on0, s0)'
      BY <1>1, <3>2
    <3> QED
      BY <1>1, <3>2, <3>3, <3>4
  <2>4. ASSUME NEW on \in Both, TopOf(on) # 0, pending' # <<>>
        PROVE  Asks(Len(pending), "load", on, TopOf(on))' /\ Items(on, TopOf(on))' = <<>>
    <3>1. Len(pending') \in DOMAIN pending' /\ pending'[Len(pending')] = pending[Len(pending)]
      <4>1. Len(pending') # 0
        <5>1. Len(pending') = 0 => pending' = <<>>
          <6>1. pending \in Seq(Task \cup Drinks!Task)
            BY DEF Core, Copies
          <6>2. pending' \in Seq(Task \cup Drinks!Task)
            BY <6>1, <1>1 DEF Loads
          <6> QED
            BY <6>2
        <5> QED
          BY <5>1, <2>4
      <4> QED
        BY <4>1, <1>0 DEF Shifted
    <3>2. Asks(Len(pending), "load", on, TopOf(on))'
      BY <1>1, <2>1, <2>4, <3>1 DEF Asks
    <3>3. on # on0 \/ TopOf(on) # s0
      <4>1. pending'[Len(pending')].call = "load" /\ pending'[Len(pending')].on = on /\ pending'[Len(pending')].of = TopOf(on)
        BY <2>1, <2>4, <3>1 DEF Asks
      <4> QED
        BY <1>2, <3>1, <4>1
    <3>4. Items(on, TopOf(on))' = Items(on, TopOf(on))
      <4> PICK t : t = TopOf(on)
        OBVIOUS
      <4>1. t \in Opened(on) /\ (on # on0 \/ t # s0) /\ TopOf(on)' = t
        BY <1>1, <2>1, <2>4, <3>3
      <4>2. Items(on, t)' = Items(on, t)
        BY <1>1, <4>1 DEF OthersKept
      <4> QED
        BY <4>1, <4>2
    <3> QED
      BY <2>1, <2>4, <3>2, <3>4
  <2> QED
    BY <1>1, <2>1, <2>2, <2>3, <2>4 DEF TopIsFresh
<1>6. SavedByLoaded'
  <2>1. \A on \in Both : LoadedOf(on) \subseteq LoadedOf(on)'
    BY <1>1
  <2> QED
    BY <1>1, <2>1 DEF Core, Lists, SavedByLoaded
<1>7. UnloadedIsOwn'
  <2>1. \A on \in Both : \A s \in Opened(on) : s \notin LoadedOf(on)' =>
          s \notin LoadedOf(on) /\ Items(on, s)' = Items(on, s)
    BY <1>1 DEF OthersKept
  <2> QED
    BY <1>1, <2>1 DEF Core, Lists, UnloadedIsOwn
<1>8. NextSaveContinues'
  <2>1. ASSUME NEW on \in Both, NEW s \in Opened(on)', pending' # <<>>, Asks(1, "save", on, s)'
        PROVE  Continues(Items(on, s), on, s)'
    <3>1. 1 \in DOMAIN pending'
      BY <1>0, <2>1 DEF Shifted
    <3>2. on = on0 /\ s = s0
      BY <1>2, <2>1, <3>1 DEF Asks
    <3>3. CASE hasData
      BY <1>1, <3>2, <3>3 DEF Continues
    <3>4. CASE ~ hasData
      <4>1. data = <<>> /\ DOMAIN data = {} /\ Len(data) = 0
        BY <1>4, <3>4
      <4>2. Items(on0, s0)' = Items(on0, s0) /\ Items(on0, s0) \in Seq(Entries)
        BY <1>1, <1>2, <3>4 DEF Core, Copies
      <4>3. Len(Items(on0, s0)) \in 0 .. 0 + Drinks!MaxOptions
        BY <4>2, <1>3, OptionsBound DEF IsOwn
      <4> QED
        BY <1>1, <1>3, <3>2, <4>1, <4>2, <4>3 DEF Continues, IsOwn
    <3> QED
      BY <3>3, <3>4
  <2> QED
    BY <2>1 DEF NextSaveContinues
<1> QED
  BY <1>5, <1>6, <1>7, <1>8 DEF Lists

LEMMA NextSaveIs ==
  ASSUME Core, NEW on0, NEW s0, Saves(on0, s0)
  PROVE  /\ on0 \in Both /\ s0 \in Opened(on0) /\ s0 \in Screens /\ s0 \in LoadedOf(on0) /\ s0 # TopOf(on0)
         /\ Continues(Items(on0, s0), on0, s0) /\ Shifted /\ data' = Items(on0, s0)
<1>0. Shifted /\ pending # <<>> /\ Asks(1, "save", on0, s0) /\ data' = Items(on0, s0)
  BY TailShifts DEF Saves, Core
<1>1. on0 \in Both /\ s0 \in Opened(on0) /\ s0 \in LoadedOf(on0)
  BY <1>0, HeadIsAlone, SavedWasLoaded DEF Core
<1>2. s0 \in Screens /\ s0 # 0
  BY <1>1 DEF Core, Copies, Screens
<1>3. ~ \E i \in DOMAIN pending : Asks(i, "load", on0, s0)
  BY <1>1 DEF Core, Tasks, LoadsAreDue
<1>4. s0 # TopOf(on0)
  <2>1. TopOf(on0) = s0 => Asks(Len(pending), "load", on0, s0)
    BY <1>0, <1>1, <1>2 DEF Core, Lists, TopIsFresh
  <2>2. Len(pending) \in DOMAIN pending
    BY <1>0 DEF Shifted
  <2> QED
    BY <1>3, <2>1, <2>2
<1>5. Continues(Items(on0, s0), on0, s0)
  BY <1>0, <1>1 DEF Core, Lists, NextSaveContinues
<1> QED
  BY <1>0, <1>1, <1>2, <1>4, <1>5

\* What a list that continues the saved one has at its positions.
LEMMA ContinuesIs ==
  ASSUME data \in Seq(Entries), NEW l \in Seq(Entries), NEW on0, NEW s0, Continues(l, on0, s0)
  PROVE  /\ DOMAIN data \subseteq DOMAIN l /\ \A i \in DOMAIN data : l[i] = data[i]
         /\ \A i \in DOMAIN l : i \notin DOMAIN data => IsOf(l[i], on0, s0)
<1>1. DOMAIN data = 1 .. Len(data) /\ DOMAIN l = 1 .. Len(l) /\ Len(data) \in Nat /\ Len(l) \in Nat
  OBVIOUS
<1>2. l = data \/ Len(data) <= Len(l)
  BY <1>1, OptionsBound DEF Continues
<1>3. DOMAIN data \subseteq DOMAIN l
  BY <1>1, <1>2
<1> QED
  BY <1>3 DEF Continues

LEMMA ListsAfterSave ==
  ASSUME Core, NEW on0 \in Both, NEW s0, Saves(on0, s0)
  PROVE  Lists'
<1>1. /\ pending # <<>> /\ Asks(1, "save", on0, s0) /\ pending' = Tail(pending)
      /\ data' = Items(on0, s0) /\ hasData' = TRUE
      /\ \A on \in Both : /\ Opened(on)' = Opened(on) /\ LoadedOf(on)' = LoadedOf(on) /\ TopOf(on)' = TopOf(on)
                          /\ \A s \in Opened(on) : Items(on, s)' = Items(on, s)
  BY DEF Saves
<1>2. /\ s0 \in Opened(on0) /\ s0 \in LoadedOf(on0) /\ s0 # TopOf(on0)
      /\ Continues(Items(on0, s0), on0, s0) /\ Shifted
  BY NextSaveIs
<1>3. \A j \in DOMAIN pending' : j = 1 /\ pending'[j].call = "save" => pending'[j].on = on0 /\ pending'[j].of = s0
  BY <1>1, <1>2, HeadIsAlone DEF Core
<1>4. TopIsFresh'
  <2>1. \A on \in Both : TopOf(on) # 0 =>
          TopOf(on) \in Opened(on) /\ Asks(Len(pending), "load", on, TopOf(on)) /\ Items(on, TopOf(on)) = <<>>
    BY <1>1 DEF Core, Lists, TopIsFresh
  <2>2. \E on \in Both : TopOf(on)' = 0
    BY <1>1 DEF Core, Lists, TopIsFresh
  <2>3. ASSUME NEW on \in Both, TopOf(on) # 0
        PROVE  pending' # <<>> /\ Asks(Len(pending), "load", on, TopOf(on))' /\ Items(on, TopOf(on))' = <<>>
    <3>1. Len(pending) # 1
      BY <1>1, <2>1, <2>3 DEF Asks
    <3>2. Len(pending') \in DOMAIN pending' /\ pending'[Len(pending')] = pending[Len(pending)]
      BY <1>2, <3>1 DEF Shifted
    <3>3. pending' # <<>>
      BY <3>2
    <3>4. Asks(Len(pending), "load", on, TopOf(on))'
      BY <1>1, <2>1, <2>3, <3>2 DEF Asks
    <3> PICK t : t = TopOf(on)
      OBVIOUS
    <3>5. t \in Opened(on) /\ TopOf(on)' = t
      BY <1>1, <2>1, <2>3
    <3>6. Items(on, t)' = Items(on, t)
      BY <1>1, <3>5
    <3> QED
      BY <2>1, <2>3, <3>3, <3>4, <3>5, <3>6
  <2> QED
    BY <1>1, <2>1, <2>2, <2>3 DEF TopIsFresh
<1>5. SavedByLoaded'
  <2>1. /\ DOMAIN data \subseteq DOMAIN data' /\ \A i \in DOMAIN data : data'[i] = data[i]
        /\ \A i \in DOMAIN data' : i \notin DOMAIN data => IsOf(data'[i], on0, s0)
    <3>1. data \in Seq(Entries) /\ Items(on0, s0) \in Seq(Entries)
      BY <1>2 DEF Core, Copies
    <3> QED
      BY <1>1, <1>2, <3>1, ContinuesIs
  <2>2. ASSUME NEW i \in DOMAIN data', NEW on \in Both, NEW s \in Screens, IsOf(data'[i], on, s)
        PROVE  s \in LoadedOf(on) /\ s # TopOf(on)
    <3>1. CASE i \in DOMAIN data
      BY <2>1, <2>2, <3>1 DEF Core, Lists, SavedByLoaded
    <3>2. CASE i \notin DOMAIN data
      <4>1. on = on0 /\ s = s0
        BY <2>1, <2>2, <3>2, OneOwner
      <4> QED
        BY <1>2, <4>1
    <3> QED
      BY <3>1, <3>2
  <2> QED
    BY <1>1, <2>2 DEF SavedByLoaded
<1>6. UnloadedIsOwn'
  BY <1>1 DEF Core, Lists, UnloadedIsOwn
<1>7. NextSaveContinues'
  <2>1. ASSUME NEW on \in Both, NEW s \in Opened(on)', pending' # <<>>, Asks(1, "save", on, s)'
        PROVE  Continues(Items(on, s), on, s)'
    <3>1. 1 \in DOMAIN pending'
      <4>1. pending' \in Seq(Task \cup Drinks!Task)
        BY <1>1 DEF Core, Copies
      <4> QED
        BY <2>1, <4>1
    <3>2. on = on0 /\ s = s0
      BY <1>3, <2>1, <3>1 DEF Asks
    <3>3. Items(on, s)' = data'
      BY <1>1, <1>2, <3>2
    <3> QED
      BY <3>3 DEF Continues
  <2> QED
    BY <2>1 DEF NextSaveContinues
<1> QED
  BY <1>4, <1>5, <1>6, <1>7 DEF Lists

LEMMA JoinedLists ==
  ASSUME NEW S, NEW a \in Seq(S), NEW b \in Seq(S), NEW l, l = a \o b
  PROVE  /\ l \in Seq(S) /\ Len(a) \in Nat /\ Len(b) \in Nat /\ Len(l) = Len(a) + Len(b)
         /\ DOMAIN a = 1 .. Len(a) /\ DOMAIN b = 1 .. Len(b) /\ DOMAIN l = 1 .. Len(l)
         /\ \A i \in DOMAIN a : l[i] = a[i]
         /\ \A i \in DOMAIN l : i \notin DOMAIN a => i - Len(a) \in DOMAIN b /\ l[i] = b[i - Len(a)]
         /\ \A j \in DOMAIN b : Len(a) + j \in DOMAIN l /\ l[Len(a) + j] = b[j]
  OBVIOUS

LEMMA ListsAfterAdd ==
  ASSUME Core, NEW on0 \in Both, NEW s0, NEW w, Adds(on0, s0, w), pending' \in Seq(Task \cup Drinks!Task)
  PROVE  Lists'
<1>0. Queued(on0, s0, "save", Len(w))
  BY ConcatQueues DEF Adds, Core
<1>1. /\ w \in Seq(Entries) /\ IsOwn(w, on0, s0) /\ data' = data /\ hasData' = hasData
      /\ TopOf(on0) = s0 /\ s0 # 0 /\ Items(on0, s0)' = Items(on0, s0) \o w /\ OthersKept(on0, s0)
      /\ \A on \in Both : Opened(on)' = Opened(on) /\ LoadedOf(on)' = LoadedOf(on) /\ TopOf(on)' = 0
  BY DEF Adds
<1>2. /\ s0 \in Opened(on0) /\ data \in Seq(Entries) /\ Items(on0, s0) \in Seq(Entries) /\ s0 \in Screens
      /\ pending = <<>> => s0 \in LoadedOf(on0) /\ Items(on0, s0) = data
      /\ pending # <<>> => Asks(Len(pending), "load", on0, s0) /\ Items(on0, s0) = <<>>
  BY <1>1 DEF Core, Copies, Lists, TopIsFresh
<1>3. 0 \notin Screens
  BY DEF Screens
<1>4. TopIsFresh'
  BY <1>1 DEF TopIsFresh
<1>5. SavedByLoaded'
  BY <1>1, <1>3 DEF Core, Lists, SavedByLoaded
<1>6. UnloadedIsOwn'
  <2>1. s0 \notin LoadedOf(on0) => Items(on0, s0)' = w
    BY SMTT(40), <1>1, <1>2
  <2>2. \A on \in Both : \A s \in Opened(on) : (on = on0 /\ s = s0) \/ Items(on, s)' = Items(on, s)
    BY <1>1 DEF OthersKept
  <2> QED
    BY <1>1, <2>1, <2>2 DEF Core, Lists, UnloadedIsOwn
<1>7. NextSaveContinues'
  <2>1. ASSUME NEW on \in Both, NEW s \in Opened(on)', pending' # <<>>, Asks(1, "save", on, s)'
        PROVE  Continues(Items(on, s), on, s)'
    <3>1. CASE pending = <<>>
      <4>1. on = on0 /\ s = s0
        <5>1. 1 \in DOMAIN pending' /\ 1 > Len(pending)
          <6>1. Len(pending) = 0
            BY <3>1
          <6> QED
            BY <2>1, <6>1
        <5> QED
          BY <1>0, <2>1, <5>1 DEF Queued, Asks
      <4>2. \A i \in DOMAIN data : ~ IsOf(data[i], on0, s0)
        BY <1>1, <1>2 DEF Core, Lists, SavedByLoaded
      <4> PICK l : l = data \o w
        OBVIOUS
      <4>3. Items(on, s)' = l
        BY <1>1, <1>2, <3>1, <4>1
      <4>4. /\ Len(l) = Len(data) + Len(w) /\ Len(data) \in Nat /\ Len(w) \in Nat
            /\ \A i \in DOMAIN data : l[i] = data[i]
            /\ \A i \in DOMAIN l : i \notin DOMAIN data => i - Len(data) \in DOMAIN w /\ l[i] = w[i - Len(data)]
        BY <1>1, <1>2, JoinedLists
      <4>5. Len(l) \in Len(data) .. Len(data) + Drinks!MaxOptions
        BY <1>1, <4>4, OptionsBound DEF IsOwn
      <4>6. \A i \in DOMAIN l \ DOMAIN data : IsOf(l[i], on0, s0)
        BY <1>1, <4>4 DEF IsOwn
      <4>7. Continues(l, on0, s0)
        BY <4>2, <4>4, <4>5, <4>6 DEF Continues
      <4> QED
        BY <1>1, <4>1, <4>3, <4>7 DEF Continues
    <3>2. CASE pending # <<>>
      <4>1. 1 \in DOMAIN pending /\ Len(pending) \in DOMAIN pending /\ pending'[1] = pending[1]
        <5>1. pending \in Seq(Task \cup Drinks!Task)
          BY DEF Core, Copies
        <5>2. 1 \in DOMAIN pending /\ Len(pending) \in DOMAIN pending
          BY <3>2, <5>1
        <5> QED
          BY <1>0, <5>2 DEF Queued
      <4>2. Asks(1, "save", on, s)
        BY <2>1, <4>1 DEF Asks
      <4>3. on # on0 \/ s # s0
        <5>1. s0 \notin LoadedOf(on0)
          BY <1>2, <3>2, <4>1 DEF Core, Tasks, LoadsAreDue
        <5>2. on = on0 /\ s = s0 => Len(pending) = 1 \/ 1 < Len(pending)
          BY <1>0, <4>1 DEF Queued
        <5>3. pending[Len(pending)].call = "load" /\ pending[Len(pending)].on = on0 /\ pending[Len(pending)].of = s0
          BY <1>2, <3>2 DEF Asks
        <5>4. pending[1].call = "save" /\ pending[1].on = on /\ pending[1].of = s
          BY <4>2 DEF Asks
        <5> QED
          BY <4>1, <5>2, <5>3, <5>4 DEF Core, Tasks, TasksAreGrouped
      <4>4. Items(on, s)' = Items(on, s) /\ Continues(Items(on, s), on, s)
        BY <1>1, <2>1, <3>2, <4>2, <4>3 DEF OthersKept, Core, Lists, NextSaveContinues
      <4> QED
        BY <1>1, <4>4 DEF Continues
    <3> QED
      BY <3>1, <3>2
  <2> QED
    BY <2>1 DEF NextSaveContinues
<1> QED
  BY <1>4, <1>5, <1>6, <1>7 DEF Lists


(* All of it *)

CoreStep ==
  \/ Idles
  \/ \E on0 \in Both : \E s0 : Opens(on0, s0) \/ Loads(on0, s0) \/ Saves(on0, s0) \/ \E w : Adds(on0, s0, w)

LEMMA CoreSteps ==
  ASSUME Core, CoreStep, pending' \in Seq(Task \cup Drinks!Task)
  PROVE  Core'
<1>0. Copies /\ Tasks /\ TopIsFresh
  BY DEF Core, Lists
<1>1. CASE Idles
  <2>1. "product" \in Both
    BY DEF Both
  <2>2. Copies'
    BY <1>0, <1>1, <2>1, CopiesKept DEF Copies
  <2> QED
    BY <1>0, <1>1, <2>2, TasksAfterIdle, ListsAfterIdle DEF Core
<1>2. ASSUME NEW on0 \in Both, NEW s0, Opens(on0, s0)
      PROVE  Core'
  <2>1. Copies'
    BY <1>0, <1>2, CopiesKept DEF Copies
  <2> QED
    BY <1>0, <1>2, <2>1, TasksAfterOpen, ListsAfterOpen DEF Core
<1>3. ASSUME NEW on0 \in Both, NEW s0, Loads(on0, s0)
      PROVE  Core'
  <2>1. s0 \in Opened(on0)
    BY <1>0, <1>3, TailShifts, HeadIsAlone DEF Loads
  <2>2. Copies'
    BY <1>0, <1>3, <2>1, CopiesKept DEF Copies
  <2> QED
    BY <1>0, <1>3, <2>2, TasksAfterLoad, ListsAfterLoad DEF Core
<1>4. ASSUME NEW on0 \in Both, NEW s0, Saves(on0, s0)
      PROVE  Core'
  <2>1. s0 \in Opened(on0)
    BY <1>4, NextSaveIs
  <2>2. Copies'
    BY <1>0, <1>4, <2>1, CopiesKept DEF Copies
  <2> QED
    BY <1>0, <1>4, <2>2, TasksAfterSave, ListsAfterSave DEF Core
<1>5. ASSUME NEW on0 \in Both, NEW s0, NEW w, Adds(on0, s0, w)
      PROVE  Core'
  <2>1. s0 \in Opened(on0)
    BY <1>0, <1>5 DEF Adds, TopIsFresh
  <2>2. Copies'
    BY <1>0, <1>5, <2>1, CopiesKept DEF Copies
  <2> QED
    BY <1>0, <1>5, <2>2, TasksAfterAdd, ListsAfterAdd DEF Core
<1> QED
  BY <1>1, <1>2, <1>3, <1>4, <1>5 DEF CoreStep

-----------------------------------------------------------------------------
(* What was added stays in the lists *)

\* A task queued behind the others takes none of them away.
LEMMA TasksStay ==
  ASSUME NEW on0, NEW s0, NEW c, NEW n, Queued(on0, s0, c, n), NEW on, NEW s
  PROVE  /\ SaveIsDue(on, s) => SaveIsDue(on, s)'
         /\ SaveIsDue(on, s)' => SaveIsDue(on, s) \/ (c = "save" /\ on = on0 /\ s = s0)
<1>1. \A i \in DOMAIN pending : i \in DOMAIN pending' /\ pending'[i] = pending[i]
  BY DEF Queued
<1>2. \A i \in DOMAIN pending' :
        \/ i \in DOMAIN pending /\ pending'[i] = pending[i]
        \/ pending'[i].on = on0 /\ pending'[i].call = c /\ pending'[i].of = s0
  BY DEF Queued
<1> QED
  BY <1>1, <1>2 DEF SaveIsDue, Asks

LEMMA SavesRemain ==
  ASSUME Tasks, Shifted, NEW on0, NEW s0, NEW c, Asks(1, c, on0, s0), NEW on, NEW s
  PROVE  /\ SaveIsDue(on, s)' => SaveIsDue(on, s)
         /\ SaveIsDue(on, s) /\ ~ (c = "save" /\ on0 = on /\ s0 = s) => SaveIsDue(on, s)'
  BY TasksRemain DEF SaveIsDue

LEMMA SameSaves ==
  ASSUME pending' = pending, NEW on, NEW s
  PROVE  SaveIsDue(on, s)' <=> SaveIsDue(on, s)
  BY DEF SaveIsDue, Asks

\* What the actions leave of a screen that has loaded the cart.
LoadedKeeps(on, s) ==
  /\ s \in LoadedOf(on)'
  /\ SaveIsDue(on, s) => SaveIsDue(on, s)' \/ data' = Items(on, s)
  /\ Items(on, s)' = Items(on, s) \/ \E w : Adds(on, s, w)

LEMMA LoadedStays ==
  ASSUME Core, CoreStep, NEW on \in Both, NEW s \in LoadedOf(on)
  PROVE  LoadedKeeps(on, s)
<1>0. s \in Opened(on) /\ Tasks /\ Copies
  BY DEF Core, Tasks, LoadsAreDue
<1>1. CASE Idles
  BY <1>0, <1>1, SameSaves DEF Idles, LoadedKeeps
<1>2. ASSUME NEW on0 \in Both, NEW s0, Opens(on0, s0)
      PROVE  LoadedKeeps(on, s)
  <2>1. on # on0 \/ s # s0
    BY <1>0, <1>2 DEF Opens
  <2>2. Queued(on0, s0, "load", 1)
    BY <1>0, <1>2, AppendQueues DEF Opens
  <2>3. SaveIsDue(on, s) => SaveIsDue(on, s)'
    BY <2>2, TasksStay
  <2>4. Items(on, s)' = Items(on, s) /\ s \in LoadedOf(on)'
    BY <1>0, <1>2, <2>1 DEF Opens, OthersKept
  <2> QED
    BY <2>3, <2>4 DEF LoadedKeeps
<1>3. ASSUME NEW on0 \in Both, NEW s0, Loads(on0, s0)
      PROVE  LoadedKeeps(on, s)
  <2>0. Shifted /\ Asks(1, "load", on0, s0)
    BY <1>0, <1>3, TailShifts DEF Loads
  <2>1. on # on0 \/ s # s0
    <3>1. 1 \in DOMAIN pending /\ s0 \in Opened(on0)
      BY <1>0, <2>0, HeadIsAlone
    <3> QED
      BY <1>0, <2>0, <3>1 DEF Tasks, LoadsAreDue
  <2>2. SaveIsDue(on, s) => SaveIsDue(on, s)'
    BY <1>0, <2>0, SavesRemain
  <2>3. Items(on, s)' = Items(on, s) /\ s \in LoadedOf(on)'
    BY <1>0, <1>3, <2>1 DEF Loads, OthersKept
  <2> QED
    BY <2>2, <2>3 DEF LoadedKeeps
<1>4. ASSUME NEW on0 \in Both, NEW s0, Saves(on0, s0)
      PROVE  LoadedKeeps(on, s)
  <2>0. Shifted /\ Asks(1, "save", on0, s0) /\ data' = Items(on0, s0)
    BY <1>0, <1>4, TailShifts DEF Saves
  <2>1. SaveIsDue(on, s) => SaveIsDue(on, s)' \/ (on = on0 /\ s = s0)
    BY <1>0, <2>0, SavesRemain
  <2>2. Items(on, s)' = Items(on, s) /\ s \in LoadedOf(on)'
    BY <1>0, <1>4 DEF Saves
  <2> QED
    BY <2>0, <2>1, <2>2 DEF LoadedKeeps
<1>5. ASSUME NEW on0 \in Both, NEW s0, NEW w, Adds(on0, s0, w)
      PROVE  LoadedKeeps(on, s)
  <2>1. Queued(on0, s0, "save", Len(w))
    BY <1>0, <1>5, ConcatQueues DEF Adds
  <2>2. SaveIsDue(on, s) => SaveIsDue(on, s)'
    BY <2>1, TasksStay
  <2>3. s \in LoadedOf(on)' /\ ((on = on0 /\ s = s0) \/ Items(on, s)' = Items(on, s))
    BY <1>0, <1>5 DEF Adds, OthersKept
  <2> QED
    BY <1>5, <2>2, <2>3 DEF LoadedKeeps
<1> QED
  BY <1>1, <1>2, <1>3, <1>4, <1>5 DEF CoreStep

\* What the actions leave of the saved cart.
DataKeeps ==
  \/ data' = data
  \/ \E on0 \in Both : \E s0 : Saves(on0, s0)

LEMMA DataStays ==
  ASSUME CoreStep
  PROVE  DataKeeps
  BY DEF CoreStep, DataKeeps, Idles, Opens, Loads, Adds

LEMMA IdsAre ==
  ASSUME NEW l, NEW s
  PROVE  s \in IdsOf(l) <=> \E i \in DOMAIN l : l[i].type \in Kinds /\ l[i].id = s
  BY DEF IdsOf, Own

LEMMA AddedStaysSafe ==
  ASSUME Core, CoreStep, NEW s, AddedIsSafe(s)
  PROVE  AddedIsSafe(s)'
<1>0. data \in Seq(Entries) /\ "product" \in Both
  BY DEF Core, Copies, Both
<1>1. CASE s \in IdsOf(data)
  <2>1. CASE data' = data
    BY <1>1, <2>1 DEF AddedIsSafe, IdsOf, Own
  <2>2. ASSUME NEW on0 \in Both, NEW s0, Saves(on0, s0)
        PROVE  s \in IdsOf(data')
    <3>1. Items(on0, s0) \in Seq(Entries) /\ Continues(Items(on0, s0), on0, s0) /\ data' = Items(on0, s0)
      BY <2>2, NextSaveIs DEF Core, Copies
    <3>2. DOMAIN data \subseteq DOMAIN data' /\ \A i \in DOMAIN data : data'[i] = data[i]
      BY <1>0, <3>1, ContinuesIs
    <3> QED
      BY <1>1, <3>2, IdsAre
  <2>3. (s \in IdsOf(data))' <=> s \in IdsOf(data')
    BY DEF IdsOf, Own
  <2> QED
    BY <2>1, <2>2, <2>3, DataStays DEF DataKeeps, AddedIsSafe
<1>2. CASE s \in LoadedOf("product") /\ SaveIsDue("product", s) /\ s \in IdsOf(Items("product", s))
  <2>1. LoadedKeeps("product", s)
    BY <1>0, <1>2, LoadedStays
  <2>2. CASE data' = Items("product", s)
    BY <1>2, <2>2 DEF AddedIsSafe, IdsOf, Own
  <2>3. CASE SaveIsDue("product", s)'
    <3>1. CASE Items("product", s)' = Items("product", s)
      BY <1>2, <2>1, <2>3, <3>1 DEF AddedIsSafe, LoadedKeeps, IdsOf, Own
    <3>2. ASSUME NEW w, Adds("product", s, w)
          PROVE  (s \in IdsOf(Items("product", s)))'
      <4>1. Items("product", s) \in Seq(Entries) /\ w \in Seq(Entries) /\ Items("product", s)' = Items("product", s) \o w
        BY <1>0, <1>2, <3>2 DEF Core, Copies, Adds, Tasks, LoadsAreDue
      <4> PICK l : l = Items("product", s)'
        OBVIOUS
      <4>2. DOMAIN Items("product", s) \subseteq DOMAIN l /\ \A i \in DOMAIN Items("product", s) : l[i] = Items("product", s)[i]
        BY <4>1, JoinedLists
      <4>3. s \in IdsOf(l)
        BY <1>2, <4>2, IdsAre
      <4> QED
        BY <4>3 DEF IdsOf, Own
    <3> QED
      BY <2>1, <2>3, <3>1, <3>2 DEF AddedIsSafe, LoadedKeeps
  <2> QED
    BY <1>2, <2>1, <2>2, <2>3 DEF LoadedKeeps
<1> QED
  BY <1>1, <1>2 DEF AddedIsSafe

\* A product added to a list that was loaded is safe.
LEMMA AddedIsSafeNow ==
  ASSUME Core, NEW s, NEW w, Adds("product", s, w), s \in LoadedOf("product"), w # <<>>
  PROVE  AddedIsSafe(s)'
<1>0. Copies /\ "product" \in Both
  BY DEF Core, Both
<1>1. /\ w \in Seq(Entries) /\ IsOwn(w, "product", s) /\ Items("product", s)' = Items("product", s) \o w
      /\ LoadedOf("product")' = LoadedOf("product") /\ s \in Opened("product")
  BY <1>0 DEF Adds, Core, Tasks, LoadsAreDue
<1>2. 1 \in DOMAIN w /\ Len(w) >= 1
  BY <1>1
<1>3. SaveIsDue("product", s)'
  <2>1. Queued("product", s, "save", Len(w))
    BY <1>0, <1>1, ConcatQueues DEF Adds
  <2>2. Len(pending) + 1 \in DOMAIN pending' /\ Len(pending) + 1 > Len(pending)
    BY <1>2, <2>1 DEF Queued
  <2> QED
    BY <2>1, <2>2 DEF Queued, SaveIsDue, Asks
<1>4. (s \in IdsOf(Items("product", s)))'
  <2> PICK l : l = Items("product", s)'
    OBVIOUS
  <2>1. Items("product", s) \in Seq(Entries)
    BY <1>0, <1>1 DEF Copies
  <2>2. Len(Items("product", s)) + 1 \in DOMAIN l /\ l[Len(Items("product", s)) + 1] = w[1]
    BY <1>1, <1>2, <2>1, JoinedLists
  <2>3. w[1].type \in Kinds /\ w[1].id = s
    BY <1>1, <1>2 DEF IsOwn, IsOf
  <2>4. s \in IdsOf(l)
    BY <2>2, <2>3, IdsAre
  <2> QED
    BY <2>4 DEF IdsOf, Own
<1> QED
  BY <1>1, <1>3, <1>4 DEF AddedIsSafe

(* The same for drinks, which are to be found in their order *)

LEMMA DrinksSame ==
  ASSUME NEW a \in Seq(Entries), NEW b \in Seq(Entries), NEW s,
         DOMAIN a \subseteq DOMAIN b, \A i \in DOMAIN a : b[i] = a[i],
         \A i \in DOMAIN b : i \notin DOMAIN a => ~ IsOf(b[i], "drinks", s)
  PROVE  DrinksOf(b, s) = DrinksOf(a, s)
<1>1. DrinksAt(b, s) = DrinksAt(a, s)
  BY DEF DrinksAt, IsOf
<1>2. DrinksAt(a, s) \subseteq 1 .. Len(a) /\ Len(a) \in Nat /\ \A i \in DrinksAt(a, s) : b[i] = a[i]
  <2>1. DOMAIN a = 1 .. Len(a) /\ Len(a) \in Nat
    OBVIOUS
  <2> QED
    BY <2>1 DEF DrinksAt
<1>3. Entered(b, DrinksAt(a, s)) = Entered(a, DrinksAt(a, s))
  BY <1>2, EnteredSame
<1> QED
  BY <1>1, <1>3 DEF DrinksOf

\* Behind a list without drinks of this screen, its drinks are what is added.
LEMMA DrinksAdded ==
  ASSUME NEW a \in Seq(Entries), NEW w \in Seq(Entries), NEW l, l = a \o w, NEW s,
         \A i \in DOMAIN a : ~ IsOf(a[i], "drinks", s),
         \A i \in DOMAIN w : IsOf(w[i], "drinks", s)
  PROVE  DrinksOf(l, s) = w
<1> DEFINE n == Len(a)
           P == DrinksAt(l, s)
           f == [k \in 1 .. Len(w) |-> n + k]
<1>1. /\ Len(a) \in Nat /\ Len(w) \in Nat /\ Len(l) = Len(a) + Len(w)
      /\ DOMAIN a = 1 .. Len(a) /\ DOMAIN w = 1 .. Len(w) /\ DOMAIN l = 1 .. Len(l)
      /\ \A i \in DOMAIN a : l[i] = a[i]
      /\ \A i \in DOMAIN l : i \notin DOMAIN a => i - Len(a) \in DOMAIN w /\ l[i] = w[i - Len(a)]
      /\ \A j \in DOMAIN w : Len(a) + j \in DOMAIN l /\ l[Len(a) + j] = w[j]
  BY JoinedLists
<1>2. w = [k \in 1 .. Len(w) |-> w[k]]
  OBVIOUS
<1>3. \A i : i \in P <=> i \in DOMAIN l /\ IsOf(l[i], "drinks", s)
  BY DEF DrinksAt, IsOf
<1>4. \A i : i \in P <=> i \in n + 1 .. n + Len(w)
  <2>1. \A i \in DOMAIN l : i \in DOMAIN a \/ (i \notin DOMAIN a /\ i \in n + 1 .. n + Len(w))
    BY <1>1
  <2>2. \A i \in n + 1 .. n + Len(w) : i \in DOMAIN l /\ i \notin DOMAIN a
    BY <1>1
  <2>3. \A i \in DOMAIN l : i \in DOMAIN a => ~ IsOf(l[i], "drinks", s)
    BY <1>1
  <2>4. \A i \in DOMAIN l : i \notin DOMAIN a => IsOf(l[i], "drinks", s)
    BY <1>1
  <2> QED
    BY <1>3, <2>1, <2>2, <2>3, <2>4
<1> HIDE DEF P
<1>5. Enumerates(f, P)
  <2>1. f \in Seq(P) /\ DOMAIN f = 1 .. Len(w)
    BY <1>1, <1>4
  <2>2. \A i, j \in DOMAIN f : i < j => f[i] < f[j]
    BY <1>1
  <2>3. \A x \in P : x - n \in DOMAIN f /\ f[x - n] = x
    BY <1>1, <1>4
  <2> QED
    BY <2>1, <2>2, <2>3 DEF Enumerates
<1>6. InOrder(P) = f
  <2>1. P \subseteq 1 .. n + Len(w) /\ n + Len(w) \in Nat
    BY <1>1, <1>4
  <2> HIDE DEF f
  <2> QED
    BY <1>5, <2>1, InOrderIs
<1>7. Entered(l, P) = [k \in 1 .. Len(w) |-> l[n + k]]
  BY <1>6 DEF Entered
<1>8. [k \in 1 .. Len(w) |-> l[n + k]] = [k \in 1 .. Len(w) |-> w[k]]
  BY <1>1
<1> QED
  BY <1>2, <1>7, <1>8 DEF DrinksOf, P

\* Of all steps but one that adds drinks on screen s.
LEMMA ChosenStaysSafe ==
  ASSUME Core, CoreStep, NEW s \in Screens, Idles \/ ~ (\E w : Adds("drinks", s, w)), NEW c, ChosenIsSafe(s, c)
  PROVE  ChosenIsSafe(s, c)'
<1>0. data \in Seq(Entries) /\ "drinks" \in Both /\ Tasks /\ Copies
  BY DEF Core, Copies, Both
<1>00. CASE Idles
  <2>1. /\ (SaveIsDue("drinks", s)' <=> SaveIsDue("drinks", s))
        /\ data' = data /\ LoadedOf("drinks")' = LoadedOf("drinks")
        /\ s \in LoadedOf("drinks") => Items("drinks", s)' = Items("drinks", s)
    BY <1>0, <1>00, SameSaves DEF Idles, Tasks, LoadsAreDue
  <2> QED
    BY <2>1 DEF ChosenIsSafe, DrinksOf, DrinksAt
<1>1. CASE SaveIsDue("drinks", s) /\ ~ \E w : Adds("drinks", s, w)
  <2>1. s \in LoadedOf("drinks") /\ DrinksOf(Items("drinks", s), s) = c
    BY <1>1 DEF ChosenIsSafe
  <2>2. LoadedKeeps("drinks", s)
    BY <1>0, <2>1, LoadedStays
  <2>3. Items("drinks", s)' = Items("drinks", s) /\ s \in LoadedOf("drinks")'
    BY <1>1, <2>2 DEF LoadedKeeps
  <2>4. CASE SaveIsDue("drinks", s)'
    BY <2>1, <2>3, <2>4 DEF ChosenIsSafe, DrinksOf, DrinksAt
  <2>5. CASE ~ SaveIsDue("drinks", s)'
    <3>1. data' = Items("drinks", s)
      BY <1>1, <2>2, <2>5 DEF LoadedKeeps
    <3> QED
      BY <2>1, <2>5, <3>1 DEF ChosenIsSafe, DrinksOf, DrinksAt
  <2> QED
    BY <2>4, <2>5
<1>2. CASE ~ SaveIsDue("drinks", s) /\ ~ \E w : Adds("drinks", s, w)
  <2>1. DrinksOf(data, s) = c
    BY <1>2 DEF ChosenIsSafe
  <2>2. ~ SaveIsDue("drinks", s)'
    <3>1. CASE Idles
      BY <1>2, <3>1, SameSaves DEF Idles
    <3>2. ASSUME NEW on0 \in Both, NEW s0, Opens(on0, s0)
          PROVE  ~ SaveIsDue("drinks", s)'
      <4>1. Queued(on0, s0, "load", 1)
        BY <1>0, <3>2, AppendQueues DEF Opens
      <4> QED
        BY <1>2, <4>1, TasksStay
    <3>3. ASSUME NEW on0 \in Both, NEW s0, Loads(on0, s0) \/ Saves(on0, s0)
          PROVE  ~ SaveIsDue("drinks", s)'
      <4>1. PICK d : Asks(1, d, on0, s0) /\ pending # <<>> /\ pending' = Tail(pending)
        BY <3>3 DEF Loads, Saves
      <4>2. Shifted
        BY <1>0, <4>1, TailShifts
      <4> QED
        BY <1>0, <1>2, <4>1, <4>2, SavesRemain
    <3>4. ASSUME NEW on0 \in Both, NEW s0, NEW w, Adds(on0, s0, w)
          PROVE  ~ SaveIsDue("drinks", s)'
      <4>1. Queued(on0, s0, "save", Len(w))
        BY <1>0, <3>4, ConcatQueues DEF Adds
      <4>2. on0 # "drinks" \/ s0 # s
        BY <1>2, <3>4
      <4> QED
        BY <1>2, <4>1, <4>2, TasksStay
    <3> QED
      BY <3>1, <3>2, <3>3, <3>4 DEF CoreStep
  <2>3. DrinksOf(data', s) = c
    <3>1. CASE data' = data
      BY <2>1, <3>1
    <3>2. ASSUME NEW on0 \in Both, NEW s0, Saves(on0, s0)
          PROVE  DrinksOf(data', s) = c
      <4>1. /\ Items(on0, s0) \in Seq(Entries) /\ Continues(Items(on0, s0), on0, s0) /\ data' = Items(on0, s0)
            /\ Shifted
        BY <3>2, NextSaveIs DEF Core, Copies
      <4>2. on0 # "drinks" \/ s0 # s
        <5>1. 1 \in DOMAIN pending /\ Asks(1, "save", on0, s0)
          BY <3>2, <4>1 DEF Shifted, Saves
        <5> QED
          BY <1>2, <5>1 DEF SaveIsDue
      <4>3. /\ DOMAIN data \subseteq DOMAIN data' /\ \A i \in DOMAIN data : data'[i] = data[i]
            /\ \A i \in DOMAIN data' : i \notin DOMAIN data => IsOf(data'[i], on0, s0)
        BY <1>0, <4>1, ContinuesIs
      <4>4. \A i \in DOMAIN data' : i \notin DOMAIN data => ~ IsOf(data'[i], "drinks", s)
        BY <1>0, <4>2, <4>3, OneOwner
      <4>5. data' \in Seq(Entries)
        BY <4>1
      <4>6. DrinksOf(data', s) = DrinksOf(data, s)
        BY <1>0, <4>3, <4>4, <4>5, DrinksSame
      <4> QED
        BY <2>1, <4>6
    <3> QED
      BY <3>1, <3>2, DataStays DEF DataKeeps
  <2> QED
    BY <2>2, <2>3 DEF ChosenIsSafe, DrinksOf, DrinksAt
<1> QED
  BY <1>00, <1>1, <1>2

\* What is added on a screen that had loaded the cart.
LEMMA ChosenIsSafeNow ==
  ASSUME Core, NEW s, NEW w, Adds("drinks", s, w), s \in LoadedOf("drinks")
  PROVE  ChosenIsSafe(s, w)'
<1>0. Copies /\ "drinks" \in Both /\ data \in Seq(Entries) /\ s \in Opened("drinks")
  BY DEF Core, Copies, Both, Tasks, LoadsAreDue
<1>1. /\ w \in Seq(Entries) /\ IsOwn(w, "drinks", s) /\ Items("drinks", s)' = Items("drinks", s) \o w
      /\ LoadedOf("drinks")' = LoadedOf("drinks") /\ data' = data /\ TopOf("drinks") = s /\ s # 0 /\ s \in Screens
      /\ pending' = pending \o SavesOf("drinks", s, w)
  BY <1>0 DEF Adds, Copies
<1>2. pending = <<>> /\ Items("drinks", s) = data
  <2>1. pending # <<>> => Asks(Len(pending), "load", "drinks", s) /\ Len(pending) \in DOMAIN pending
    <3>1. pending \in Seq(Task \cup Drinks!Task)
      BY <1>0 DEF Copies
    <3>2. pending # <<>> => Len(pending) \in DOMAIN pending
      BY <3>1
    <3> QED
      BY <1>0, <1>1, <3>2 DEF Core, Lists, TopIsFresh
  <2>2. ~ \E i \in DOMAIN pending : Asks(i, "load", "drinks", s)
    BY <1>0 DEF Core, Tasks, LoadsAreDue
  <2>3. pending = <<>>
    BY <2>1, <2>2
  <2> QED
    BY <1>0, <1>1, <2>3 DEF Core, Lists, TopIsFresh
<1>3. (\A i \in DOMAIN data : ~ IsOf(data[i], "drinks", s)) /\ (\A i \in DOMAIN w : IsOf(w[i], "drinks", s))
  BY <1>0, <1>1 DEF Core, Lists, SavedByLoaded, IsOwn
<1>4. DrinksOf(Items("drinks", s)', s) = w
  BY <1>0, <1>1, <1>2, <1>3, DrinksAdded
<1>5. CASE w = <<>>
  <2>1. data = data \o w
    BY <1>0, <1>5
  <2>2. DrinksOf(data, s) = w
    BY <1>0, <1>1, <1>3, <2>1, DrinksAdded
  <2>3. ~ SaveIsDue("drinks", s)'
    <3>1. Queued("drinks", s, "save", Len(w))
      BY <1>0, <1>1, ConcatQueues
    <3>2. DOMAIN pending' = {}
      BY <1>2, <1>5, <3>1 DEF Queued
    <3> QED
      BY <3>2 DEF SaveIsDue
  <2> QED
    BY <1>1, <2>2, <2>3 DEF ChosenIsSafe, DrinksOf, DrinksAt
<1>6. CASE w # <<>>
  <2>1. SaveIsDue("drinks", s)'
    <3>1. Queued("drinks", s, "save", Len(w))
      BY <1>0, <1>1, ConcatQueues
    <3>2. Len(w) >= 1
      BY <1>1, <1>6
    <3>3. Len(pending) + 1 \in DOMAIN pending' /\ Len(pending) + 1 > Len(pending)
      BY <3>1, <3>2 DEF Queued
    <3> QED
      BY <3>1, <3>3 DEF Queued, SaveIsDue, Asks
  <2> QED
    BY <1>0, <1>1, <1>4, <2>1 DEF ChosenIsSafe, DrinksOf, DrinksAt
<1> QED
  BY <1>5, <1>6

(* Names and prices *)

LEMMA NamedJoined ==
  ASSUME NEW a \in Seq(Entries), NEW w \in Seq(Entries), NEW l, l = a \o w, NEW left, Named(a, left), Named(w, left)
  PROVE  Named(l, left)
<1>1. \A i \in DOMAIN l : (i \in DOMAIN a /\ l[i] = a[i]) \/ (\E j \in DOMAIN w : l[i] = w[j])
  BY JoinedLists
<1> QED
  BY <1>1 DEF Named

LEMMA NamedMore ==
  ASSUME NEW l, NEW left, NEW more, Named(l, left), left \subseteq more
  PROVE  Named(l, more)
  BY DEF Named

LEMMA AllStayNamed ==
  ASSUME Core, CoreStep, AllNamed, leftover \subseteq leftover'
  PROVE  AllNamed'
<1> DEFINE N(l) == Named(l, leftover)
<1>0. N(data) /\ (\A on \in Both : \A s \in Opened(on) : N(Items(on, s))) /\ Copies /\ Tasks
  BY DEF AllNamed, Core
<1>1. N(<<>>)
  BY DEF Named
<1> HIDE DEF N
<1>2. N(data') /\ \A on \in Both : \A s \in Opened(on)' : N(Items(on, s)')
  <2>1. CASE Idles
    BY <1>0, <2>1 DEF Idles
  <2>2. ASSUME NEW on0 \in Both, NEW s0, Opens(on0, s0)
        PROVE  N(data') /\ \A on \in Both : \A s \in Opened(on)' : N(Items(on, s)')
    <3>1. data' = data /\ Items(on0, s0)' = <<>> /\ OthersKept(on0, s0)
          /\ \A on \in Both : Opened(on)' = IF on = on0 THEN Opened(on) \cup {s0} ELSE Opened(on)
      BY <2>2 DEF Opens
    <3>2. \A on \in Both : \A s \in Opened(on)' :
            (on = on0 /\ s = s0) \/ (s \in Opened(on) /\ Items(on, s)' = Items(on, s))
      BY <2>2, <3>1 DEF OthersKept, Opens
    <3> QED
      BY <1>0, <1>1, <3>1, <3>2
  <2>3. ASSUME NEW on0 \in Both, NEW s0, Loads(on0, s0)
        PROVE  N(data') /\ \A on \in Both : \A s \in Opened(on)' : N(Items(on, s)')
    <3>1. s0 \in Opened(on0)
      BY <1>0, <2>3, TailShifts, HeadIsAlone DEF Loads
    <3>2. data' = data /\ Items(on0, s0)' \in {data, Items(on0, s0)} /\ \A on \in Both : Opened(on)' = Opened(on)
      BY <2>3 DEF Loads
    <3>3. \A on \in Both : \A s \in Opened(on) : (on = on0 /\ s = s0) \/ Items(on, s)' = Items(on, s)
      BY <2>3 DEF OthersKept, Loads
    <3> QED
      BY <1>0, <3>1, <3>2, <3>3
  <2>4. ASSUME NEW on0 \in Both, NEW s0, Saves(on0, s0)
        PROVE  N(data') /\ \A on \in Both : \A s \in Opened(on)' : N(Items(on, s)')
    <3>1. s0 \in Opened(on0)
      BY <2>4, NextSaveIs
    <3> QED
      BY <1>0, <2>4, <3>1 DEF Saves
  <2>5. ASSUME NEW on0 \in Both, NEW s0, NEW w, Adds(on0, s0, w)
        PROVE  N(data') /\ \A on \in Both : \A s \in Opened(on)' : N(Items(on, s)')
    <3>1. s0 \in Opened(on0) /\ Items(on0, s0) \in Seq(Entries) /\ w \in Seq(Entries)
      BY <1>0, <2>5 DEF Adds, Core, Lists, TopIsFresh, Copies
    <3>2. data' = data /\ Items(on0, s0)' = Items(on0, s0) \o w /\ \A on \in Both : Opened(on)' = Opened(on)
      BY <2>5 DEF Adds
    <3>3. \A on \in Both : \A s \in Opened(on) : (on = on0 /\ s = s0) \/ Items(on, s)' = Items(on, s)
      BY <2>5 DEF OthersKept, Adds
    <3>4. N(Items(on0, s0)')
      <4>1. Named(w, leftover) /\ Named(Items(on0, s0), leftover)
        BY <1>0, <2>5, <3>1 DEF N, Adds
      <4> QED
        BY <3>1, <3>2, <4>1, NamedJoined DEF N
    <3> QED
      BY <1>0, <3>2, <3>3, <3>4
  <2> QED
    BY <2>1, <2>2, <2>3, <2>4, <2>5 DEF CoreStep
<1>3. Named(data', leftover') /\ \A on \in Both : \A s \in Opened(on)' : Named(Items(on, s)', leftover')
  BY <1>2, NamedMore DEF N
<1> QED
  BY <1>3 DEF AllNamed, Named

-----------------------------------------------------------------------------
(* Prices *)

LEMMA ChargesAre ==
  /\ Charges({}) = 0
  /\ \A names \in SUBSET Extras : Charges(names) \in Nat
<1>1. Charges({}) = 0
  <2> DEFINE f == [e \in {} |-> Charge[e]]
  <2>1. DOMAIN f = {} /\ IsFiniteSet({})
    BY FS_EmptySet
  <2> HIDE DEF f
  <2>2. SumFunction(f) = 0
    BY <2>1, SumOverSet DEF SumFunction
  <2> QED
    BY <2>2 DEF Charges, f
<1>2. ASSUME NEW names \in SUBSET Extras PROVE Charges(names) \in Nat
  <2> DEFINE f == [e \in names |-> Charge[e]]
  <2>1. IsFiniteSet(names)
    BY DetailsAssumption, FS_Subset
  <2>2. DOMAIN f = names /\ \A x \in DOMAIN f : f[x] \in Nat
    BY DetailsAssumption
  <2> HIDE DEF f
  <2>3. SumFunction(f) \in Nat
    BY <2>1, <2>2, SumOfFunction
  <2> QED
    BY <2>3 DEF Charges, f
<1> QED
  BY <1>1, <1>2

LEMMA Multiplied ==
  ASSUME NEW p \in Nat, NEW c \in Nat
  PROVE  p * c \in Nat /\ (c = 0 => p * c = 0)
  OBVIOUS

\* The units of a menu, its price list and its value.
LEMMA MenuIs ==
  ASSUME NEW m \in Menus
  PROVE  /\ Options[m] \in Nat \ {0} /\ Options[m] <= Drinks!MaxOptions
         /\ \A o \in 1 .. Options[m] : DrinkPrice[m][o] \in Nat
         /\ MaxUnits \in Nat \ {0} /\ IsFiniteSet(1 .. Options[m])
<1>1. Options[m] \in Nat \ {0} /\ Options[m] <= Drinks!MaxOptions
  BY OptionsBound
<1>2. \A o \in 1 .. Options[m] : DrinkPrice[m][o] \in Nat
  BY DrinksAssumption DEF Drinks!DrinksAssumption
<1>3. IsFiniteSet(1 .. Options[m])
  BY <1>1, FS_Interval
<1> QED
  BY <1>1, <1>2, <1>3, DetailsAssumption

UnitsOf(m) == [1 .. Options[m] -> 0 .. MaxUnits]

LEMMA ValueIs ==
  ASSUME NEW m \in Menus, NEW count \in UnitsOf(m), NEW f, f = [o \in 1 .. Options[m] |-> DrinkPrice[m][o] * count[o]]
  PROVE  /\ Drinks!Value(m, count) = SumFunctionOnSet(f, 1 .. Options[m])
         /\ \A o \in 1 .. Options[m] : f[o] = DrinkPrice[m][o] * count[o] /\ f[o] \in Nat /\ (count[o] = 0 => f[o] = 0)
         /\ Drinks!Value(m, count) \in Nat
<1>1. /\ MaxUnits \in Nat /\ IsFiniteSet(1 .. Options[m])
      /\ \A o \in 1 .. Options[m] : DrinkPrice[m][o] \in Nat
  BY MenuIs
<1>2. \A o \in 1 .. Options[m] : count[o] \in Nat
  BY <1>1 DEF UnitsOf
<1>3. DOMAIN f = 1 .. Options[m] /\ \A o \in 1 .. Options[m] : f[o] = DrinkPrice[m][o] * count[o]
  OBVIOUS
<1>4. \A o \in 1 .. Options[m] : f[o] \in Nat /\ (count[o] = 0 => f[o] = 0)
  BY <1>1, <1>2, <1>3, Multiplied
<1>5. Drinks!Value(m, count) = SumFunction(f)
  BY DrinksSum DEF Drinks!Value
<1>6. SumFunction(f) \in Nat /\ SumFunction(f) = SumFunctionOnSet(f, 1 .. Options[m])
  BY <1>1, <1>3, <1>4, SumOfFunction DEF SumFunction
<1> QED
  BY <1>3, <1>4, <1>5, <1>6

LEMMA NoneIs ==
  ASSUME NEW m \in Menus
  PROVE  Drinks!None(m) \in UnitsOf(m) /\ Drinks!Value(m, Drinks!None(m)) = 0
         /\ \A o \in 1 .. Options[m] : Drinks!None(m)[o] = 0
<1>1. MaxUnits \in Nat /\ IsFiniteSet(1 .. Options[m])
  BY MenuIs
<1>2. Drinks!None(m) = [o \in 1 .. Options[m] |-> 0]
  BY DEF Drinks!None
<1>3. Drinks!None(m) \in UnitsOf(m) /\ \A o \in 1 .. Options[m] : Drinks!None(m)[o] = 0
  BY <1>1, <1>2 DEF UnitsOf
<1> PICK f : f = [o \in 1 .. Options[m] |-> DrinkPrice[m][o] * Drinks!None(m)[o]]
  OBVIOUS
<1>4. /\ Drinks!Value(m, Drinks!None(m)) = SumFunctionOnSet(f, 1 .. Options[m])
      /\ \A o \in 1 .. Options[m] : f[o] \in Int /\ f[o] = 0
  <2>1. /\ Drinks!Value(m, Drinks!None(m)) = SumFunctionOnSet(f, 1 .. Options[m])
        /\ \A o \in 1 .. Options[m] : f[o] \in Nat /\ (Drinks!None(m)[o] = 0 => f[o] = 0)
    BY <1>3, ValueIs
  <2> QED
    BY <1>3, <2>1
<1>5. SumFunctionOnSet(f, 1 .. Options[m]) = SumFunctionOnSet(f, {})
  BY <1>1, <1>4, SumOfPart
<1>6. SumFunctionOnSet(f, {}) = 0
  BY FS_EmptySet, SumOverSet
<1> QED
  BY <1>3, <1>4, <1>5, <1>6

(* What "Adicionar ao carrinho" adds on a drink screen *)

Wanted(m) == {o \in 1 .. Options[m] : drinkUnits[m][o] # 0}

LEMMA SequencesAre ==
  ASSUME NEW T, NEW n \in Nat, NEW f \in [1 .. n -> T]
  PROVE  f \in Seq(T) /\ DOMAIN f = 1 .. n /\ Len(f) = n
  OBVIOUS

LEMMA NewItemsAre ==
  ASSUME NEW m \in Menus, m = drinkStates[drinkTop].menu, drinkUnits[m] \in UnitsOf(m), drinkTop \in Screens,
         NEW o, o = InOrder(Wanted(m)), NEW w, w = Drinks!NewItems
  PROVE  /\ Enumerates(o, Wanted(m)) /\ Wanted(m) \subseteq 1 .. Options[m]
         /\ w \in Seq(Drinks!Item) /\ DOMAIN w = DOMAIN o /\ Len(w) = Len(o)
         /\ \A k \in DOMAIN o : /\ w[k].type = "drink" /\ w[k].of = drinkTop /\ w[k].units = drinkUnits[m][o[k]]
                                /\ w[k].valueUn = DrinkPrice[m][o[k]]
<1>1. /\ Options[m] \in Nat /\ Options[m] <= Drinks!MaxOptions /\ MaxUnits \in Nat /\ Drinks!MaxOptions \in Nat
      /\ \A x \in 1 .. Options[m] : DrinkPrice[m][x] \in Nat
  BY MenuIs, OptionsBound
<1>2. Wanted(m) \subseteq 1 .. Options[m]
  BY DEF Wanted
<1>3. Enumerates(o, Wanted(m))
  BY <1>1, <1>2, InOrderEnumerates
<1>4. w = [k \in DOMAIN o |-> [type |-> "drink", of |-> drinkTop, option |-> o[k], units |-> drinkUnits[m][o[k]],
                               valueUn |-> DrinkPrice[m][o[k]]]]
  BY DrinksOrder DEF Drinks!NewItems, Drinks!menu, Wanted
<1>5. o \in Seq(Wanted(m))
  BY <1>3 DEF Enumerates
<1>6. \A k \in DOMAIN o : o[k] \in 1 .. Options[m] /\ drinkUnits[m][o[k]] \in 1 .. MaxUnits
  <2>1. \A k \in DOMAIN o : o[k] \in Wanted(m)
    BY <1>5
  <2>2. \A x \in 1 .. Options[m] : drinkUnits[m][x] \in 0 .. MaxUnits
    BY DEF UnitsOf
  <2>3. \A x \in Wanted(m) : x \in 1 .. Options[m] /\ drinkUnits[m][x] # 0
    BY DEF Wanted
  <2>4. \A x \in Wanted(m) : drinkUnits[m][x] \in 1 .. MaxUnits
    BY <1>1, <2>2, <2>3
  <2> QED
    BY <2>1, <2>3, <2>4
<1>7. \A k \in DOMAIN o : w[k] \in Drinks!Item
  <2>1. \A k \in DOMAIN o : o[k] \in 1 .. Drinks!MaxOptions
    BY <1>1, <1>6
  <2>2. drinkTop \in Drinks!Screens
    BY DEF Drinks!Screens, Screens
  <2> QED
    BY <1>1, <1>4, <1>6, <2>1, <2>2 DEF Drinks!Item
<1>8. Len(o) \in Nat /\ DOMAIN o = 1 .. Len(o)
  BY <1>5
<1>9. w \in Seq(Drinks!Item) /\ DOMAIN w = DOMAIN o /\ Len(w) = Len(o)
  <2>1. w \in [1 .. Len(o) -> Drinks!Item]
    <3>1. DOMAIN w = 1 .. Len(o) /\ w = [k \in DOMAIN w |-> w[k]]
      BY <1>4, <1>8
    <3> QED
      BY <1>7, <1>8, <3>1
  <2> QED
    BY <1>8, <2>1, SequencesAre
<1>10. \A k \in DOMAIN o : /\ w[k].type = "drink" /\ w[k].of = drinkTop /\ w[k].units = drinkUnits[m][o[k]]
                           /\ w[k].valueUn = DrinkPrice[m][o[k]]
  BY <1>4
<1> QED
  BY <1>2, <1>3, <1>9, <1>10

LEMMA NewItemsFit ==
  ASSUME NEW m \in Menus, m = drinkStates[drinkTop].menu, drinkUnits[m] \in UnitsOf(m), drinkTop \in Screens,
         NEW w, w = Drinks!NewItems
  PROVE  w \in Seq(Drinks!Item) /\ IsOwn(w, "drinks", drinkTop)
<1> PICK o : o = InOrder(Wanted(m))
  OBVIOUS
<1>1. /\ Enumerates(o, Wanted(m)) /\ Wanted(m) \subseteq 1 .. Options[m]
      /\ w \in Seq(Drinks!Item) /\ DOMAIN w = DOMAIN o /\ Len(w) = Len(o)
      /\ \A k \in DOMAIN o : w[k].type = "drink" /\ w[k].of = drinkTop
  BY NewItemsAre
<1>2. Len(w) <= Drinks!MaxOptions
  <2>1. Options[m] \in Nat /\ Options[m] <= Drinks!MaxOptions /\ Drinks!MaxOptions \in Nat /\ IsFiniteSet(1 .. Options[m])
    BY MenuIs, OptionsBound
  <2>2. Cardinality(Wanted(m)) = Len(o) /\ Len(o) \in Nat
    <3>1. Wanted(m) \subseteq Int
      BY <1>1
    <3> QED
      BY <1>1, <3>1, EnumerationCounts
  <2>3. Cardinality(1 .. Options[m]) = Options[m]
    <3>1. \A a \in Nat, b \in Nat : IsFiniteSet(a .. b) /\ Cardinality(a .. b) = IF a > b THEN 0 ELSE b - a + 1
      BY FS_Interval
    <3>2. Options[m] \in Nat \ {0}
      BY MenuIs
    <3>3. Options[m] \in Nat /\ 1 \in Nat /\ ~ (1 > Options[m]) /\ Options[m] - 1 + 1 = Options[m]
      BY <3>2
    <3> QED
      BY <3>1, <3>3
  <2>4. Cardinality(Wanted(m)) <= Options[m]
    BY <1>1, <2>1, <2>3, FS_Subset
  <2> QED
    BY <1>1, <2>1, <2>2, <2>4
<1>3. \A k \in DOMAIN w : IsOf(w[k], "drinks", drinkTop)
  BY <1>1 DEF IsOf
<1> QED
  BY <1>1, <1>2, <1>3 DEF IsOwn

\* They cost what the screen shows.
LEMMA NewItemsCost ==
  ASSUME NEW m \in Menus, m = drinkStates[drinkTop].menu, drinkUnits[m] \in UnitsOf(m), drinkTop \in Screens,
         NEW w, w = Drinks!NewItems
  PROVE  SumFunction([k \in DOMAIN w |-> w[k].valueUn * w[k].units]) = Drinks!Value(m, drinkUnits[m])
<1> DEFINE S == Wanted(m)
           g == [k \in DOMAIN w |-> w[k].valueUn * w[k].units]
<1>01. PICK o : o = InOrder(Wanted(m))
  OBVIOUS
<1>02. PICK f : f = [x \in 1 .. Options[m] |-> DrinkPrice[m][x] * drinkUnits[m][x]]
  OBVIOUS
<1>1. /\ Enumerates(o, S) /\ S \subseteq 1 .. Options[m] /\ DOMAIN w = DOMAIN o
      /\ \A k \in DOMAIN o : w[k].units = drinkUnits[m][o[k]] /\ w[k].valueUn = DrinkPrice[m][o[k]]
  BY <1>01, NewItemsAre
<1>2. \A x \in 1 .. Options[m] : x \notin S => drinkUnits[m][x] = 0
  BY DEF Wanted
<1>3. /\ Drinks!Value(m, drinkUnits[m]) = SumFunctionOnSet(f, 1 .. Options[m]) /\ IsFiniteSet(1 .. Options[m])
      /\ \A x \in 1 .. Options[m] :
           f[x] = DrinkPrice[m][x] * drinkUnits[m][x] /\ f[x] \in Nat /\ (drinkUnits[m][x] = 0 => f[x] = 0)
  <2> PICK count \in UnitsOf(m) : count = drinkUnits[m]
    OBVIOUS
  <2>1. f = [x \in 1 .. Options[m] |-> DrinkPrice[m][x] * count[x]]
    BY <1>02
  <2>2. /\ Drinks!Value(m, count) = SumFunctionOnSet(f, 1 .. Options[m])
        /\ \A x \in 1 .. Options[m] : f[x] = DrinkPrice[m][x] * count[x] /\ f[x] \in Nat /\ (count[x] = 0 => f[x] = 0)
    BY SMTT(40), <2>1, ValueIs
  <2>3. IsFiniteSet(1 .. Options[m])
    BY MenuIs
  <2> QED
    BY <2>2, <2>3
<1> HIDE DEF S
<1>4. o \in Seq(S) /\ DOMAIN o = 1 .. Len(o) /\ Len(o) \in Nat /\ IsFiniteSet(DOMAIN o) /\ \A k \in DOMAIN o : o[k] \in S
  <2>1. o \in Seq(S)
    BY <1>1 DEF Enumerates
  <2>2. DOMAIN o = 1 .. Len(o) /\ Len(o) \in Nat
    BY <2>1
  <2>3. IsFiniteSet(DOMAIN o)
    <3>1. \A a \in Nat, b \in Nat : IsFiniteSet(a .. b)
      BY FS_Interval
    <3> QED
      BY <2>2, <3>1
  <2> QED
    BY <2>1, <2>2, <2>3
<1>5. \A k, l \in DOMAIN o : o[k] = o[l] => k = l
  <2>1. \A k, l \in DOMAIN o : k < l => o[k] < o[l]
    BY <1>1 DEF Enumerates
  <2>2. \A k \in DOMAIN o : o[k] \in Int
    <3>1. \A x \in 1 .. Options[m] : x \in Int
      OBVIOUS
    <3> QED
      BY <1>1, <1>4, <3>1
  <2>3. \A k, l \in DOMAIN o : k < l \/ l < k \/ k = l
    BY <1>4
  <2> QED
    BY <2>1, <2>2, <2>3
<1>6. DOMAIN g = DOMAIN o /\ \A k \in DOMAIN o : g[k] = f[o[k]] /\ f[o[k]] \in Int
  <2>1. \A k \in DOMAIN o : o[k] \in 1 .. Options[m]
    BY <1>1, <1>4
  <2>2. DOMAIN g = DOMAIN o /\ \A k \in DOMAIN o : g[k] = w[k].valueUn * w[k].units
    BY <1>1
  <2> QED
    BY <1>1, <1>3, <2>1, <2>2
<1> HIDE DEF g
<1>7. SumFunctionOnSet(g, DOMAIN o) = SumFunctionOnSet(f, {o[k] : k \in DOMAIN o})
  <2>1. IsFiniteSet(DOMAIN o) /\ (\A k, l \in DOMAIN o : o[k] = o[l] => k = l)
        /\ \A k \in DOMAIN o : g[k] = f[o[k]] /\ f[o[k]] \in Int
    BY <1>4, <1>5, <1>6
  <2> QED
    BY ONLY <2>1, SumRenamed
<1>8. {o[k] : k \in DOMAIN o} = S
  <2>1. \A x \in S : \E k \in DOMAIN o : o[k] = x
    BY <1>1 DEF Enumerates
  <2> QED
    BY <1>4, <2>1
<1>9. SumFunctionOnSet(f, 1 .. Options[m]) = SumFunctionOnSet(f, S)
  <2>1. (\A x \in 1 .. Options[m] : f[x] \in Int) /\ \A x \in (1 .. Options[m]) \ S : f[x] = 0
    BY <1>2, <1>3
  <2> QED
    BY <1>1, <1>3, <2>1, SumOfPart
<1>10. SumFunction(g) = SumFunctionOnSet(g, DOMAIN o)
  BY <1>6 DEF SumFunction
<1> QED
  BY <1>3, <1>7, <1>8, <1>9, <1>10 DEF g

-----------------------------------------------------------------------------
(* The invariant, and the steps of the screens *)

Ticked == AllNamed /\ TicksAreNamed
Safe   == AddedWillBeSaved /\ ChosenWillBeSaved
IndInv == ShopTypeOK /\ Core /\ Ticked /\ Safe /\ RowsAgree

\* The State objects.
State == [product : Products, items : Seq(Entries), units : 1 .. MaxUnits, valueUn : Nat,
          additionalsValue : Nat, additionals : SUBSET Extras]
DrinkState == [menu : Menus, items : Seq(Entries)]

\* What the two kinds of screens keep.
ProductType == OwnTypeOK(Entries)
DrinkType   == Drinks!OwnTypeOK(Entries)
SharedType  == data \in Seq(Entries) /\ hasData \in BOOLEAN /\ ready \in BOOLEAN /\ pending \in Seq(Task \cup Drinks!Task)

LEMMA TypesAre ==
  ShopTypeOK <=> SharedType /\ ProductType /\ DrinkType /\ (top = 0 \/ drinkTop = 0)
  BY DEF ShopTypeOK, SharedType, ProductType, DrinkType

LEMMA ProductTypeIs ==
  ProductType <=>
    /\ states \in Seq(State) /\ Len(states) <= MaxScreens /\ top \in 0 .. Len(states)
    /\ checked \subseteq Extras /\ loaded \subseteq Screens /\ added \subseteq Screens /\ early \subseteq added
    /\ swiped \in BOOLEAN /\ leftover \subseteq Screens
  BY DEF ProductType, OwnTypeOK, State

LEMMA DrinkTypeIs ==
  DrinkType <=>
    /\ \A m \in Menus : drinkUnits[m] \in UnitsOf(m)
    /\ drinkStates \in Seq(DrinkState) /\ Len(drinkStates) <= MaxScreens /\ drinkTop \in 0 .. Len(drinkStates)
    /\ rows \in Seq(0 .. MaxUnits) /\ drinkValue \in Nat /\ drinkLoaded \subseteq Screens
    /\ chosen \in [Screens -> Seq(Drinks!Item)] /\ drinkEarly \subseteq Screens /\ recreated \in BOOLEAN
  BY DEF DrinkType, Drinks!OwnTypeOK, DrinkState, UnitsOf, Drinks!Screens, Screens

LEMMA TypesAreCopies ==
  ASSUME ShopTypeOK
  PROVE  Copies
<1>1. pending \in Seq(Task \cup Drinks!Task) /\ data \in Seq(Entries)
  BY DEF ShopTypeOK
<1>2. MaxScreens \in Nat
  BY DetailsAssumption
<1>3. Opened("product") \subseteq Screens /\ \A s \in Opened("product") : Items("product", s) \in Seq(Entries)
  <2>1. states \in Seq(State) /\ Len(states) <= MaxScreens
    BY TypesAre, ProductTypeIs
  <2>2. DOMAIN states = 1 .. Len(states) /\ Len(states) \in Nat /\ \A s \in DOMAIN states : states[s] \in State
    BY <2>1
  <2>3. \A st \in State : st.items \in Seq(Entries)
    BY DEF State
  <2> QED
    BY <1>2, <2>1, <2>2, <2>3 DEF Opened, Items, Screens
<1>4. Opened("drinks") \subseteq Screens /\ \A s \in Opened("drinks") : Items("drinks", s) \in Seq(Entries)
  <2>1. drinkStates \in Seq(DrinkState) /\ Len(drinkStates) <= MaxScreens
    BY TypesAre, DrinkTypeIs
  <2>2. /\ DOMAIN drinkStates = 1 .. Len(drinkStates) /\ Len(drinkStates) \in Nat
        /\ \A s \in DOMAIN drinkStates : drinkStates[s] \in DrinkState
    BY <2>1
  <2>3. \A st \in DrinkState : st.items \in Seq(Entries)
    BY DEF DrinkState
  <2> QED
    BY <1>2, <2>1, <2>2, <2>3 DEF Opened, Items, Screens
<1> QED
  BY <1>1, <1>3, <1>4 DEF Copies, Both

\* The steps of one kind of screens leave the other's alone.
SideKept(on) ==
  /\ Opened(on)' = Opened(on) /\ LoadedOf(on)' = LoadedOf(on) /\ TopOf(on)' = TopOf(on)
  /\ \A s \in Opened(on) : Items(on, s)' = Items(on, s)

LEMMA DrinksKept ==
  ASSUME UNCHANGED drinkVars
  PROVE  SideKept("drinks") /\ (DrinkType => DrinkType') /\ (RowsAgree => RowsAgree')
         /\ chosen' = chosen /\ drinkEarly' = drinkEarly
<1>1. /\ UNCHANGED <<drinkUnits, drinkStates, drinkTop, rows, drinkValue, drinkLoaded>>
      /\ UNCHANGED <<chosen, drinkEarly, recreated>>
  BY DEF drinkVars
<1>2. SideKept("drinks")
  BY <1>1 DEF SideKept, Opened, Items, LoadedOf, TopOf
<1>3. DrinkType => DrinkType'
  BY <1>1 DEF DrinkType, Drinks!OwnTypeOK
<1>4. RowsAgree => RowsAgree'
  BY <1>1 DEF RowsAgree, Counted, Drinks!Value
<1> QED
  BY <1>1, <1>2, <1>3, <1>4

LEMMA ProductsKept ==
  ASSUME UNCHANGED productVars
  PROVE  SideKept("product") /\ (ProductType => ProductType') /\ (TicksAreNamed => TicksAreNamed')
         /\ added' = added /\ early' = early /\ leftover' = leftover
<1>1. UNCHANGED <<states, top, checked>> /\ UNCHANGED <<loaded, added, early, swiped, leftover>>
  BY DEF productVars, history
<1>2. SideKept("product")
  BY <1>1 DEF SideKept, Opened, Items, LoadedOf, TopOf
<1>3. ProductType => ProductType'
  BY <1>1 DEF ProductType, OwnTypeOK
<1>4. TicksAreNamed => TicksAreNamed'
  BY <1>1 DEF TicksAreNamed, Charges
<1> QED
  BY <1>1, <1>2, <1>3, <1>4

\* A step keeps the invariant if it is one of those above and what it adds is safe.
StepKeeps ==
  /\ ShopTypeOK' /\ CoreStep /\ TicksAreNamed' /\ RowsAgree' /\ leftover \subseteq leftover'
  /\ \A s \in added' \ early' : s \in added \ early \/ AddedIsSafe(s)'
  /\ \A s \in Screens \ drinkEarly' :
       \/ s \notin drinkEarly /\ chosen'[s] = chosen[s] /\ (Idles \/ ~ \E w : Adds("drinks", s, w))
       \/ ChosenIsSafe(s, chosen[s])'

LEMMA StepKeepsAll ==
  ASSUME IndInv, StepKeeps
  PROVE  IndInv'
<1>0. Core /\ CoreStep /\ ShopTypeOK' /\ TicksAreNamed' /\ RowsAgree'
  BY DEF IndInv, StepKeeps
<1>1. Core'
  <2>1. pending' \in Seq(Task \cup Drinks!Task)
    BY <1>0 DEF ShopTypeOK
  <2> QED
    BY <1>0, <2>1, CoreSteps
<1>2. AllNamed'
  BY <1>0, AllStayNamed DEF IndInv, Ticked, StepKeeps
<1>3. AddedWillBeSaved'
  <2>1. ASSUME NEW s \in added' \ early' PROVE AddedIsSafe(s)'
    <3>1. s \in added \ early => AddedIsSafe(s)
      BY DEF IndInv, Safe, AddedWillBeSaved
    <3> QED
      BY <1>0, <2>1, <3>1, AddedStaysSafe DEF StepKeeps
  <2> QED
    BY <2>1 DEF AddedWillBeSaved
<1>4. ChosenWillBeSaved'
  <2>1. ASSUME NEW s \in Screens \ drinkEarly' PROVE ChosenIsSafe(s, chosen[s])'
    <3>1. CASE s \notin drinkEarly /\ chosen'[s] = chosen[s] /\ (Idles \/ ~ \E w : Adds("drinks", s, w))
      <4> PICK c : c = chosen[s]
        OBVIOUS
      <4>1. ChosenIsSafe(s, c)
        BY <3>1, <2>1 DEF IndInv, Safe, ChosenWillBeSaved
      <4>2. ChosenIsSafe(s, c)'
        BY <1>0, <2>1, <3>1, <4>1, ChosenStaysSafe
      <4>3. chosen[s]' = c
        BY <3>1
      <4> QED
        BY <4>2, <4>3 DEF ChosenIsSafe
    <3> QED
      BY <2>1, <3>1 DEF StepKeeps
  <2> QED
    BY <2>1 DEF ChosenWillBeSaved
<1> QED
  BY <1>0, <1>1, <1>2, <1>3, <1>4 DEF IndInv, Ticked, Safe

-----------------------------------------------------------------------------
(* The product screens' steps *)

LEMMA ProductStep ==
  ASSUME IndInv, UNCHANGED drinkVars, SharedType', ProductType', top' = 0 \/ drinkTop = 0, CoreStep,
         TicksAreNamed', leftover \subseteq leftover',
         \A s \in added' \ early' : s \in added \ early \/ AddedIsSafe(s)'
  PROVE  IndInv'
<1>0. ShopTypeOK /\ RowsAgree
  BY DEF IndInv
<1>1. DrinkType' /\ RowsAgree' /\ SideKept("drinks") /\ chosen' = chosen /\ drinkEarly' = drinkEarly
  BY <1>0, DrinksKept, TypesAre
<1>2. ShopTypeOK'
  <2>1. drinkTop' = drinkTop
    BY DEF drinkVars
  <2> QED
    BY <1>1, <2>1 DEF ShopTypeOK, SharedType, ProductType, DrinkType
<1>3. \A s, w : ~ Adds("drinks", s, w)
  BY <1>1 DEF Adds, SideKept, Both
<1> QED
  BY <1>1, <1>2, <1>3, StepKeepsAll DEF StepKeeps

\* What the steps that change one State keep of the others.
LEMMA StateChanged ==
  ASSUME NEW s \in DOMAIN states, states \in Seq(State), NEW st \in State, states' = [states EXCEPT ![s] = st]
  PROVE  /\ states' \in Seq(State) /\ Len(states') = Len(states) /\ DOMAIN states' = DOMAIN states
         /\ states'[s] = st /\ Items("product", s)' = st.items
         /\ \A t \in DOMAIN states : t # s => states'[t] = states[t] /\ Items("product", t)' = Items("product", t)
<1>1. states' \in Seq(State) /\ Len(states') = Len(states) /\ DOMAIN states' = DOMAIN states
  OBVIOUS
<1>2. states'[s] = st /\ \A t \in DOMAIN states : t # s => states'[t] = states[t]
  OBVIOUS
<1> QED
  BY <1>1, <1>2 DEF Items

LEMMA ProductIs ==
  ASSUME IndInv
  PROVE  /\ SharedType /\ ProductType /\ Core /\ TicksAreNamed
         /\ states \in Seq(State) /\ Len(states) <= MaxScreens /\ top \in 0 .. Len(states) /\ Len(states) \in Nat
         /\ DOMAIN states = 1 .. Len(states) /\ Opened("product") = DOMAIN states
         /\ top # 0 => top \in DOMAIN states
         /\ \A s \in DOMAIN states : states[s] \in State
         /\ checked \subseteq Extras /\ loaded \subseteq Screens /\ added \subseteq Screens /\ early \subseteq added
         /\ swiped \in BOOLEAN /\ leftover \subseteq Screens
         /\ MaxScreens \in Nat /\ MaxUnits \in Nat \ {0} /\ DOMAIN states \subseteq Screens
<1>1. SharedType /\ ProductType /\ Core /\ TicksAreNamed
  BY TypesAre DEF IndInv, Ticked
<1>2. /\ states \in Seq(State) /\ Len(states) <= MaxScreens /\ top \in 0 .. Len(states)
      /\ checked \subseteq Extras /\ loaded \subseteq Screens /\ added \subseteq Screens /\ early \subseteq added
      /\ swiped \in BOOLEAN /\ leftover \subseteq Screens
  BY <1>1, ProductTypeIs
<1>3. /\ Len(states) \in Nat /\ DOMAIN states = 1 .. Len(states) /\ \A s \in DOMAIN states : states[s] \in State
  BY <1>2
<1>4. MaxScreens \in Nat /\ MaxUnits \in Nat \ {0}
  BY DetailsAssumption
<1>5. DOMAIN states \subseteq Screens /\ (top # 0 => top \in DOMAIN states)
  BY <1>2, <1>3, <1>4 DEF Screens
<1>6. Opened("product") = DOMAIN states
  BY DEF Opened
<1> QED
  BY <1>1, <1>2, <1>3, <1>4, <1>5, <1>6

\* A step that changes what a State shows, and neither its list nor the tasks.
LEMMA ProductIdles ==
  ASSUME IndInv, UNCHANGED drinkVars, UNCHANGED <<data, hasData, pending, loaded, added, early, leftover>>,
         ready' \in BOOLEAN, ProductType', TicksAreNamed', DOMAIN states' = DOMAIN states,
         top' = top \/ top' = 0, \A s \in DOMAIN states : states'[s].items = states[s].items
  PROVE  IndInv'
<1>1. SharedType' /\ (top' = 0 \/ drinkTop = 0)
  BY TypesAre DEF IndInv, SharedType
<1>2. SideKept("drinks")
  BY DrinksKept
<1>3. Idles
  <2>1. /\ Opened("product")' = Opened("product") /\ LoadedOf("product")' = LoadedOf("product")
        /\ TopOf("product")' = TopOf("product") \/ TopOf("product")' = 0
        /\ \A s \in Opened("product") : Items("product", s)' = Items("product", s)
    BY DEF Opened, LoadedOf, TopOf, Items
  <2> QED
    BY <1>2, <2>1 DEF Idles, SideKept, Both
<1> QED
  BY <1>1, <1>3, ProductStep DEF CoreStep

LEMMA ProductReady ==
  ASSUME IndInv, PrefsReady, UNCHANGED drinkVars
  PROVE  IndInv'
<1>1. UNCHANGED <<data, hasData, pending, loaded, added, early, leftover>> /\ ready' \in BOOLEAN
      /\ UNCHANGED <<states, top, checked, swiped>>
  BY DEF PrefsReady, history
<1>2. ProductType'
  BY <1>1, ProductIs DEF ProductType, OwnTypeOK
<1>3. TicksAreNamed'
  BY <1>1, ProductIs DEF TicksAreNamed, Charges
<1> QED
  BY <1>1, <1>2, <1>3, ProductIdles

NewState(p) == [product |-> p, items |-> <<>>, units |-> 1, valueUn |-> Price[p], additionalsValue |-> 0, additionals |-> {}]

LEMMA NewStateIs ==
  ASSUME NEW p \in Products
  PROVE  /\ NewState(p) \in State /\ NewState(p).items = <<>>
         /\ NewState(p).additionals = {} /\ NewState(p).additionalsValue = 0
<1>1. Price[p] \in Nat /\ MaxUnits \in Nat \ {0} /\ <<>> \in Seq(Entries)
  BY DetailsAssumption
<1> QED
  BY <1>1 DEF NewState, State

LEMMA ProductOpens ==
  ASSUME IndInv, NEW p \in Products, Open(p), drinkTop = 0, UNCHANGED drinkVars
  PROVE  IndInv'
<1>0. /\ states \in Seq(State) /\ Len(states) \in Nat /\ DOMAIN states = 1 .. Len(states) /\ Opened("product") = DOMAIN states
      /\ MaxScreens \in Nat /\ SharedType
  BY ProductIs
<1>1. /\ Len(states) < MaxScreens /\ states' = Append(states, NewState(p)) /\ top' = Len(states') /\ top = 0
      /\ pending' = Append(pending, [on |-> "product", call |-> "load", of |-> top'])
      /\ leftover' = (IF swiped THEN leftover \cup {top'} ELSE leftover)
      /\ UNCHANGED <<data, hasData, ready, checked, loaded, added, early, swiped>>
  BY DEF Open, Await, NewState
<1> PICK st \in State : st = NewState(p)
  BY NewStateIs
<1>2. st.items = <<>> /\ st.additionals = {} /\ st.additionalsValue = 0 /\ states' = Append(states, st)
  BY <1>1, NewStateIs
<1>3. /\ states' \in Seq(State) /\ Len(states') = Len(states) + 1 /\ DOMAIN states' = 1 .. Len(states) + 1
      /\ states'[Len(states) + 1] = st /\ \A s \in DOMAIN states : states'[s] = states[s]
  BY <1>0, <1>2
<1> PICK n : n = Len(states) + 1
  OBVIOUS
<1>4. n \in Screens /\ n \notin DOMAIN states /\ DOMAIN states' = DOMAIN states \cup {n} /\ top' = n /\ n # 0 /\ n \in Nat
  BY <1>0, <1>1, <1>3 DEF Screens
<1>5. Opens("product", n)
  <2>1. /\ Opened("product")' = Opened("product") \cup {n} /\ LoadedOf("product")' = LoadedOf("product")
        /\ TopOf("product") = 0 /\ TopOf("product")' = n /\ Items("product", n)' = <<>>
    BY <1>0, <1>1, <1>2, <1>3, <1>4 DEF Opened, LoadedOf, TopOf, Items
  <2>2. \A s \in Opened("product") : Items("product", s)' = Items("product", s)
    BY <1>0, <1>3 DEF Items
  <2>3. SideKept("drinks")
    BY DrinksKept
  <2>4. OthersKept("product", n)
    BY <2>2, <2>3 DEF OthersKept, SideKept, Both
  <2>5. TopOf("drinks") = 0
    BY DEF TopOf
  <2> QED
    BY <1>0, <1>1, <1>4, <2>1, <2>3, <2>4, <2>5 DEF Opens, SideKept, Both
<1>6. SharedType'
  <2>1. [on |-> "product", call |-> "load", of |-> n] \in Task
    BY <1>4 DEF Task
  <2>2. pending' \in Seq(Task \cup Drinks!Task)
    BY <1>0, <1>1, <1>4, <2>1 DEF SharedType
  <2> QED
    BY <1>0, <1>1, <2>2 DEF SharedType
<1>7. ProductType'
  <2>1. leftover' \subseteq Screens
    BY <1>1, <1>4, ProductIs
  <2>2. Len(states') <= MaxScreens /\ top' \in 0 .. Len(states')
    BY <1>0, <1>1, <1>3, <1>4
  <2>3. swiped' \in BOOLEAN
    BY <1>1, ProductIs
  <2> QED
    BY <1>1, <1>3, <2>1, <2>2, <2>3, ProductIs DEF ProductType, OwnTypeOK, State
<1>8. TicksAreNamed'
  <2>1. swiped \/ checked = {}
    BY <1>1, ProductIs DEF TicksAreNamed
  <2>2. states'[top'].additionals = {} /\ states'[top'].additionalsValue = 0 /\ top' # 0
    BY <1>2, <1>3, <1>4
  <2>3. CASE swiped
    BY <1>1, <2>2, <2>3 DEF TicksAreNamed
  <2>4. CASE checked = {}
    <3>1. checked' = {} /\ Charges({}) = 0
      BY <1>1, <2>4, ChargesAre
    <3> QED
      BY <2>2, <3>1 DEF TicksAreNamed, Charges
  <2> QED
    BY <2>1, <2>3, <2>4
<1>9. CoreStep /\ leftover \subseteq leftover'
  BY <1>1, <1>5 DEF CoreStep, Both
<1> QED
  BY <1>1, <1>6, <1>7, <1>8, <1>9, ProductStep

LEMMA ProductLoads ==
  ASSUME IndInv, NEW s \in Screens, Load(s), UNCHANGED drinkVars
  PROVE  IndInv'
<1>0. /\ states \in Seq(State) /\ DOMAIN states = 1 .. Len(states) /\ Opened("product") = DOMAIN states
      /\ SharedType /\ Core /\ \A t \in DOMAIN states : states[t] \in State
  BY ProductIs
<1> DEFINE st == IF ~hasData THEN states[s]
                 ELSE [states[s] EXCEPT !.items = data,
                                        !.valueUn = IF states[s].product \in Foods THEN Price[states[s].product] ELSE @]
<1>1. /\ pending # <<>> /\ Head(pending) = [on |-> "product", call |-> "load", of |-> s] /\ pending' = Tail(pending)
      /\ loaded' = loaded \cup {s} /\ UNCHANGED <<data, hasData, ready, top, checked, added, early, swiped, leftover>>
  BY DEF Load, Run
<1>2. Asks(1, "load", "product", s)
  <2>1. pending[1] = Head(pending)
    BY <1>0, <1>1 DEF SharedType
  <2> QED
    BY <1>1, <2>1 DEF Asks
<1>3. s \in DOMAIN states
  BY <1>0, <1>1, <1>2, TailShifts, HeadIsAlone DEF Core
<1>4. /\ st \in State /\ st.items = (IF hasData THEN data ELSE states[s].items)
      /\ st.additionals = states[s].additionals /\ st.additionalsValue = states[s].additionalsValue
  <2>1. states[s] \in State /\ data \in Seq(Entries) /\ \A p \in Foods : Price[p] \in Nat
    BY <1>0, <1>3, DetailsAssumption DEF SharedType, Products
  <2> QED
    BY <2>1 DEF State
<1>11. states' = [states EXCEPT ![s] = st]
  <2>1. states[s] \in State
    BY <1>0, <1>3
  <2>2. ASSUME hasData PROVE states' = [states EXCEPT ![s] = st]
    BY <1>0, <1>3, <2>1, <2>2 DEF Load, State
  <2>3. ASSUME ~hasData PROVE states' = [states EXCEPT ![s] = st]
    BY <1>0, <1>3, <2>3 DEF Load
  <2> QED
    BY <2>2, <2>3
<1> HIDE DEF st
<1>5. /\ states' \in Seq(State) /\ Len(states') = Len(states) /\ DOMAIN states' = DOMAIN states
      /\ states'[s] = st /\ Items("product", s)' = st.items
      /\ \A t \in DOMAIN states : t # s => states'[t] = states[t] /\ Items("product", t)' = Items("product", t)
  BY <1>0, <1>3, <1>4, <1>11, StateChanged
<1>6. Loads("product", s)
  <2>1. /\ Opened("product")' = Opened("product") /\ LoadedOf("product")' = LoadedOf("product") \cup {s}
        /\ TopOf("product")' = TopOf("product")
        /\ Items("product", s)' = (IF hasData THEN data ELSE Items("product", s))
    BY <1>0, <1>1, <1>4, <1>5 DEF Opened, LoadedOf, TopOf, Items
  <2>2. SideKept("drinks")
    BY DrinksKept
  <2>3. OthersKept("product", s)
    BY <1>0, <1>5, <2>2 DEF OthersKept, SideKept, Both
  <2> QED
    BY <1>1, <1>2, <2>1, <2>2, <2>3 DEF Loads, SideKept, Both
<1>7. SharedType'
  BY <1>0, <1>1 DEF SharedType
<1>8. ProductType'
  BY <1>1, <1>5, ProductIs DEF ProductType, OwnTypeOK, State
<1>9. TicksAreNamed'
  <2>1. \A t \in DOMAIN states : states'[t].additionals = states[t].additionals
                                 /\ states'[t].additionalsValue = states[t].additionalsValue
    BY <1>4, <1>5
  <2>2. top # 0 => top \in DOMAIN states
    BY ProductIs
  <2> QED
    BY <1>1, <2>1, <2>2, ProductIs DEF TicksAreNamed, Charges
<1>10. CoreStep /\ (top' = 0 \/ drinkTop = 0)
  BY <1>1, <1>6, TypesAre DEF CoreStep, Both, IndInv
<1> QED
  BY <1>1, <1>7, <1>8, <1>9, <1>10, ProductStep

LEMMA ProductSaves ==
  ASSUME IndInv, NEW s \in Screens, Save(s), UNCHANGED drinkVars
  PROVE  IndInv'
<1>0. SharedType /\ Core /\ Opened("product") = DOMAIN states /\ \A t \in DOMAIN states : states[t] \in State
  BY ProductIs
<1>1. /\ pending # <<>> /\ Head(pending) = [on |-> "product", call |-> "save", of |-> s] /\ pending' = Tail(pending)
      /\ data' = states[s].items /\ hasData' = TRUE
      /\ UNCHANGED <<ready, states, top, checked, loaded, added, early, swiped, leftover>>
  BY DEF Save, Run, history
<1>2. Asks(1, "save", "product", s)
  <2>1. pending[1] = Head(pending)
    BY <1>0, <1>1 DEF SharedType
  <2> QED
    BY <1>1, <2>1 DEF Asks
<1>3. s \in DOMAIN states
  BY <1>0, <1>1, <1>2, TailShifts, HeadIsAlone DEF Core
<1>4. SideKept("product") /\ data' = Items("product", s)
  BY <1>1 DEF SideKept, Opened, LoadedOf, TopOf, Items
<1>5. Saves("product", s)
  <2>1. SideKept("drinks")
    BY DrinksKept
  <2> QED
    BY <1>1, <1>2, <1>4, <2>1 DEF Saves, SideKept, Both
<1>6. SharedType'
  <2>1. data' \in Seq(Entries)
    BY <1>0, <1>1, <1>3 DEF State
  <2> QED
    BY <1>0, <1>1, <2>1 DEF SharedType
<1>7. ProductType'
  BY <1>1, ProductIs DEF ProductType, OwnTypeOK
<1>8. TicksAreNamed'
  BY <1>1, ProductIs DEF TicksAreNamed, Charges
<1>9. CoreStep /\ (top' = 0 \/ drinkTop = 0)
  BY <1>1, <1>5, TypesAre DEF CoreStep, Both, IndInv
<1> QED
  BY <1>1, <1>6, <1>7, <1>8, <1>9, ProductStep

\* Units or ticks: what the State on top shows is computed anew.
LEMMA ProductShows ==
  ASSUME IndInv, UNCHANGED drinkVars, top # 0, NEW st \in State, states' = [states EXCEPT ![top] = st],
         UNCHANGED <<data, hasData, ready, pending, top, loaded, added, early, swiped, leftover>>,
         checked' \subseteq Extras, st.items = states[top].items, st.additionalsValue = Charges(checked'),
         st.additionals = checked' \/ (st.additionals = {} /\ top \in leftover)
  PROVE  IndInv'
<1>0. states \in Seq(State) /\ top \in DOMAIN states /\ SharedType
  BY ProductIs
<1>1. /\ states' \in Seq(State) /\ Len(states') = Len(states) /\ DOMAIN states' = DOMAIN states /\ states'[top] = st
      /\ \A t \in DOMAIN states : t # top => states'[t] = states[t]
  BY <1>0, StateChanged
<1>2. ready' \in BOOLEAN /\ \A s \in DOMAIN states : states'[s].items = states[s].items
  BY <1>0, <1>1 DEF SharedType
<1>3. ProductType'
  BY <1>1, ProductIs DEF ProductType, OwnTypeOK, State
<1>4. TicksAreNamed'
  <2>1. states'[top'] = st /\ top' # 0 /\ leftover' = leftover
    BY <1>1
  <2>2. \A names : Charges(names)' = Charges(names)
    BY DEF Charges
  <2> QED
    BY <2>1, <2>2 DEF TicksAreNamed, Charges
<1> QED
  BY <1>1, <1>2, <1>3, <1>4, ProductIdles

LEMMA ShownPrice ==
  ASSUME NEW p \in Nat, NEW c \in Nat, NEW u \in Nat
  PROVE  (p + c) * u \in Nat
  OBVIOUS

LEMMA ProductUnits ==
  ASSUME IndInv, UNCHANGED drinkVars, top # 0, NEW n \in 1 .. MaxUnits, SetUnits(n)
  PROVE  IndInv'
<1>0. top \in DOMAIN states /\ states[top] \in State /\ checked \in SUBSET Extras /\ MaxUnits \in Nat
  BY ProductIs
<1> DEFINE st == [states[top] EXCEPT !.units = n, !.additionalsValue = Charges(checked),
                                     !.valueUn = (Price[states[top].product] + Charges(checked)) * n]
<1>1. /\ states' = [states EXCEPT ![top] = st]
      /\ UNCHANGED <<data, hasData, ready, pending, top, checked, loaded, added, early, swiped, leftover>>
  BY <1>0, ProductIs DEF SetUnits, State
<1>2. Charges(checked) \in Nat /\ (Price[states[top].product] + Charges(checked)) * n \in Nat
  <2>1. Price[states[top].product] \in Nat
    BY <1>0, DetailsAssumption DEF State
  <2>2. Charges(checked) \in Nat
    BY <1>0, ChargesAre
  <2> QED
    BY <1>0, <2>1, <2>2, ShownPrice
<1>3. st \in State /\ st.items = states[top].items /\ st.additionals = states[top].additionals
      /\ st.additionalsValue = Charges(checked)
  BY <1>0, <1>2 DEF State
<1>4. st.additionals = checked' \/ (st.additionals = {} /\ top \in leftover)
  BY <1>1, <1>3, ProductIs DEF TicksAreNamed
<1> HIDE DEF st
<1>5. checked' = checked /\ checked' \subseteq Extras
  BY <1>0, <1>1
<1> QED
  BY <1>1, <1>3, <1>4, <1>5, ProductShows

LEMMA ProductTicks ==
  ASSUME IndInv, UNCHANGED drinkVars, NEW e \in Extras, Tick(e)
  PROVE  IndInv'
<1>0. top # 0
  BY DEF Tick, Event
<1>1. top \in DOMAIN states /\ states[top] \in State /\ checked \in SUBSET Extras
  BY <1>0, ProductIs
<1> PICK c \in SUBSET Extras : c = checked'
  BY <1>1 DEF Tick
<1> DEFINE st == [states[top] EXCEPT !.additionals = c, !.additionalsValue = Charges(c),
                                     !.valueUn = (Price[states[top].product] + Charges(c)) * states[top].units]
<1>2. /\ states' = [states EXCEPT ![top] = st]
      /\ UNCHANGED <<data, hasData, ready, pending, top, loaded, added, early, swiped, leftover>>
  <2>1. states' = [states EXCEPT ![top].additionals = c, ![top].additionalsValue = Charges(c),
                     ![top].valueUn = (Price[states[top].product] + Charges(c)) * states[top].units]
    BY DEF Tick, Charges
  <2> QED
    BY <1>1, <2>1, ProductIs DEF Tick, State
<1>3. Charges(c) \in Nat /\ (Price[states[top].product] + Charges(c)) * states[top].units \in Nat
  <2>1. Price[states[top].product] \in Nat /\ states[top].units \in Nat
    BY <1>1, DetailsAssumption DEF State
  <2>2. Charges(c) \in Nat
    BY ChargesAre
  <2> QED
    BY <2>1, <2>2, ShownPrice
<1>4. st \in State /\ st.items = states[top].items /\ st.additionals = c /\ st.additionalsValue = Charges(c)
  BY <1>1, <1>3 DEF State
<1> HIDE DEF st
<1> QED
  BY <1>0, <1>2, <1>4, ProductShows

LEMMA ProductButtons ==
  ASSUME IndInv, UNCHANGED drinkVars, AddUnit \/ SubUnit
  PROVE  IndInv'
<1>1. top # 0
  BY DEF AddUnit, SubUnit, Event
<1>2. states[top].units \in 1 .. MaxUnits /\ MaxUnits \in Nat
  BY <1>1, ProductIs DEF State
<1>3. \E n \in 1 .. MaxUnits : SetUnits(n)
  <2>1. CASE AddUnit
    <3>1. states[top].units + 1 \in 1 .. MaxUnits /\ SetUnits(states[top].units + 1)
      BY <1>2, <2>1 DEF AddUnit
    <3> QED
      BY <3>1
  <2>2. CASE SubUnit
    <3>1. states[top].units - 1 \in 1 .. MaxUnits /\ SetUnits(states[top].units - 1)
      BY <1>2, <2>2 DEF SubUnit
    <3> QED
      BY <3>1
  <2> QED
    BY <2>1, <2>2
<1> QED
  BY <1>1, <1>3, ProductUnits

LEMMA ProductBacks ==
  ASSUME IndInv, UNCHANGED drinkVars, BackArrow \/ SystemBack
  PROVE  IndInv'
<1>1. /\ top' = 0 /\ UNCHANGED <<data, hasData, ready, pending, states, loaded, added, early, leftover>>
      /\ checked' \in {checked, {}} /\ (checked' = {} \/ swiped')
  BY DEF BackArrow, SystemBack
<1>2. swiped' \in BOOLEAN
  <2>1. CASE BackArrow
    BY <2>1 DEF BackArrow
  <2>2. CASE SystemBack
    <3>1. swiped' = (swiped \/ checked # {}) /\ swiped \in BOOLEAN
      BY <2>2, ProductIs DEF SystemBack
    <3> QED
      BY Zenon, <3>1
  <2> QED
    BY <2>1, <2>2
<1>3. ready' \in BOOLEAN /\ checked' \subseteq Extras
  BY <1>1, ProductIs DEF SharedType
<1>4. ProductType'
  <2>1. top' \in 0 .. Len(states')
    BY <1>1, ProductIs
  <2> QED
    BY <1>1, <1>2, <1>3, <2>1, ProductIs DEF ProductType, OwnTypeOK, State
<1>5. TicksAreNamed'
  BY <1>1 DEF TicksAreNamed
<1> QED
  BY <1>1, <1>3, <1>4, <1>5, ProductIdles

LEMMA NewItemIs ==
  ASSUME IndInv, top # 0
  PROVE  /\ NewItem(top) \in Entries /\ NewItem(top).type \in Kinds /\ NewItem(top).id = top
         /\ NewItem(top).valueUn \in Nat
         /\ \/ NewItem(top).valueUn = Price[NewItem(top).title] + Charges(NewItem(top).additionals)
            \/ NewItem(top).id \in leftover /\ NewItem(top).additionals = {}
<1>1. top \in DOMAIN states /\ top \in Screens /\ states[top] \in State
  BY ProductIs
<1>2. /\ states[top].product \in Products /\ states[top].units \in 1 .. MaxUnits
      /\ states[top].additionalsValue \in Nat /\ states[top].additionals \in SUBSET Extras
  BY <1>1 DEF State
<1>3. Price[states[top].product] + states[top].additionalsValue \in Nat
  BY <1>2, DetailsAssumption
<1>4. /\ NewItem(top).type \in Kinds /\ NewItem(top).id = top /\ NewItem(top).title = states[top].product
      /\ NewItem(top).valueUn = Price[states[top].product] + states[top].additionalsValue
      /\ NewItem(top).additionals = states[top].additionals
  BY DEF NewItem, Kinds
<1>5. NewItem(top) \in Item
  BY <1>1, <1>2, <1>3 DEF NewItem, Item, Kinds
<1>6. \/ states[top].additionals = checked /\ states[top].additionalsValue = Charges(checked)
      \/ states[top].additionals = {} /\ top \in leftover
  BY ProductIs DEF TicksAreNamed
<1> QED
  BY <1>3, <1>4, <1>5, <1>6 DEF Entries

LEMMA ProductAdds ==
  ASSUME IndInv, Add, UNCHANGED drinkVars
  PROVE  IndInv'
<1>0. /\ top # 0 /\ top \in DOMAIN states /\ top \in Screens /\ states \in Seq(State) /\ SharedType /\ Core
      /\ Opened("product") = DOMAIN states /\ states[top] \in State /\ \A t \in DOMAIN states : states[t] \in State
  BY ProductIs DEF Add, Event
<1> PICK e \in Entries : e = NewItem(top)
  BY <1>0, NewItemIs
<1> PICK s : s = top
  OBVIOUS
<1> PICK w : w = <<e>>
  OBVIOUS
<1> DEFINE st == [states[s] EXCEPT !.items = Append(states[s].items, e),
                                   !.valueUn = IF states[s].product \in Foods THEN e.valueUn ELSE states[s].valueUn]
<1>1. states' = [states EXCEPT ![s] = st]
  <2>1. states' = [states EXCEPT ![s].items = Append(@, e), ![s].valueUn = IF states[s].product \in Foods THEN e.valueUn ELSE @]
    BY DEF Add
  <2> QED
    BY <1>0, <2>1 DEF State
<1>2. /\ pending' = Append(pending, [on |-> "product", call |-> "save", of |-> s]) /\ checked' = {} /\ top' = 0
      /\ added' = added \cup {s} /\ early' = (IF s \in loaded THEN early ELSE early \cup {s}) /\ swiped' = FALSE
      /\ UNCHANGED <<data, hasData, ready, loaded, leftover>>
  BY DEF Add, Await
<1>3. /\ e.valueUn \in Nat /\ IsOf(e, "product", s)
      /\ (e.valueUn = Price[e.title] + Charges(e.additionals)) \/ (e.id \in leftover /\ e.additionals = {})
  BY <1>0, NewItemIs DEF IsOf
<1>4. st \in State /\ st.items = Append(states[s].items, e)
  <2>1. Append(states[s].items, e) \in Seq(Entries)
    BY <1>0 DEF State
  <2> QED
    BY <1>0, <1>3, <2>1 DEF State
<1> HIDE DEF st
<1>5. /\ states' \in Seq(State) /\ Len(states') = Len(states) /\ DOMAIN states' = DOMAIN states
      /\ Items("product", s)' = st.items
      /\ \A t \in DOMAIN states : t # s => Items("product", t)' = Items("product", t)
  BY <1>0, <1>1, <1>4, StateChanged
<1>6. /\ w \in Seq(Entries) /\ IsOwn(w, "product", s) /\ Named(w, leftover) /\ Len(w) = 1 /\ w # <<>>
  <2>1. w \in Seq(Entries) /\ Len(w) = 1 /\ DOMAIN w = {1} /\ w[1] = e
    OBVIOUS
  <2>2. IsOwn(w, "product", s)
    BY <1>3, <2>1, OptionsBound DEF IsOwn
  <2>3. Named(w, leftover)
    BY <1>3, <2>1 DEF Named
  <2> QED
    BY <2>1, <2>2, <2>3
<1>7. pending' = pending \o SavesOf("product", s, w)
  <2> PICK t : t = [on |-> "product", call |-> "save", of |-> s]
    OBVIOUS
  <2>1. SavesOf("product", s, w) = [k \in 1 .. 1 |-> t]
    BY <1>6 DEF SavesOf
  <2>2. [k \in 1 .. 1 |-> t] = <<t>>
    OBVIOUS
  <2>3. Append(pending, t) = pending \o <<t>>
    BY <1>0 DEF SharedType
  <2> QED
    BY <1>2, <2>1, <2>2, <2>3
<1>8. Adds("product", s, w)
  <2>1. Items("product", s)' = Items("product", s) \o w
    <3>1. states[s].items \in Seq(Entries)
      BY <1>0 DEF State
    <3>2. Append(states[s].items, e) = states[s].items \o <<e>>
      BY SMTT(40), <3>1
    <3> QED
      BY <1>4, <1>5, <3>2 DEF Items
  <2>2. Opened("product")' = Opened("product") /\ LoadedOf("product")' = LoadedOf("product") /\ TopOf("product")' = 0
        /\ TopOf("product") = s
    BY <1>2, <1>5 DEF Opened, LoadedOf, TopOf
  <2>3. SideKept("drinks") /\ TopOf("drinks")' = 0
    <3>1. drinkTop = 0
      BY <1>0, TypesAre DEF IndInv
    <3> QED
      BY <3>1, DrinksKept DEF SideKept, TopOf
  <2>4. OthersKept("product", s)
    BY <1>0, <1>5, <2>3 DEF OthersKept, SideKept, Both
  <2> QED
    BY <1>0, <1>2, <1>6, <1>7, <2>1, <2>2, <2>3, <2>4 DEF Adds, SideKept, Both
<1>9. SharedType'
  <2>1. [on |-> "product", call |-> "save", of |-> s] \in Task
    BY <1>0 DEF Task
  <2> QED
    BY <1>0, <1>2, <2>1 DEF SharedType
<1>10. ProductType'
  <2>1. top' \in 0 .. Len(states')
    BY <1>2, <1>5, ProductIs
  <2>2. added' \subseteq Screens /\ early' \subseteq added' /\ checked' \subseteq Extras /\ swiped' \in BOOLEAN
    BY <1>0, <1>2, ProductIs
  <2> QED
    BY <1>2, <1>5, <2>1, <2>2, ProductIs DEF ProductType, OwnTypeOK, State
<1>11. TicksAreNamed'
  BY <1>2 DEF TicksAreNamed
<1>12. \A t \in added' \ early' : t \in added \ early \/ AddedIsSafe(t)'
  <2>1. s \in loaded => AddedIsSafe(s)'
    <3>1. s \in loaded => s \in LoadedOf("product")
      BY DEF LoadedOf
    <3> QED
      BY <1>0, <1>6, <1>8, <3>1, AddedIsSafeNow
  <2>2. \A t \in added' \ early' : (t \in added \ early) \/ (t = s /\ s \in loaded)
    BY <1>2
  <2> QED
    BY <2>1, <2>2
<1>13. CoreStep /\ leftover \subseteq leftover'
  BY <1>2, <1>8 DEF CoreStep, Both
<1> QED
  BY <1>2, <1>9, <1>10, <1>11, <1>12, <1>13, ProductStep

-----------------------------------------------------------------------------
(* The drink screens' steps *)

LEMMA DrinkStep ==
  ASSUME IndInv, UNCHANGED productVars, SharedType', DrinkType', top = 0 \/ drinkTop' = 0, CoreStep, RowsAgree',
         \A s \in Screens \ drinkEarly' :
           \/ s \notin drinkEarly /\ chosen'[s] = chosen[s] /\ (Idles \/ ~ \E w : Adds("drinks", s, w))
           \/ ChosenIsSafe(s, chosen[s])'
  PROVE  IndInv'
<1>0. ShopTypeOK /\ TicksAreNamed
  BY DEF IndInv, Ticked
<1>1. ProductType' /\ TicksAreNamed' /\ added' = added /\ early' = early /\ leftover' = leftover
  BY <1>0, ProductsKept, TypesAre
<1>2. ShopTypeOK'
  <2>1. top' = top
    BY DEF productVars
  <2> QED
    BY <1>1, <2>1 DEF ShopTypeOK, SharedType, ProductType, DrinkType
<1> QED
  BY <1>1, <1>2, StepKeepsAll DEF StepKeeps

LEMMA DrinkIs ==
  ASSUME IndInv
  PROVE  /\ SharedType /\ Core /\ RowsAgree
         /\ drinkStates \in Seq(DrinkState) /\ Len(drinkStates) <= MaxScreens /\ drinkTop \in 0 .. Len(drinkStates)
         /\ Len(drinkStates) \in Nat /\ DOMAIN drinkStates = 1 .. Len(drinkStates)
         /\ Opened("drinks") = DOMAIN drinkStates /\ DOMAIN drinkStates \subseteq Screens
         /\ drinkTop # 0 => drinkTop \in DOMAIN drinkStates
         /\ \A s \in DOMAIN drinkStates : drinkStates[s] \in DrinkState
         /\ \A m \in Menus : drinkUnits[m] \in UnitsOf(m)
         /\ rows \in Seq(0 .. MaxUnits) /\ drinkValue \in Nat /\ drinkLoaded \subseteq Screens
         /\ chosen \in [Screens -> Seq(Drinks!Item)] /\ drinkEarly \subseteq Screens /\ recreated \in BOOLEAN
         /\ MaxScreens \in Nat /\ MaxUnits \in Nat \ {0} /\ (top = 0 \/ drinkTop = 0)
<1>1. SharedType /\ DrinkType /\ Core /\ RowsAgree /\ (top = 0 \/ drinkTop = 0)
  BY TypesAre DEF IndInv
<1>2. /\ drinkStates \in Seq(DrinkState) /\ Len(drinkStates) <= MaxScreens /\ drinkTop \in 0 .. Len(drinkStates)
      /\ \A m \in Menus : drinkUnits[m] \in UnitsOf(m)
      /\ rows \in Seq(0 .. MaxUnits) /\ drinkValue \in Nat /\ drinkLoaded \subseteq Screens
      /\ chosen \in [Screens -> Seq(Drinks!Item)] /\ drinkEarly \subseteq Screens /\ recreated \in BOOLEAN
  BY <1>1, DrinkTypeIs
<1>3. /\ Len(drinkStates) \in Nat /\ DOMAIN drinkStates = 1 .. Len(drinkStates)
      /\ \A s \in DOMAIN drinkStates : drinkStates[s] \in DrinkState
  BY <1>2
<1>4. MaxScreens \in Nat /\ MaxUnits \in Nat \ {0}
  BY DetailsAssumption
<1>5. DOMAIN drinkStates \subseteq Screens /\ (drinkTop # 0 => drinkTop \in DOMAIN drinkStates)
  BY <1>2, <1>3, <1>4 DEF Screens
<1>6. Opened("drinks") = DOMAIN drinkStates
  BY DEF Opened
<1> QED
  BY <1>1, <1>2, <1>3, <1>4, <1>5, <1>6

LEMMA DrinkTypeNow ==
  ASSUME \A m \in Menus : drinkUnits'[m] \in UnitsOf(m),
         drinkStates' \in Seq(DrinkState), Len(drinkStates') <= MaxScreens, drinkTop' \in 0 .. Len(drinkStates'),
         rows' \in Seq(0 .. MaxUnits), drinkValue' \in Nat, drinkLoaded' \subseteq Screens,
         chosen' \in [Screens -> Seq(Drinks!Item)], drinkEarly' \subseteq Screens, recreated' \in BOOLEAN
  PROVE  DrinkType'
  BY DEF DrinkType, Drinks!OwnTypeOK, DrinkState, UnitsOf, Drinks!Screens, Screens

LEMMA CountedNow ==
  ASSUME NEW m \in Menus, drinkTop' # 0 => drinkStates'[drinkTop'].menu = m, DOMAIN drinkUnits' = Menus,
         NEW u, u = drinkUnits'[m], rows' \in UnitsOf(m), drinkValue' = Drinks!Value(m, u),
         \A o \in 1 .. Options[m] : rows'[o] <= u[o] /\ (~recreated' => rows'[o] = u[o])
  PROVE  RowsAgree'
  BY DEF RowsAgree, Counted, UnitsOf, Drinks!Value

LEMMA RowsAreSequences ==
  ASSUME NEW m \in Menus, NEW r \in UnitsOf(m)
  PROVE  r \in Seq(0 .. MaxUnits) /\ DOMAIN r = 1 .. Options[m]
<1> PICK n : n = Options[m]
  OBVIOUS
<1> PICK T : T = 0 .. MaxUnits
  OBVIOUS
<1>1. n \in Nat
  BY MenuIs
<1>2. r \in [1 .. n -> T]
  BY DEF UnitsOf
<1> QED
  BY ONLY <1>1, <1>2, n = Options[m], T = 0 .. MaxUnits, SequencesAre

\* Only the "Adicionar ao carrinho" of the screen on top adds.
LEMMA NothingAdded ==
  ASSUME TopOf("drinks") = 0 \/ TopOf("drinks")' = TopOf("drinks") \/ TopOf("drinks")' # 0
  PROVE  \A s, w : ~ Adds("drinks", s, w)
  BY DEF Adds, Both

\* A step that changes the rows and what they count, and neither the lists nor the tasks.
LEMMA DrinkIdles ==
  ASSUME IndInv, UNCHANGED productVars,
         UNCHANGED <<data, hasData, ready, pending, drinkStates, drinkLoaded, chosen, drinkEarly>>,
         \A m \in Menus : drinkUnits'[m] \in UnitsOf(m), rows' \in Seq(0 .. MaxUnits), drinkValue' \in Nat,
         recreated' \in BOOLEAN, RowsAgree', drinkTop' = drinkTop \/ drinkTop' = 0
  PROVE  IndInv'
<1>1. SharedType' /\ (top = 0 \/ drinkTop' = 0)
  BY DrinkIs DEF SharedType
<1>2. SideKept("product")
  BY ProductsKept
<1>3. Idles
  <2>1. /\ Opened("drinks")' = Opened("drinks") /\ LoadedOf("drinks")' = LoadedOf("drinks")
        /\ TopOf("drinks")' = TopOf("drinks") \/ TopOf("drinks")' = 0
        /\ \A s \in Opened("drinks") : Items("drinks", s)' = Items("drinks", s)
    BY DEF Opened, LoadedOf, TopOf, Items
  <2> QED
    BY <1>2, <2>1 DEF Idles, SideKept, Both
<1>4. DrinkType'
  <2>1. drinkTop' \in 0 .. Len(drinkStates')
    BY DrinkIs
  <2> QED
    BY <2>1, DrinkIs, DrinkTypeNow
<1>5. \A s \in Screens \ drinkEarly' : s \notin drinkEarly /\ chosen'[s] = chosen[s]
  OBVIOUS
<1> QED
  BY <1>1, <1>3, <1>4, <1>5, DrinkStep DEF CoreStep

LEMMA DrinkBacks ==
  ASSUME IndInv, UNCHANGED productVars, Drinks!Back
  PROVE  IndInv'
<1>1. /\ drinkTop' = 0 /\ rows' = <<>> /\ drinkValue' = 0
      /\ UNCHANGED <<data, hasData, ready, pending, drinkUnits, drinkStates, drinkLoaded, chosen, drinkEarly, recreated>>
  BY DEF Drinks!Back, Drinks!history
<1>2. rows' \in Seq(0 .. MaxUnits) /\ drinkValue' \in Nat
  BY <1>1
<1>3. RowsAgree'
  BY <1>1, DrinkIs DEF RowsAgree
<1>4. (\A m \in Menus : drinkUnits'[m] \in UnitsOf(m)) /\ recreated' \in BOOLEAN
  BY <1>1, DrinkIs
<1> QED
  BY <1>1, <1>2, <1>3, <1>4, DrinkIdles

LEMMA DrinkRowsRecreated ==
  ASSUME IndInv, UNCHANGED productVars, Drinks!RecreateRows
  PROVE  IndInv'
<1>1. /\ drinkTop # 0 /\ rows' = Drinks!None(drinkStates[drinkTop].menu) /\ recreated' = TRUE
      /\ UNCHANGED <<data, hasData, ready, pending, drinkUnits, drinkStates, drinkTop, drinkValue, drinkLoaded, chosen, drinkEarly>>
  BY DEF Drinks!RecreateRows, Drinks!Event, Drinks!menu
<1> PICK m \in Menus : m = drinkStates[drinkTop].menu
  BY <1>1, DrinkIs DEF DrinkState
<1>2. rows' \in UnitsOf(m) /\ \A o \in 1 .. Options[m] : rows'[o] = 0
  BY <1>1, NoneIs
<1>3. \A x \in Menus : drinkUnits[x] \in UnitsOf(x)
  BY DrinkIs
<1>4. \A o \in 1 .. Options[m] : rows'[o] <= drinkUnits[m][o]
  <2>1. \A o \in 1 .. Options[m] : drinkUnits[m][o] \in 0 .. MaxUnits
    BY <1>3 DEF UnitsOf
  <2> QED
    BY <1>2, <2>1, DetailsAssumption
<1>5. DOMAIN drinkUnits = Menus /\ drinkValue = Drinks!Value(m, drinkUnits[m])
  BY <1>1, DrinkIs DEF RowsAgree, Counted
<1>6. RowsAgree'
  <2> PICK u : u = drinkUnits'[m]
    OBVIOUS
  <2>1. u = drinkUnits[m] /\ drinkStates'[drinkTop'].menu = m /\ DOMAIN drinkUnits' = Menus /\ drinkValue' = Drinks!Value(m, u)
    BY <1>1, <1>5
  <2> QED
    BY <1>1, <1>2, <1>4, <2>1, CountedNow
<1>7. rows' \in Seq(0 .. MaxUnits)
  BY <1>2, RowsAreSequences
<1>8. drinkValue' \in Nat /\ recreated' \in BOOLEAN /\ \A x \in Menus : drinkUnits'[x] \in UnitsOf(x)
  BY <1>1, <1>3, DrinkIs
<1> QED
  BY <1>1, <1>6, <1>7, <1>8, DrinkIdles

LEMMA DrinkCounts ==
  ASSUME IndInv, UNCHANGED productVars, drinkTop # 0, NEW o \in DOMAIN rows, NEW d \in {1, -1}, Drinks!Count(o, d),
         rows[o] + d >= 0, drinkUnits[drinkStates[drinkTop].menu][o] + d <= MaxUnits
  PROVE  IndInv'
<1>0. drinkStates[drinkTop].menu \in Menus
  BY DrinkIs DEF DrinkState
<1> PICK m \in Menus : m = drinkStates[drinkTop].menu
  BY <1>0
<1>1. /\ rows' = [rows EXCEPT ![o] = @ + d] /\ drinkUnits' = [drinkUnits EXCEPT ![m][o] = @ + d]
      /\ drinkValue' = Drinks!Value(m, drinkUnits'[m])
      /\ UNCHANGED <<data, hasData, ready, pending, drinkStates, drinkTop, drinkLoaded, chosen, drinkEarly, recreated>>
  BY DEF Drinks!Count, Drinks!menu, Drinks!history
<1>2. DOMAIN drinkUnits = Menus /\ Counted(m)
  BY DrinkIs DEF RowsAgree
<1>3. rows \in UnitsOf(m) /\ DOMAIN rows = 1 .. Options[m] /\ \A x \in Menus : drinkUnits[x] \in UnitsOf(x)
  BY <1>2, DrinkIs DEF Counted, UnitsOf
<1>4. /\ \A k \in 1 .. Options[m] : rows[k] \in 0 .. MaxUnits /\ drinkUnits[m][k] \in 0 .. MaxUnits
      /\ \A k \in 1 .. Options[m] : rows[k] <= drinkUnits[m][k] /\ (~recreated => rows[k] = drinkUnits[m][k])
      /\ MaxUnits \in Nat /\ o \in 1 .. Options[m]
  <2>1. \A k \in 1 .. Options[m] : rows[k] \in 0 .. MaxUnits
    BY <1>3 DEF UnitsOf
  <2>2. \A k \in 1 .. Options[m] : drinkUnits[m][k] \in 0 .. MaxUnits
    BY <1>3 DEF UnitsOf
  <2> QED
    BY <1>2, <1>3, <2>1, <2>2, MenuIs DEF Counted
<1> PICK u : u = [drinkUnits[m] EXCEPT ![o] = @ + d]
  OBVIOUS
<1>5. drinkUnits' = [drinkUnits EXCEPT ![m] = u]
  BY <1>1, <1>2
<1>6. drinkUnits'[m] = u /\ DOMAIN drinkUnits' = Menus /\ \A x \in Menus : x # m => drinkUnits'[x] = drinkUnits[x]
  BY <1>2, <1>5
<1>7. rows[o] + d \in 0 .. MaxUnits /\ drinkUnits[m][o] + d \in 0 .. MaxUnits
  BY <1>4
<1>8. rows' \in UnitsOf(m) /\ u \in UnitsOf(m)
  BY <1>1, <1>3, <1>7 DEF UnitsOf
<1>9. \A k \in 1 .. Options[m] : /\ k # o => rows'[k] = rows[k] /\ u[k] = drinkUnits[m][k]
                                 /\ rows'[o] = rows[o] + d /\ u[o] = drinkUnits[m][o] + d
  BY <1>1, <1>3, <1>4 DEF UnitsOf
<1>10. \A k \in 1 .. Options[m] : rows'[k] <= u[k] /\ (~recreated' => rows'[k] = u[k])
  BY <1>1, <1>4, <1>9
<1>11. drinkValue' = Drinks!Value(m, u) /\ drinkValue' \in Nat
  <2>1. drinkValue' = Drinks!Value(m, u)
    BY <1>1, <1>6
  <2> PICK f : f = [x \in 1 .. Options[m] |-> DrinkPrice[m][x] * u[x]]
    OBVIOUS
  <2>2. Drinks!Value(m, u) \in Nat
    BY <1>8, ValueIs
  <2> QED
    BY <2>1, <2>2
<1>12. RowsAgree'
  <2>1. drinkStates'[drinkTop'].menu = m
    BY <1>1
  <2> QED
    BY <1>6, <1>8, <1>10, <1>11, <2>1, CountedNow
<1>13. \A x \in Menus : drinkUnits'[x] \in UnitsOf(x)
  BY <1>3, <1>6, <1>8
<1>14. rows' \in Seq(0 .. MaxUnits) /\ recreated' \in BOOLEAN
  BY <1>1, <1>8, RowsAreSequences, DrinkIs
<1> QED
  BY <1>1, <1>11, <1>12, <1>13, <1>14, DrinkIdles

LEMMA DrinkButtons ==
  ASSUME IndInv, UNCHANGED productVars, NEW o \in 1 .. Drinks!MaxOptions, Drinks!AddUnit(o) \/ Drinks!SubUnit(o)
  PROVE  IndInv'
<1>0. drinkTop # 0 /\ o \in DOMAIN rows
  BY DEF Drinks!AddUnit, Drinks!SubUnit, Drinks!Event
<1>1. drinkStates[drinkTop].menu \in Menus
  BY <1>0, DrinkIs DEF DrinkState
<1> PICK m \in Menus : m = drinkStates[drinkTop].menu
  BY <1>1
<1>2. rows[o] \in 0 .. MaxUnits /\ drinkUnits[m][o] \in 0 .. MaxUnits /\ MaxUnits \in Nat
  <2>1. rows \in UnitsOf(m) /\ drinkUnits[m] \in UnitsOf(m)
    BY <1>0, DrinkIs DEF RowsAgree, Counted, UnitsOf
  <2> QED
    BY <1>0, <2>1, MenuIs DEF UnitsOf
<1>3. CASE Drinks!AddUnit(o)
  <2>1. Drinks!Count(o, 1) /\ drinkUnits[m][o] < MaxUnits
    BY <1>3 DEF Drinks!AddUnit, Drinks!menu
  <2>2. rows[o] + 1 >= 0 /\ drinkUnits[m][o] + 1 <= MaxUnits
    BY <1>2, <2>1
  <2> QED
    BY <1>0, <2>1, <2>2, DrinkCounts
<1>4. CASE Drinks!SubUnit(o)
  <2>1. Drinks!Count(o, -1) /\ rows[o] > 0
    BY <1>4 DEF Drinks!SubUnit
  <2>2. rows[o] + (-1) >= 0 /\ drinkUnits[m][o] + (-1) <= MaxUnits
    BY <1>2, <2>1
  <2> QED
    BY <1>0, <2>1, <2>2, DrinkCounts
<1> QED
  BY <1>3, <1>4

LEMMA DrinkOpens ==
  ASSUME IndInv, NEW m \in Menus, Drinks!Open(m), top = 0, UNCHANGED productVars
  PROVE  IndInv'
<1>0. /\ drinkStates \in Seq(DrinkState) /\ Len(drinkStates) \in Nat /\ DOMAIN drinkStates = 1 .. Len(drinkStates)
      /\ Opened("drinks") = DOMAIN drinkStates /\ MaxScreens \in Nat /\ SharedType
  BY DrinkIs
<1>1. /\ Len(drinkStates) < MaxScreens /\ drinkStates' = Append(drinkStates, [menu |-> m, items |-> <<>>])
      /\ drinkTop' = Len(drinkStates') /\ drinkTop = 0 /\ rows' = Drinks!None(m) /\ drinkValue' = 0
      /\ pending' = Append(pending, [on |-> "drinks", call |-> "load", of |-> drinkTop'])
      /\ drinkUnits' = [drinkUnits EXCEPT ![m] = Drinks!None(m)] /\ recreated' = FALSE
      /\ UNCHANGED <<data, hasData, ready, drinkLoaded, chosen, drinkEarly>>
  BY DEF Drinks!Open
<1>01. <<>> \in Seq(Entries)
  OBVIOUS
<1> PICK st \in DrinkState : st = [menu |-> m, items |-> <<>>]
  BY <1>01 DEF DrinkState
<1>2. st.items = <<>> /\ st.menu = m /\ drinkStates' = Append(drinkStates, st)
  BY <1>1
<1>3. /\ drinkStates' \in Seq(DrinkState) /\ Len(drinkStates') = Len(drinkStates) + 1
      /\ DOMAIN drinkStates' = 1 .. Len(drinkStates) + 1 /\ drinkStates'[Len(drinkStates) + 1] = st
      /\ \A s \in DOMAIN drinkStates : drinkStates'[s] = drinkStates[s]
  BY <1>0, <1>2
<1> PICK n : n = Len(drinkStates) + 1
  OBVIOUS
<1>4. /\ n \in Screens /\ n \notin DOMAIN drinkStates /\ DOMAIN drinkStates' = DOMAIN drinkStates \cup {n}
      /\ drinkTop' = n /\ n # 0 /\ n \in Nat
  BY <1>0, <1>1, <1>3 DEF Screens
<1>5. Opens("drinks", n)
  <2>1. /\ Opened("drinks")' = Opened("drinks") \cup {n} /\ LoadedOf("drinks")' = LoadedOf("drinks")
        /\ TopOf("drinks") = 0 /\ TopOf("drinks")' = n /\ Items("drinks", n)' = <<>>
    BY <1>0, <1>1, <1>2, <1>3, <1>4 DEF Opened, LoadedOf, TopOf, Items
  <2>2. \A s \in Opened("drinks") : Items("drinks", s)' = Items("drinks", s)
    BY <1>0, <1>3 DEF Items
  <2>3. SideKept("product")
    BY ProductsKept
  <2>4. OthersKept("drinks", n)
    BY <2>2, <2>3 DEF OthersKept, SideKept, Both
  <2>5. TopOf("product") = 0
    BY DEF TopOf
  <2> QED
    BY <1>0, <1>1, <1>4, <2>1, <2>3, <2>4, <2>5 DEF Opens, SideKept, Both
<1>6. SharedType'
  <2>1. [on |-> "drinks", call |-> "load", of |-> n] \in Drinks!Task
    BY <1>4 DEF Drinks!Task, Drinks!Screens, Screens
  <2>2. pending' \in Seq(Task \cup Drinks!Task)
    BY <1>0, <1>1, <1>4, <2>1 DEF SharedType
  <2> QED
    BY <1>0, <1>1, <2>2 DEF SharedType
<1>7. /\ Drinks!None(m) \in UnitsOf(m) /\ Drinks!Value(m, Drinks!None(m)) = 0
      /\ \A o \in 1 .. Options[m] : Drinks!None(m)[o] = 0
  BY NoneIs
<1>8. drinkUnits'[m] = Drinks!None(m) /\ DOMAIN drinkUnits' = Menus /\ \A x \in Menus : drinkUnits'[x] \in UnitsOf(x)
  <2>1. DOMAIN drinkUnits = Menus /\ \A x \in Menus : drinkUnits[x] \in UnitsOf(x)
    BY DrinkIs DEF RowsAgree
  <2> QED
    BY <1>1, <1>7, <2>1
<1>9. RowsAgree'
  <2>1. drinkTop' # 0 => drinkStates'[drinkTop'].menu = m
    BY <1>2, <1>3, <1>4
  <2> PICK u : u = Drinks!None(m)
    OBVIOUS
  <2>2. \A o \in 1 .. Options[m] : rows'[o] <= u[o] /\ rows'[o] = u[o]
    BY <1>1, <1>7
  <2> QED
    BY <1>1, <1>7, <1>8, <2>1, <2>2, CountedNow
<1>10. DrinkType'
  <2>1. Len(drinkStates') <= MaxScreens /\ drinkTop' \in 0 .. Len(drinkStates') /\ drinkValue' \in Nat
    <3>1. Len(drinkStates') = n /\ drinkTop' = n /\ n \in Nat /\ n <= MaxScreens
      BY <1>0, <1>1, <1>3, <1>4
    <3> QED
      BY <1>1, <3>1
  <2>4. recreated' \in BOOLEAN
    BY <1>1
  <2>2. rows' \in Seq(0 .. MaxUnits)
    BY <1>1, <1>7, RowsAreSequences
  <2>3. drinkLoaded' \subseteq Screens /\ chosen' \in [Screens -> Seq(Drinks!Item)] /\ drinkEarly' \subseteq Screens
    BY <1>1, DrinkIs
  <2> QED
    BY <1>3, <1>8, <2>1, <2>2, <2>3, <2>4, DrinkTypeNow
<1>11. CoreStep
  BY <1>5 DEF CoreStep, Both
<1>12. \A s, w : ~ Adds("drinks", s, w)
  <2>1. TopOf("drinks") = 0
    BY <1>1 DEF TopOf
  <2> QED
    BY <2>1, NothingAdded
<1> QED
  BY <1>1, <1>6, <1>9, <1>10, <1>11, <1>12, DrinkStep

LEMMA DrinkChanged ==
  ASSUME NEW s \in DOMAIN drinkStates, drinkStates \in Seq(DrinkState), NEW st \in DrinkState,
         drinkStates' = [drinkStates EXCEPT ![s] = st]
  PROVE  /\ drinkStates' \in Seq(DrinkState) /\ Len(drinkStates') = Len(drinkStates) /\ DOMAIN drinkStates' = DOMAIN drinkStates
         /\ drinkStates'[s] = st /\ Items("drinks", s)' = st.items
         /\ \A t \in DOMAIN drinkStates : t # s => drinkStates'[t] = drinkStates[t] /\ Items("drinks", t)' = Items("drinks", t)
<1>1. drinkStates' \in Seq(DrinkState) /\ Len(drinkStates') = Len(drinkStates) /\ DOMAIN drinkStates' = DOMAIN drinkStates
  OBVIOUS
<1>2. drinkStates'[s] = st /\ \A t \in DOMAIN drinkStates : t # s => drinkStates'[t] = drinkStates[t]
  OBVIOUS
<1> QED
  BY <1>1, <1>2 DEF Items

LEMMA DrinkLoads ==
  ASSUME IndInv, NEW s \in Screens, Drinks!Load(s), UNCHANGED productVars
  PROVE  IndInv'
<1>0. /\ drinkStates \in Seq(DrinkState) /\ DOMAIN drinkStates = 1 .. Len(drinkStates) /\ Opened("drinks") = DOMAIN drinkStates
      /\ SharedType /\ Core /\ \A t \in DOMAIN drinkStates : drinkStates[t] \in DrinkState
  BY DrinkIs
<1> DEFINE st == IF ~hasData THEN drinkStates[s] ELSE [drinkStates[s] EXCEPT !.items = data]
<1>1. /\ pending # <<>> /\ Head(pending) = [on |-> "drinks", call |-> "load", of |-> s] /\ pending' = Tail(pending)
      /\ drinkLoaded' = drinkLoaded \cup {s}
      /\ UNCHANGED <<data, hasData, ready, drinkUnits, drinkTop, rows, drinkValue, chosen, drinkEarly, recreated>>
  BY DEF Drinks!Load, Drinks!Run, Drinks!screen
<1>2. Asks(1, "load", "drinks", s)
  <2>1. pending[1] = Head(pending)
    BY <1>0, <1>1 DEF SharedType
  <2> QED
    BY <1>1, <2>1 DEF Asks
<1>3. s \in DOMAIN drinkStates
  BY <1>0, <1>1, <1>2, TailShifts, HeadIsAlone DEF Core
<1>4. /\ st \in DrinkState /\ st.menu = drinkStates[s].menu /\ st.items = (IF hasData THEN data ELSE drinkStates[s].items)
      /\ drinkStates' = [drinkStates EXCEPT ![s] = st]
  <2>1. drinkStates[s] \in DrinkState /\ data \in Seq(Entries)
    BY <1>0, <1>3 DEF SharedType
  <2>2. st \in DrinkState /\ st.menu = drinkStates[s].menu /\ st.items = (IF hasData THEN data ELSE drinkStates[s].items)
    BY <2>1 DEF DrinkState
  <2>3. ASSUME hasData PROVE drinkStates' = [drinkStates EXCEPT ![s] = st]
    BY <1>0, <1>3, <2>1, <2>3 DEF Drinks!Load, DrinkState
  <2>4. ASSUME ~hasData PROVE drinkStates' = [drinkStates EXCEPT ![s] = st]
    BY <1>0, <1>3, <2>4 DEF Drinks!Load
  <2> QED
    BY <2>2, <2>3, <2>4
<1> HIDE DEF st
<1>5. /\ drinkStates' \in Seq(DrinkState) /\ Len(drinkStates') = Len(drinkStates) /\ DOMAIN drinkStates' = DOMAIN drinkStates
      /\ drinkStates'[s] = st /\ Items("drinks", s)' = st.items
      /\ \A t \in DOMAIN drinkStates : t # s => drinkStates'[t] = drinkStates[t] /\ Items("drinks", t)' = Items("drinks", t)
  BY <1>0, <1>3, <1>4, DrinkChanged
<1>6. Loads("drinks", s)
  <2>1. /\ Opened("drinks")' = Opened("drinks") /\ LoadedOf("drinks")' = LoadedOf("drinks") \cup {s}
        /\ TopOf("drinks")' = TopOf("drinks")
        /\ Items("drinks", s)' = (IF hasData THEN data ELSE Items("drinks", s))
    BY <1>0, <1>1, <1>4, <1>5 DEF Opened, LoadedOf, TopOf, Items
  <2>2. SideKept("product")
    BY ProductsKept
  <2>3. OthersKept("drinks", s)
    BY <1>0, <1>5, <2>2 DEF OthersKept, SideKept, Both
  <2> QED
    BY <1>1, <1>2, <2>1, <2>2, <2>3 DEF Loads, SideKept, Both
<1>7. SharedType'
  BY <1>0, <1>1 DEF SharedType
<1>8. DrinkType'
  <2>1. drinkLoaded' \subseteq Screens
    BY <1>1, DrinkIs
  <2> QED
    BY <1>1, <1>5, <2>1, DrinkIs, DrinkTypeNow
<1>9. RowsAgree'
  <2>1. \A t \in DOMAIN drinkStates : drinkStates'[t].menu = drinkStates[t].menu
    BY <1>4, <1>5
  <2>2. drinkTop # 0 => drinkTop \in DOMAIN drinkStates
    BY DrinkIs
  <2> QED
    BY <1>1, <2>1, <2>2, DrinkIs DEF RowsAgree, Counted, Drinks!Value
<1>10. CoreStep /\ (top = 0 \/ drinkTop' = 0) /\ \A t, w : ~ Adds("drinks", t, w)
  <2>1. TopOf("drinks")' = TopOf("drinks")
    BY <1>1 DEF TopOf
  <2> QED
    BY <1>1, <1>6, <2>1, NothingAdded, DrinkIs DEF CoreStep, Both
<1> QED
  BY <1>1, <1>7, <1>8, <1>9, <1>10, DrinkStep

LEMMA DrinkSaves ==
  ASSUME IndInv, NEW s \in Screens, Drinks!Save(s), UNCHANGED productVars
  PROVE  IndInv'
<1>0. SharedType /\ Core /\ Opened("drinks") = DOMAIN drinkStates /\ \A t \in DOMAIN drinkStates : drinkStates[t] \in DrinkState
  BY DrinkIs
<1>1. /\ pending # <<>> /\ Head(pending) = [on |-> "drinks", call |-> "save", of |-> s] /\ pending' = Tail(pending)
      /\ data' = drinkStates[s].items /\ hasData' = TRUE
      /\ UNCHANGED <<ready, drinkUnits, drinkStates, drinkTop, rows, drinkValue, drinkLoaded, chosen, drinkEarly, recreated>>
  BY DEF Drinks!Save, Drinks!Run, Drinks!screen, Drinks!history
<1>2. Asks(1, "save", "drinks", s)
  <2>1. pending[1] = Head(pending)
    BY <1>0, <1>1 DEF SharedType
  <2> QED
    BY <1>1, <2>1 DEF Asks
<1>3. s \in DOMAIN drinkStates
  BY <1>0, <1>1, <1>2, TailShifts, HeadIsAlone DEF Core
<1>4. SideKept("drinks") /\ data' = Items("drinks", s)
  BY <1>1 DEF SideKept, Opened, LoadedOf, TopOf, Items
<1>5. Saves("drinks", s)
  <2>1. SideKept("product")
    BY ProductsKept
  <2> QED
    BY <1>1, <1>2, <1>4, <2>1 DEF Saves, SideKept, Both
<1>6. SharedType'
  <2>1. data' \in Seq(Entries)
    BY <1>0, <1>1, <1>3 DEF DrinkState
  <2> QED
    BY <1>0, <1>1, <2>1 DEF SharedType
<1>7. DrinkType'
  BY <1>1, DrinkIs, DrinkTypeNow
<1>8. RowsAgree'
  BY <1>1, DrinkIs DEF RowsAgree, Counted, Drinks!Value
<1>9. CoreStep /\ (top = 0 \/ drinkTop' = 0) /\ \A t, w : ~ Adds("drinks", t, w)
  <2>1. TopOf("drinks")' = TopOf("drinks")
    BY <1>1 DEF TopOf
  <2> QED
    BY <1>1, <1>5, <2>1, NothingAdded, DrinkIs DEF CoreStep, Both
<1> QED
  BY <1>1, <1>6, <1>7, <1>8, <1>9, DrinkStep

LEMMA DrinkAdds ==
  ASSUME IndInv, Drinks!MakeCartItens, UNCHANGED productVars
  PROVE  IndInv'
<1>0. /\ drinkTop # 0 /\ drinkTop \in DOMAIN drinkStates /\ drinkTop \in Screens /\ drinkStates \in Seq(DrinkState)
      /\ SharedType /\ Core /\ Opened("drinks") = DOMAIN drinkStates /\ drinkStates[drinkTop] \in DrinkState
      /\ top = 0 /\ MaxScreens \in Nat
  BY DrinkIs DEF Drinks!MakeCartItens, Drinks!Event
<1> PICK s : s = drinkTop
  OBVIOUS
<1> PICK w : w = Drinks!NewItems
  OBVIOUS
<1> DEFINE st == [drinkStates[s] EXCEPT !.items = drinkStates[s].items \o w]
<1>1. /\ drinkStates' = [drinkStates EXCEPT ![s].items = @ \o w] /\ pending' = pending \o SavesOf("drinks", s, w)
      /\ drinkTop' = 0 /\ rows' = <<>> /\ drinkValue' = 0 /\ chosen' = [chosen EXCEPT ![s] = w]
      /\ drinkEarly' = (IF s \in drinkLoaded THEN drinkEarly ELSE drinkEarly \cup {s})
      /\ UNCHANGED <<data, hasData, ready, drinkUnits, drinkLoaded, recreated>>
  BY DEF Drinks!MakeCartItens, SavesOf
<1>2. w \in Seq(Drinks!Item) /\ IsOwn(w, "drinks", s)
  <2> PICK m \in Menus : m = drinkStates[drinkTop].menu
    BY <1>0 DEF DrinkState
  <2> QED
    BY <1>0, NewItemsFit, DrinkIs
<1>3. w \in Seq(Entries) /\ Named(w, leftover) /\ Len(w) \in Nat /\ DOMAIN w = 1 .. Len(w)
  <2>1. w \in Seq(Entries)
    BY <1>2 DEF Entries
  <2>2. Named(w, leftover)
    <3>1. \A i \in DOMAIN w : w[i].type = "drink"
      BY <1>2 DEF IsOwn, IsOf
    <3> QED
      BY <3>1 DEF Named, Kinds
  <2> QED
    BY <2>1, <2>2
<1>4. st \in DrinkState /\ st.items = drinkStates[s].items \o w /\ drinkStates' = [drinkStates EXCEPT ![s] = st]
  <2>1. drinkStates[s].items \o w \in Seq(Entries)
    BY <1>0, <1>3 DEF DrinkState
  <2>2. st \in DrinkState /\ st.items = drinkStates[s].items \o w
    BY <1>0, <2>1 DEF DrinkState
  <2>3. drinkStates' = [drinkStates EXCEPT ![s] = st]
    BY <1>0, <1>1 DEF DrinkState
  <2> QED
    BY <2>2, <2>3
<1> HIDE DEF st
<1>5. /\ drinkStates' \in Seq(DrinkState) /\ Len(drinkStates') = Len(drinkStates) /\ DOMAIN drinkStates' = DOMAIN drinkStates
      /\ Items("drinks", s)' = st.items
      /\ \A t \in DOMAIN drinkStates : t # s => Items("drinks", t)' = Items("drinks", t)
  BY <1>0, <1>4, DrinkChanged
<1>6. Adds("drinks", s, w)
  <2>1. Items("drinks", s)' = Items("drinks", s) \o w
    BY <1>4, <1>5 DEF Items
  <2>2. /\ Opened("drinks")' = Opened("drinks") /\ LoadedOf("drinks")' = LoadedOf("drinks") /\ TopOf("drinks")' = 0
        /\ TopOf("drinks") = s
    BY <1>1, <1>5 DEF Opened, LoadedOf, TopOf
  <2>3. SideKept("product") /\ TopOf("product")' = 0
    BY <1>0, ProductsKept DEF SideKept, TopOf
  <2>4. OthersKept("drinks", s)
    BY <1>0, <1>5, <2>3 DEF OthersKept, SideKept, Both
  <2> QED
    BY <1>0, <1>1, <1>2, <1>3, <2>1, <2>2, <2>3, <2>4 DEF Adds, SideKept, Both
<1>7. SharedType'
  <2>1. SavesOf("drinks", s, w) \in Seq(Task \cup Drinks!Task)
    <3> PICK t : t = [on |-> "drinks", call |-> "save", of |-> s]
      OBVIOUS
    <3>1. t \in Drinks!Task
      BY <1>0 DEF Drinks!Task, Drinks!Screens, Screens
    <3>2. SavesOf("drinks", s, w) = [k \in 1 .. Len(w) |-> t]
      BY DEF SavesOf
    <3> QED
      BY <1>3, <3>1, <3>2
  <2>2. pending' \in Seq(Task \cup Drinks!Task)
    BY <1>0, <1>1, <2>1 DEF SharedType
  <2> QED
    BY <1>0, <1>1, <2>2 DEF SharedType
<1>8. DrinkType'
  <2>1. rows' \in Seq(0 .. MaxUnits) /\ drinkValue' \in Nat
    BY <1>1
  <2>2. drinkTop' \in 0 .. Len(drinkStates') /\ Len(drinkStates') <= MaxScreens
    BY <1>1, <1>5, DrinkIs
  <2>3. chosen' \in [Screens -> Seq(Drinks!Item)] /\ drinkEarly' \subseteq Screens
    BY <1>0, <1>1, <1>2, DrinkIs
  <2> QED
    BY <1>1, <1>5, <2>1, <2>2, <2>3, DrinkIs, DrinkTypeNow
<1>9. RowsAgree'
  BY <1>1, DrinkIs DEF RowsAgree
<1>10. ASSUME NEW t \in Screens \ drinkEarly'
       PROVE  \/ t \notin drinkEarly /\ chosen'[t] = chosen[t] /\ (Idles \/ ~ \E v : Adds("drinks", t, v))
              \/ ChosenIsSafe(t, chosen[t])'
  <2>1. CASE t = s
    <3>1. s \in LoadedOf("drinks")
      BY <1>1, <1>10, <2>1 DEF LoadedOf
    <3>2. ChosenIsSafe(s, w)'
      BY <1>0, <1>6, <3>1, ChosenIsSafeNow
    <3>3. chosen[t]' = w
      BY <1>0, <1>1, <2>1, DrinkIs
    <3> QED
      BY <2>1, <3>2, <3>3 DEF ChosenIsSafe
  <2>2. CASE t # s
    <3>1. t \notin drinkEarly /\ chosen'[t] = chosen[t]
      BY <1>1, <1>10, <2>2, DrinkIs
    <3>2. ~ \E v : Adds("drinks", t, v)
      BY <2>2 DEF Adds, TopOf
    <3> QED
      BY <3>1, <3>2
  <2> QED
    BY <2>1, <2>2
<1>11. CoreStep /\ (top = 0 \/ drinkTop' = 0)
  BY <1>0, <1>6 DEF CoreStep, Both
<1> QED
  BY <1>7, <1>8, <1>9, <1>10, <1>11, DrinkStep
-----------------------------------------------------------------------------
(* The specification *)

LEMMA ShopStarts ==
  ASSUME ShopInit
  PROVE  IndInv
<1>1. /\ data = <<>> /\ hasData \in BOOLEAN /\ ready = FALSE /\ pending = <<>> /\ states = <<>> /\ top = 0 /\ checked = {}
      /\ loaded = {} /\ added = {} /\ early = {} /\ swiped = FALSE /\ leftover = {}
  BY DEF ShopInit, Init
<1>2. /\ drinkUnits = [m \in Menus |-> Drinks!None(m)] /\ drinkStates = <<>> /\ drinkTop = 0 /\ rows = <<>> /\ drinkValue = 0
      /\ drinkLoaded = {} /\ chosen = [s \in Screens |-> <<>>] /\ drinkEarly = {} /\ recreated = FALSE
  BY DEF ShopInit, Drinks!Init, Drinks!Screens, Screens
<1>3. MaxScreens \in Nat
  BY DetailsAssumption
<1>4. SharedType /\ ProductType /\ DrinkType
  <2>0. ready \in BOOLEAN /\ swiped \in BOOLEAN
    BY <1>1
  <2>1. SharedType
    <3>1. data \in Seq(Entries) /\ pending \in Seq(Task \cup Drinks!Task)
      BY <1>1
    <3> QED
      BY <1>1, <2>0, <3>1 DEF SharedType
  <2>2. ProductType
    <3>1. states \in Seq(State) /\ Len(states) <= MaxScreens /\ top \in 0 .. Len(states)
      BY <1>1, <1>3
    <3> QED
      BY <1>1, <2>0, <3>1, ProductTypeIs
  <2>3. \A m \in Menus : drinkUnits[m] \in UnitsOf(m)
    BY <1>2, NoneIs
  <2>4. chosen \in [Screens -> Seq(Drinks!Item)]
    <3>1. <<>> \in Seq(Drinks!Item)
      OBVIOUS
    <3> QED
      BY <1>2, <3>1
  <2>5. /\ drinkStates \in Seq(DrinkState) /\ Len(drinkStates) <= MaxScreens /\ drinkTop \in 0 .. Len(drinkStates)
        /\ rows \in Seq(0 .. MaxUnits) /\ drinkValue \in Nat /\ drinkLoaded \subseteq Screens
        /\ drinkEarly \subseteq Screens
    BY <1>2, <1>3
  <2>6. recreated \in BOOLEAN
    BY <1>2
  <2> QED
    BY <2>1, <2>2, <2>3, <2>4, <2>5, <2>6, DrinkTypeIs
<1>5. ShopTypeOK /\ Copies
  <2>1. ShopTypeOK
    BY <1>1, <1>4, TypesAre
  <2> QED
    BY <2>1, TypesAreCopies
<1>6. DOMAIN pending = {} /\ DOMAIN data = {} /\ \A on \in Both : Opened(on) = {} /\ LoadedOf(on) = {} /\ TopOf(on) = 0
  BY <1>1, <1>2 DEF Opened, LoadedOf, TopOf, Both
<1>7. Tasks
  BY <1>6 DEF Tasks, TasksAreOfScreens, TasksAreGrouped, LoadsAreDue
<1>8. Lists
  <2>1. TopIsFresh
    BY <1>6 DEF TopIsFresh, Both
  <2>2. SavedByLoaded /\ UnloadedIsOwn /\ NextSaveContinues
    BY <1>1, <1>6 DEF SavedByLoaded, UnloadedIsOwn, NextSaveContinues
  <2> QED
    BY <2>1, <2>2 DEF Lists
<1>9. Ticked
  BY <1>1, <1>6 DEF Ticked, AllNamed, Named, TicksAreNamed
<1>10. Safe
  <2>1. AddedWillBeSaved
    BY <1>1 DEF AddedWillBeSaved
  <2>2. ASSUME NEW s \in Screens PROVE ChosenIsSafe(s, chosen[s])
    <3>1. ~ SaveIsDue("drinks", s)
      BY <1>6 DEF SaveIsDue
    <3>2. <<>> \in Seq(Entries) /\ DOMAIN <<>> = {} /\ <<>> = <<>> \o <<>>
      OBVIOUS
    <3>3. DrinksOf(<<>>, s) = <<>>
      BY <3>2, DrinksAdded
    <3> QED
      BY <1>1, <1>2, <3>1, <3>3 DEF ChosenIsSafe
  <2> QED
    BY <2>1, <2>2 DEF Safe, ChosenWillBeSaved
<1>11. RowsAgree
  BY <1>2 DEF RowsAgree
<1> QED
  BY <1>5, <1>7, <1>8, <1>9, <1>10, <1>11 DEF IndInv, Core

LEMMA ShopIdles ==
  ASSUME IndInv, UNCHANGED shopVars
  PROVE  IndInv'
<1>1. /\ UNCHANGED <<data, hasData, ready, pending, states, top, checked>> /\ UNCHANGED <<loaded, added, early, swiped, leftover>>
      /\ UNCHANGED drinkVars
  BY DEF shopVars, vars, history
<1>2. ProductType' /\ ready' \in BOOLEAN
  BY <1>1, ProductIs DEF ProductType, OwnTypeOK, SharedType
<1>3. TicksAreNamed'
  BY <1>1, ProductIs DEF TicksAreNamed, Charges
<1> QED
  BY <1>1, <1>2, <1>3, ProductIdles

LEMMA ShopSteps ==
  ASSUME IndInv, [ShopNext]_shopVars
  PROVE  IndInv'
<1>1. CASE PrefsReady /\ UNCHANGED drinkVars
  BY <1>1, ProductReady
<1>2. ASSUME NEW p \in Products, Open(p), drinkTop = 0, UNCHANGED drinkVars
      PROVE  IndInv'
  BY <1>2, ProductOpens
<1>3. ASSUME NEW s \in Screens, Load(s) \/ Save(s), UNCHANGED drinkVars
      PROVE  IndInv'
  BY <1>3, ProductLoads, ProductSaves
<1>4. CASE (AddUnit \/ SubUnit) /\ UNCHANGED drinkVars
  BY <1>4, ProductButtons
<1>5. ASSUME NEW e \in Extras, Tick(e), UNCHANGED drinkVars
      PROVE  IndInv'
  BY <1>5, ProductTicks
<1>6. CASE Add /\ UNCHANGED drinkVars
  BY <1>6, ProductAdds
<1>7. CASE (BackArrow \/ SystemBack) /\ UNCHANGED drinkVars
  BY <1>7, ProductBacks
<1>8. ASSUME NEW m \in Menus, Drinks!Open(m), top = 0, UNCHANGED productVars
      PROVE  IndInv'
  BY <1>8, DrinkOpens
<1>9. ASSUME NEW s \in Screens, Drinks!Load(s) \/ Drinks!Save(s), UNCHANGED productVars
      PROVE  IndInv'
  BY <1>9, DrinkLoads, DrinkSaves
<1>10. ASSUME NEW o \in 1 .. Drinks!MaxOptions, Drinks!AddUnit(o) \/ Drinks!SubUnit(o), UNCHANGED productVars
       PROVE  IndInv'
  BY <1>10, DrinkButtons
<1>11. CASE Drinks!RecreateRows /\ UNCHANGED productVars
  BY <1>11, DrinkRowsRecreated
<1>12. CASE Drinks!MakeCartItens /\ UNCHANGED productVars
  BY <1>12, DrinkAdds
<1>13. CASE Drinks!Back /\ UNCHANGED productVars
  BY <1>13, DrinkBacks
<1>14. CASE UNCHANGED shopVars
  BY <1>14, ShopIdles
<1> QED
  BY <1>1, <1>2, <1>3, <1>4, <1>5, <1>6, <1>7, <1>8, <1>9, <1>10, <1>11, <1>12, <1>13, <1>14 DEF ShopNext

\* The invariant that everything below follows from.
THEOREM ShopInvariant == ShopSpec => []IndInv
<1>1. ShopInit => IndInv
  BY ShopStarts
<1>2. IndInv /\ [ShopNext]_shopVars => IndInv'
  BY ShopSteps
<1> QED
  BY <1>1, <1>2, PTL DEF ShopSpec

\* ShopTypeOK holds: every screen of either kind keeps lists of items that could
\* be ordered, whatever order the continuations of load() and save() run in.
THEOREM ShopTypeCorrect == ShopSpec => []ShopTypeOK
<1>1. IndInv => ShopTypeOK
  BY DEF IndInv
<1> QED
  BY <1>1, ShopInvariant, PTL

\* ChargedIsNamed of FlutterDetails holds: every saved product costs its price and
\* what its text names, unless its screen was opened after the system's back left
\* ticks in the global list.
THEOREM ProductsChargeWhatTheyName == ShopSpec => []ChargedIsNamed
<1>1. IndInv => ChargedIsNamed
  BY DEF IndInv, Ticked, AllNamed, Named, ChargedIsNamed, Own
<1> QED
  BY <1>1, ShopInvariant, PTL

LEMMA RowsAreCounted ==
  ASSUME IndInv
  PROVE  Drinks!RowsCounted
<1>1. SUFFICES ASSUME drinkTop # 0
               PROVE  /\ \A o \in DOMAIN rows :
                           /\ 0 <= rows[o] /\ rows[o] <= drinkUnits[drinkStates[drinkTop].menu][o]
                           /\ ~recreated => rows[o] = drinkUnits[drinkStates[drinkTop].menu][o]
                      /\ drinkValue = Drinks!SumFunction([k \in DOMAIN Drinks!NewItems |->
                                                            Drinks!NewItems[k].valueUn * Drinks!NewItems[k].units])
  BY DEF Drinks!RowsCounted, Drinks!menu
<1>2. drinkTop \in DOMAIN drinkStates /\ drinkTop \in Screens /\ drinkStates[drinkTop].menu \in Menus
  BY <1>1, DrinkIs DEF DrinkState
<1>3. PICK m \in Menus : m = drinkStates[drinkTop].menu
  BY <1>2
<1>4. PICK w : w = Drinks!NewItems
  OBVIOUS
<1>5. Counted(m) /\ drinkUnits[m] \in UnitsOf(m)
  BY <1>1, <1>3, DrinkIs DEF RowsAgree
<1>6. \A o \in DOMAIN rows : 0 <= rows[o] /\ rows[o] <= drinkUnits[m][o] /\ (~recreated => rows[o] = drinkUnits[m][o])
  <2>1. DOMAIN rows = 1 .. Options[m] /\ \A o \in 1 .. Options[m] : rows[o] \in 0 .. MaxUnits
    BY <1>5 DEF Counted
  <2>2. \A o \in 1 .. Options[m] : 0 <= rows[o]
    BY <2>1, DetailsAssumption
  <2> QED
    BY <1>5, <2>1, <2>2 DEF Counted
<1>7. drinkValue = Drinks!SumFunction([k \in DOMAIN w |-> w[k].valueUn * w[k].units])
  <2>1. SumFunction([k \in DOMAIN w |-> w[k].valueUn * w[k].units]) = Drinks!Value(m, drinkUnits[m])
    BY <1>2, <1>3, <1>4, <1>5, NewItemsCost
  <2>2. drinkValue = Drinks!Value(m, drinkUnits[m])
    BY <1>5 DEF Counted
  <2> QED
    BY <2>1, <2>2, DrinksSum
<1> QED
  BY <1>3, <1>4, <1>6, <1>7

\* RowsCounted holds: a row of a drink screen never counts below zero nor more than
\* the global list, and the value shown is that of the items the button would add.
THEOREM RowsAreCountedAlways == ShopSpec => []RowsCounted
<1>1. IndInv => RowsCounted
  BY RowsAreCounted DEF RowsCounted
<1> QED
  BY <1>1, ShopInvariant, PTL

LEMMA SavedWhenDone ==
  ASSUME IndInv
  PROVE  EverythingSaved
<1>1. SUFFICES ASSUME pending = <<>> PROVE AddedIsSaved /\ Drinks!ChosenIsSaved
  BY DEF EverythingSaved, AddedIsSaved, Drinks!ChosenIsSaved
<1>2. \A on, s : ~ SaveIsDue(on, s)
  BY <1>1 DEF SaveIsDue
<1>3. AddedIsSaved
  BY <1>2 DEF AddedIsSaved, IndInv, Safe, AddedWillBeSaved, AddedIsSafe
<1>4. \A s \in Screens \ drinkEarly : DrinksOf(data, s) = chosen[s]
  BY <1>2 DEF IndInv, Safe, ChosenWillBeSaved, ChosenIsSafe
<1>5. Drinks!ChosenIsSaved
  BY <1>4, DrinksEntered DEF Drinks!ChosenIsSaved, DrinksOf, DrinksAt, Drinks!Screens, Screens
<1> QED
  BY <1>3, <1>5

\* EverythingSaved holds: whenever no continuation waits, what was added on any
\* screen that had loaded the cart is in the saved cart, drinks once each and in
\* their order, although other screens saved copies of their own in between.
THEOREM WhatIsAddedIsSaved == ShopSpec => []EverythingSaved
<1>1. IndInv => EverythingSaved
  BY SavedWhenDone
<1> QED
  BY <1>1, ShopInvariant, PTL

\* The only steps that change the saved cart are saves.
LEMMA OnlySavesSave ==
  ASSUME IndInv, [ShopNext]_shopVars, data' # data
  PROVE  \E on \in Both : \E s : Saves(on, s)
<1>0. SharedType /\ Core
  BY ProductIs
<1>1. ASSUME NEW s \in Screens, Save(s), UNCHANGED drinkVars
      PROVE  Saves("product", s)
  <2>1. /\ pending # <<>> /\ Head(pending) = [on |-> "product", call |-> "save", of |-> s] /\ pending' = Tail(pending)
        /\ data' = states[s].items /\ hasData' = TRUE /\ UNCHANGED <<states, top, loaded>>
    BY <1>1 DEF Save, Run, history
  <2>2. pending[1] = Head(pending)
    BY <1>0, <2>1 DEF SharedType
  <2>3. Asks(1, "save", "product", s)
    BY <2>1, <2>2 DEF Asks
  <2>4. SideKept("product") /\ data' = Items("product", s)
    BY <2>1 DEF SideKept, Opened, LoadedOf, TopOf, Items
  <2>5. SideKept("drinks")
    BY <1>1, DrinksKept
  <2> QED
    BY <2>1, <2>3, <2>4, <2>5 DEF Saves, SideKept, Both
<1>2. ASSUME NEW s \in Screens, Drinks!Save(s), UNCHANGED productVars
      PROVE  Saves("drinks", s)
  <2>1. /\ pending # <<>> /\ Head(pending) = [on |-> "drinks", call |-> "save", of |-> s] /\ pending' = Tail(pending)
        /\ data' = drinkStates[s].items /\ hasData' = TRUE /\ UNCHANGED <<drinkStates, drinkTop, drinkLoaded>>
    BY <1>2 DEF Drinks!Save, Drinks!Run, Drinks!screen, Drinks!history
  <2>2. pending[1] = Head(pending)
    BY <1>0, <2>1 DEF SharedType
  <2>3. Asks(1, "save", "drinks", s)
    BY <2>1, <2>2 DEF Asks
  <2>4. SideKept("drinks") /\ data' = Items("drinks", s)
    BY <2>1 DEF SideKept, Opened, LoadedOf, TopOf, Items
  <2>5. SideKept("product")
    BY <1>2, ProductsKept
  <2> QED
    BY <2>1, <2>3, <2>4, <2>5 DEF Saves, SideKept, Both
<1>3. \/ \E s \in Screens : Save(s) /\ UNCHANGED drinkVars
      \/ \E s \in Screens : Drinks!Save(s) /\ UNCHANGED productVars
  <2>1. /\ ~PrefsReady /\ ~ \E p \in Products : Open(p)
        /\ ~ \E s \in Screens : Load(s)
        /\ ~AddUnit /\ ~SubUnit /\ ~ \E e \in Extras : Tick(e)
        /\ ~Add /\ ~BackArrow /\ ~SystemBack
    BY DEF PrefsReady, Open, Load, AddUnit, SubUnit, SetUnits, Tick, Add, BackArrow, SystemBack
  <2>2. /\ ~ \E m \in Menus : Drinks!Open(m)
        /\ ~ \E s \in Screens : Drinks!Load(s)
        /\ ~ \E o \in 1 .. Drinks!MaxOptions : Drinks!AddUnit(o) \/ Drinks!SubUnit(o)
        /\ ~Drinks!RecreateRows /\ ~Drinks!MakeCartItens /\ ~Drinks!Back
    BY DEF Drinks!Open, Drinks!Load, Drinks!AddUnit, Drinks!SubUnit, Drinks!Count, Drinks!RecreateRows,
           Drinks!MakeCartItens, Drinks!Back
  <2>3. ~ UNCHANGED shopVars
    BY DEF shopVars, vars
  <2> QED
    BY <2>1, <2>2, <2>3 DEF ShopNext
<1> QED
  BY <1>1, <1>2, <1>3 DEF Both

LEMMA SavesGrow ==
  ASSUME IndInv, NEW on \in Both, NEW s, Saves(on, s), data' # data
  PROVE  Saved!Grow
<1>1. Core /\ data \in Seq(Entries)
  BY ProductIs DEF SharedType
<1> PICK l : l = Items(on, s)
  OBVIOUS
<1>2. s \in Opened(on) /\ Continues(l, on, s) /\ data' = l
  BY <1>1, NextSaveIs
<1>3. l \in Seq(Entries)
  BY <1>1, <1>2 DEF Core, Copies
<1>4. /\ Len(l) \in Len(data) .. Len(data) + Drinks!MaxOptions
      /\ \A i \in DOMAIN data : l[i] = data[i] /\ ~ IsOf(data[i], on, s)
      /\ \A i \in DOMAIN l \ DOMAIN data : IsOf(l[i], on, s)
  BY <1>2 DEF Continues
<1>5. Len(data) \in Nat /\ Len(l) \in Nat /\ DOMAIN data = 1 .. Len(data) /\ DOMAIN l = 1 .. Len(l)
      /\ Drinks!MaxOptions \in Nat
  BY <1>1, <1>3, OptionsBound
<1>6. Len(l) # Len(data)
  <2>1. SUFFICES ASSUME Len(l) = Len(data) PROVE l = data
    BY <1>2
  <2>2. \A i \in 1 .. Len(data) : l[i] = data[i]
    BY <1>4, <1>5
  <2> QED
    BY <1>1, <1>3, <2>1, <2>2
<1>7. Len(l) \in Len(data) + 1 .. Len(data) + Drinks!MaxOptions
  <2>1. Len(l) \in Len(data) .. Len(data) + Drinks!MaxOptions
    BY <1>4
  <2>2. \A a, b, c \in Nat : b \in a .. a + c /\ b # a => b \in a + 1 .. a + c
    OBVIOUS
  <2> QED
    BY <1>5, <1>6, <2>1, <2>2
<1>8. \A i \in DOMAIN data, j \in DOMAIN l \ DOMAIN data : l[j] # data[i]
  BY <1>4
<1> QED
  BY <1>2, <1>3, <1>4, <1>7, <1>8 DEF Saved!Grow

\* ImplementsSavedCart holds: to whoever reads the saved cart, the screens of both
\* kinds are one list that only grows at its end, although every screen writes
\* back a whole copy of its own.
THEOREM ShopImplementsSavedCart == ShopSpec => ImplementsSavedCart
<1>1. ShopInit => Saved!Init
  BY DEF ShopInit, Init, Saved!Init
<1>2. IndInv /\ [ShopNext]_shopVars => [Saved!Grow]_data
  BY OnlySavesSave, SavesGrow
<1> QED
  BY <1>1, <1>2, ShopInvariant, PTL DEF ShopSpec, ImplementsSavedCart, Saved!Spec
=============================================================================
