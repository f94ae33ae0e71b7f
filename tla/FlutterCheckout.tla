--------------------------- MODULE FlutterCheckout ---------------------------
(***************************************************************************)
(* The checkout screen of the Flutter app (lib/screens/checkout.dart) with *)
(* the widgets of its rows (lib/widgets/cart_item.dart and                 *)
(* promotions_cart_item.dart), the SharedPreferences keys it shares with   *)
(* the product screens, and the Firestore queries it keeps in flight.      *)
(*                                                                         *)
(* Dart runs one event at a time.  What a handler does after               *)
(* "await SharedPreferences.getInstance()" is a task of pending; once the  *)
(* plug-in is ready the tasks are microtasks, run in order before the next *)
(* event.  prefs is the plug-in's in-memory copy, written by setString at  *)
(* once; diskQ holds the writes the platform has not acknowledged yet.     *)
(*                                                                         *)
(* Left out as data: the texts of the form (whether it is complete is a    *)
(* choice made when the order is placed), additionals, the wording of the  *)
(* message.  A "food" item stands for the drinks too.  id, discarded,      *)
(* ordered, last, mishap, rebound, loaded and the id and stale fields of a *)
(* query are history: the code keeps none of them.                         *)
(***************************************************************************)
EXTENDS Integers, Sequences, FiniteSets, Functions

CONSTANTS
  Foods,         \* titles of foods and drinks
  Promotions,    \* titles of the promotions kept in Firestore
  Unavailable,   \* the title "Produto indisponível"
  Price,         \* valueUn of each product
  MaxUnits,      \* bound: units a row may show
  MaxId,         \* bound: products added over the whole behaviour
  MaxOpens,      \* bound: times the screen is opened
  MaxLag,        \* bound: writes waiting for the disk
  MaxRounds      \* bound: calls of load() whose queries in flight are told apart

Products == Foods \cup Promotions
Ids      == 1 .. MaxId
Rounds   == 1 .. MaxRounds

ASSUME ProductsAssumption ==
  /\ Foods \cap Promotions = {}
  /\ Unavailable \notin Products
  /\ Price \in [Products -> Nat \ {0}]
ASSUME BoundsAssumption ==
  MaxUnits \in Nat /\ MaxId \in Nat /\ MaxOpens \in Nat /\ MaxLag \in Nat /\ MaxRounds \in Nat

VARIABLES
  prefs,      \* SharedPreferences in memory: [data, repeat]
  disk,       \* the same keys on disk
  diskQ,      \* setString calls not yet acknowledged
  ready,      \* the first getInstance() of the process has completed
  pending,    \* continuations waiting for getInstance()
  open,       \* the checkout screen is on the navigator
  items,      \* _CheckoutState.items
  rows,       \* the State objects of the list's rows
  delivery,   \* _deliveryMode = 'Delivery (taxa R$ 4,00)'
  total,      \* totalPurchaseValue
  queries,    \* filterData() calls in flight
  catalog,    \* promotions a query finds: in Firestore, or offline in its cache
  nextId, opens, loaded, rebound, last, discarded, ordered, mishap

storage == <<prefs, disk, diskQ>>
screen  == <<open, items, rows, delivery, total, queries>>
history == <<nextId, opens, loaded, rebound, last, discarded, ordered, mishap>>
vars    == <<storage, ready, pending, screen, catalog, history>>

-----------------------------------------------------------------------------
(* Data *)

Kinds == {"food", "promotion"}
Item  == [id : Ids, title : Products \cup {Unavailable}, type : Kinds,
          units : Int, valueUn : Nat, image : Products]
Row   == [type : Kinds, owner : Ids, units : Int]
Query == {q \in [name : Products \cup {Unavailable}, index : Nat \ {0}, round : Rounds,
                 id : Ids, stale : BOOLEAN, found : BOOLEAN] : q.found => q.name \in Promotions}
Write == [key : {"data", "repeat"}, val : Seq(Item), live : BOOLEAN]
Task  == {"load", "save", "saveInRepeat"}

NewItem(id, p, u) ==
  [id |-> id, title |-> p, type |-> IF p \in Promotions THEN "promotion" ELSE "food",
   units |-> u, valueUn |-> Price[p], image |-> p]

IdsOf(list) == {list[i].id : i \in DOMAIN list}

Without(list, k) ==
  [i \in 1 .. Len(list) - 1 |-> IF i < k THEN list[i] ELSE list[i + 1]]

Fee == 4

\* updateTotalVue
Amount(list) == SumFunction([i \in DOMAIN list |-> list[i].valueUn * list[i].units])
Total(list, dlv) == (IF dlv THEN Fee ELSE 0) + Amount(list)

\* A frame: the rows have no keys, so the State at a position survives as long
\* as the widget there keeps its class; a new State copies the item's units.
NewRow(it)   == [type |-> it.type, owner |-> it.id, units |-> it.units]
Rebuild(old, list) ==
  [i \in 1 .. Len(list) |->
     IF i <= Len(old) /\ old[i].type = list[i].type THEN old[i] ELSE NewRow(list[i])]

Quiet == pending = <<>> \/ ~ready
Event == open /\ Quiet
Room  == Len(diskQ) + Len(pending) < MaxLag

SetString(key, val) ==
  /\ prefs' = [prefs EXCEPT ![key] = val]
  /\ diskQ' = Append(diskQ, [key |-> key, val |-> val, live |-> TRUE])

-----------------------------------------------------------------------------
Init ==
  /\ prefs = [data |-> <<>>, repeat |-> <<>>] /\ disk = prefs /\ diskQ = <<>>
  /\ ready = FALSE /\ pending = <<>>
  /\ open = FALSE /\ items = <<>> /\ rows = <<>> /\ delivery = FALSE /\ total = 0
  /\ queries = {} /\ catalog = Promotions
  /\ nextId = 1 /\ opens = 0 /\ loaded = FALSE /\ rebound = FALSE
  /\ last = [items |-> <<>>, loaded |-> FALSE, live |-> FALSE, durable |-> {}]
  /\ discarded = {} /\ ordered = {} /\ mishap = {}

(* A product screen adds a product to the saved cart (its own interleavings  *)
(* are the subject of FlutterDetails).                                       *)
AddOverwriting(p, u) ==    \* mutant: the saved list is not loaded first
  /\ ~open /\ Quiet /\ Room /\ nextId <= MaxId
  /\ ready' = TRUE
  /\ SetString("data", <<NewItem(nextId, p, u)>>)
  /\ nextId' = nextId + 1
  /\ UNCHANGED <<disk, pending, screen, catalog, opens, loaded, rebound, last, discarded, ordered, mishap>>
AddProduct(p, u) ==
  /\ ~open /\ Quiet /\ Room /\ nextId <= MaxId
  /\ ready' = TRUE
  /\ SetString("data", Append(prefs.data, NewItem(nextId, p, u)))
  /\ nextId' = nextId + 1
  /\ UNCHANGED <<disk, pending, screen, catalog, opens, loaded, rebound, last, discarded, ordered, mishap>>

(* Navigator.push(Checkout()): the State's constructor calls load(). *)
OpenCheckout ==
  /\ ~open /\ Quiet /\ opens < MaxOpens
  /\ open' = TRUE /\ pending' = Append(pending, "load")
  /\ items' = <<>> /\ rows' = <<>> /\ delivery' = FALSE /\ total' = 0 /\ queries' = {}
  /\ loaded' = FALSE /\ opens' = opens + 1
  /\ UNCHANGED <<storage, ready, catalog, nextId, rebound, last, discarded, ordered, mishap>>

PrefsReady ==
  /\ ~ready /\ open
  /\ ready' = TRUE
  /\ UNCHANGED <<storage, pending, screen, catalog, history>>

-----------------------------------------------------------------------------
(* Continuations of await SharedPreferences.getInstance() *)

Run(task) == ready /\ pending # <<>> /\ Head(pending) = task /\ pending' = Tail(pending)

\* The least round not in use.  When all are, the last takes the new questions
\* in, and one that it already holds is not asked twice.
FreeRound(r) ==
  LET used == {q.round : q \in queries}
  IN 1 .. r - 1 \subseteq used /\ (r \notin used \/ r = MaxRounds)

AskOffByOne(list, i, r) ==    \* mutant: positions counted from one
  [name |-> list[i].title, index |-> i + 1, round |-> r, id |-> list[i].id, stale |-> FALSE, found |-> FALSE]
Ask(list, i, r) ==
  [name |-> list[i].title, index |-> i, round |-> r, id |-> list[i].id, stale |-> FALSE, found |-> FALSE]

RunLoad(r) ==
  /\ Run("load") /\ FreeRound(r)
  /\ items' = prefs.data
  /\ rows' = Rebuild(rows, items')
  /\ queries' = queries \cup
       {Ask(items', i, r) : i \in {j \in DOMAIN items' : items'[j].type = "promotion"}}
  /\ total' = Total(items', delivery)
  /\ loaded' = TRUE
  /\ UNCHANGED <<storage, ready, open, delivery, catalog, nextId, opens, rebound, last, discarded, ordered, mishap>>

RunSave ==
  /\ Run("save") /\ SetString("data", items)
  /\ UNCHANGED <<disk, ready, screen, catalog, history>>

RunSaveCleared ==    \* mutant: the list is cleared before it is encoded
  /\ Run("saveInRepeat") /\ SetString("repeat", <<>>)
  /\ UNCHANGED <<disk, ready, screen, catalog, history>>
RunClearFirst ==    \* mutant: the empty cart is saved before the copy
  /\ Run("saveInRepeat")
  /\ prefs' = [data |-> <<>>, repeat |-> items]
  /\ diskQ' = diskQ \o <<[key |-> "data", val |-> <<>>, live |-> TRUE],
                         [key |-> "repeat", val |-> items, live |-> TRUE]>>
  /\ UNCHANGED <<disk, ready, screen, catalog, history>>
RunSaveInRepeat ==
  /\ Run("saveInRepeat") /\ SetString("repeat", items)
  /\ UNCHANGED <<disk, ready, screen, catalog, history>>

-----------------------------------------------------------------------------
(* The rows' buttons *)

SetUnitsNoTotal(i, d) ==    \* mutant: updateTotalVue() is not called
  /\ rows'  = [rows EXCEPT ![i].units = @ + d]
  /\ items' = [items EXCEPT ![i].units = @ + d]
  /\ UNCHANGED <<storage, ready, pending, open, delivery, total, queries, catalog, history>>
SetUnitsRowOnly(i, d) ==    \* mutant: the callback of the row is not called
  /\ rows'  = [rows EXCEPT ![i].units = @ + d]
  /\ UNCHANGED <<storage, ready, pending, open, items, delivery, total, queries, catalog, history>>
SetUnits(i, d) ==
  /\ rows'  = [rows EXCEPT ![i].units = @ + d]
  /\ items' = [items EXCEPT ![i].units = @ + d]
  /\ total' = Total(items', delivery)
  /\ UNCHANGED <<storage, ready, pending, open, delivery, queries, catalog, history>>

AddUnit(i) ==
  /\ Event /\ i \in DOMAIN items /\ rows[i].units < MaxUnits
  /\ SetUnits(i, 1)

SubUnit(i) ==
  /\ Event /\ i \in DOMAIN items /\ rows[i].units > 1
  /\ SetUnits(i, -1)

Shift == queries' = {[q EXCEPT !.stale = TRUE] : q \in queries}

Remove(i) ==
  /\ Event /\ Room /\ i \in DOMAIN items
  /\ items' = Without(items, i)
  /\ rows'  = Rebuild(rows, items')
  /\ pending' = Append(pending, "save")
  /\ total' = Total(items', delivery)
  /\ Shift /\ rebound' = (rebound \/ i < Len(items))
  /\ discarded' = discarded \cup {items[i].id}
  /\ UNCHANGED <<storage, ready, open, delivery, catalog, nextId, opens, loaded, last, ordered, mishap>>

(* "Limpar", and the tail of saveInRepeat *)
EmptyCartUnsaved ==    \* mutant: no save()
  /\ items' = <<>> /\ rows' = <<>>
  /\ total' = Total(<<>>, delivery)
  /\ Shift /\ UNCHANGED pending
EmptyCart ==
  /\ items' = <<>> /\ rows' = <<>>
  /\ pending' = Append(pending, "save")
  /\ total' = Total(<<>>, delivery)
  /\ Shift

Clear ==
  /\ Event /\ Room /\ EmptyCart
  /\ discarded' = discarded \cup IdsOf(items)
  /\ UNCHANGED <<storage, ready, open, delivery, catalog, nextId, opens, loaded, rebound, last, ordered, mishap>>

SetDelivery(b) ==
  /\ Event /\ b # delivery
  /\ delivery' = b /\ total' = Total(items, b)
  /\ UNCHANGED <<storage, ready, pending, open, items, rows, queries, catalog, history>>

(* The page scrolls the rows out of the list and back: new State objects. *)
RecreateRows ==
  /\ Event /\ rows' = [i \in 1 .. Len(items) |-> NewRow(items[i])]
  /\ UNCHANGED <<storage, ready, pending, open, items, delivery, total, queries, catalog, history>>

-----------------------------------------------------------------------------
(* "Fazer Pedido" *)

CreateMessangeSend == total' = Total(items, delivery)

\* the form is incomplete: the total has been recomputed
OrderRefused ==
  /\ Event /\ CreateMessangeSend
  /\ UNCHANGED <<storage, ready, pending, open, items, rows, delivery, queries, catalog, history>>

OrderSent ==
  /\ Event /\ Room
  /\ CreateMessangeSend
  /\ pending' = Append(pending, "saveInRepeat")
  /\ ordered' = ordered \cup IdsOf(items)
  /\ last' = [items |-> items, loaded |-> loaded, live |-> TRUE,
              durable |-> IdsOf(items) \cap IdsOf(disk.data)]
  /\ mishap' = IF loaded THEN mishap ELSE mishap \cup {"early"}
  /\ UNCHANGED <<storage, ready, open, items, rows, delivery, queries, catalog, nextId, opens, loaded, rebound, discarded>>

-----------------------------------------------------------------------------
(* Answers to filterData(name, index) *)

\* documents.length > 0: filterData awaits the address of the picture next, and
\* changes nothing until that has come; the promotion may be withdrawn meanwhile.
Matched(q) ==
  /\ Event /\ q \in queries /\ ~q.found /\ q.name \in catalog
  /\ queries' = (queries \ {q}) \cup {[q EXCEPT !.found = TRUE]}
  /\ UNCHANGED <<storage, ready, pending, open, items, rows, delivery, total, catalog, history>>

FoundUnchecked(q) ==    \* mutant: documents.length is not looked at
  /\ Event /\ q \in queries /\ ~q.found
  /\ queries' = queries \ {q}
  /\ items' = IF q.index \in DOMAIN items THEN [items EXCEPT ![q.index].image = q.name] ELSE items
  /\ UNCHANGED <<storage, ready, pending, open, rows, delivery, total, catalog, history>>
\* the address of the picture has come: it is set, then valueUn = price.toInt() throws
Found(q) ==
  /\ Event /\ q \in queries /\ q.found
  /\ queries' = queries \ {q}
  /\ items' = IF q.index \in DOMAIN items THEN [items EXCEPT ![q.index].image = q.name] ELSE items
  /\ UNCHANGED <<storage, ready, pending, open, rows, delivery, total, catalog, history>>

MarkKeepingPrice(list, i) ==    \* mutant: the price is left in place
  [list EXCEPT ![i].title = Unavailable]
MarkPriceOnly(list, i) ==    \* mutant: the title is left in place
  [list EXCEPT ![i].valueUn = 0]
MarkUnavailable(list, i) ==
  [list EXCEPT ![i].title = Unavailable, ![i].valueUn = 0]

NotFound(q) ==
  /\ Event /\ Room /\ q \in queries /\ ~q.found /\ q.name \notin catalog
  /\ queries' = queries \ {q}
  /\ IF q.index \in DOMAIN items
       THEN /\ items' = MarkUnavailable(items, q.index)
            /\ pending' = pending \o <<"save", "load">>
       ELSE UNCHANGED <<items, pending>>    \* RangeError: neither save() nor load()
  /\ UNCHANGED <<storage, ready, open, rows, delivery, total, catalog, history>>

\* the query or the download URL fails: an uncaught exception
QueryFails(q) ==
  /\ Event /\ q \in queries
  /\ queries' = queries \ {q}
  /\ mishap' = mishap \cup {"failed"}
  /\ UNCHANGED <<storage, ready, pending, open, items, rows, delivery, total, catalog,
                 nextId, opens, loaded, rebound, last, discarded, ordered>>

Withdraw(p) ==
  /\ Quiet /\ p \in catalog /\ catalog' = catalog \ {p}
  /\ UNCHANGED <<storage, ready, pending, screen, history>>

Publish(p) ==
  /\ Quiet /\ p \notin catalog /\ catalog' = catalog \cup {p}
  /\ UNCHANGED <<storage, ready, pending, screen, history>>

-----------------------------------------------------------------------------
(* The platform acknowledges the oldest write *)

Acknowledge(w) ==
  /\ Quiet /\ diskQ # <<>> /\ w = Head(diskQ)
  /\ disk' = [disk EXCEPT ![w.key] = w.val]

DiskWrite(w) ==
  /\ Acknowledge(w) /\ w.key = "data"
  /\ diskQ' = Tail(diskQ)
  /\ UNCHANGED <<prefs, ready, pending, screen, catalog, history>>

\* await prefs.setString('dataRepeat', ...) returns to the screen
RepeatSaved(w) ==
  /\ Acknowledge(w) /\ w.key = "repeat" /\ w.live /\ open
  /\ diskQ' = Tail(diskQ)
  /\ EmptyCart
  /\ UNCHANGED <<prefs, ready, open, delivery, catalog, nextId, opens, loaded, rebound, last, discarded, ordered, mishap>>

\* ... or to a screen that was left meanwhile: its setState still runs the
\* closure, and the save() in it writes the closed screen's empty list
RepeatSavedLate(w) ==
  /\ Acknowledge(w) /\ w.key = "repeat" /\ ~w.live
  /\ prefs' = [prefs EXCEPT !.data = <<>>]
  /\ diskQ' = Append(Tail(diskQ), [key |-> "data", val |-> <<>>, live |-> TRUE])
  /\ mishap' = mishap \cup {"late"}
  /\ UNCHANGED <<ready, pending, screen, catalog, nextId, opens, loaded, rebound, last, discarded, ordered>>

Leave == open' = FALSE /\ items' = <<>> /\ rows' = <<>> /\ queries' = {} /\ loaded' = FALSE

Back ==
  /\ Event /\ ready /\ Leave
  /\ diskQ' = [i \in 1 .. Len(diskQ) |-> [diskQ[i] EXCEPT !.live = (diskQ[i].key = "data")]]
  /\ UNCHANGED <<prefs, disk, ready, pending, delivery, total, catalog, nextId, opens, rebound, last, discarded, ordered, mishap>>

(* The process dies between two events *)
Kill ==
  /\ Quiet /\ Leave
  /\ prefs' = disk /\ diskQ' = <<>> /\ ready' = FALSE /\ pending' = <<>>
  /\ last' = [last EXCEPT !.live = FALSE]
  /\ mishap' = mishap \cup {"kill"}
  /\ UNCHANGED <<disk, delivery, total, catalog, nextId, opens, rebound, discarded, ordered>>

-----------------------------------------------------------------------------
Answer == \E q \in queries : Matched(q) \/ Found(q) \/ NotFound(q) \/ QueryFails(q)
Platform == \E w \in {diskQ[i] : i \in DOMAIN diskQ} :
              DiskWrite(w) \/ RepeatSaved(w) \/ RepeatSavedLate(w)
Microtask == (\E r \in Rounds : RunLoad(r)) \/ RunSave \/ RunSaveInRepeat
Restaurant == \E p \in Promotions : Withdraw(p) \/ Publish(p)
User ==
  \/ \E p \in Products, u \in 1 .. MaxUnits : AddProduct(p, u)
  \/ OpenCheckout \/ Back
  \/ \E i \in DOMAIN items : AddUnit(i) \/ SubUnit(i) \/ Remove(i)
  \/ Clear \/ RecreateRows \/ OrderRefused \/ OrderSent
  \/ \E b \in BOOLEAN : SetDelivery(b)

Next == User \/ Microtask \/ PrefsReady \/ Answer \/ Platform \/ Restaurant \/ Kill
Spec == Init /\ [][Next]_vars

\* The event loop runs what was queued and the platform answers; users, the
\* restaurant and failures are under no obligation.  An answer can be put off
\* by other events again and again, hence strong fairness, for each question.
FairSpec ==
  /\ Spec
  /\ WF_vars(Microtask) /\ WF_vars(PrefsReady) /\ WF_vars(Platform)
  /\ \A id \in Ids, r \in Rounds :
       SF_vars(\E q \in queries : q.id = id /\ q.round = r /\ NotFound(q))

-----------------------------------------------------------------------------
TypeOK ==
  /\ prefs \in [data : Seq(Item), repeat : Seq(Item)]
  /\ disk  \in [data : Seq(Item), repeat : Seq(Item)]
  /\ diskQ \in Seq(Write)
  /\ ready \in BOOLEAN /\ pending \in Seq(Task)
  /\ open \in BOOLEAN /\ items \in Seq(Item) /\ rows \in Seq(Row)
  /\ delivery \in BOOLEAN
  /\ queries \subseteq Query /\ catalog \subseteq Promotions
  /\ nextId \in 1 .. MaxId + 1 /\ opens \in 0 .. MaxOpens
  /\ loaded \in BOOLEAN /\ rebound \in BOOLEAN
  /\ last \in [items : Seq(Item), loaded : BOOLEAN, live : BOOLEAN, durable : SUBSET Ids]
  /\ discarded \subseteq Ids /\ ordered \subseteq Ids
  /\ mishap \subseteq {"early", "late", "kill", "failed"}

\* A continuation of load() is either the first one of an empty screen, or runs
\* right behind the save() that makes the saved cart equal to the screen's.
LoadIsSettled ==
  /\ ~open => pending = <<>> /\ queries = {}
  /\ ~open \/ ~ready => queries = {} /\ items = <<>> /\ rows = <<>>
  /\ \A k \in DOMAIN pending : pending[k] = "load" =>
       \/ k = 1 /\ queries = {} /\ items = <<>> /\ rows = <<>>
       \/ k = 1 /\ prefs.data = items
       \/ k = 2 /\ pending[1] = "save"

\* A list never holds the same product twice, nor one that was not added yet.
NoTwins(list, n) ==
  /\ \A i \in DOMAIN list : list[i].id < n
  /\ \A i, j \in DOMAIN list : list[i].id = list[j].id => i = j
ListsHaveNoTwins ==
  /\ NoTwins(items, nextId) /\ NoTwins(prefs.data, nextId) /\ NoTwins(disk.data, nextId)
  /\ \A k \in DOMAIN diskQ : diskQ[k].key = "data" => NoTwins(diskQ[k].val, nextId)

\* Items only move towards the front, rows stay: the item a row's State was made
\* for is never behind the row.
RowsTrailItems ==
  \A i, j \in DOMAIN items : rows[i].owner = items[j].id => j <= i

\* Until a removal re-binds rows, each is its item's own; then the guard
\* "units > 1" protects the items, and so the saved lists, too.
SomeUnits(list) == \A i \in DOMAIN list : list[i].units >= 1
UnitsAreGuarded ==
  ~rebound =>
    /\ \A i \in DOMAIN items : rows[i].owner = items[i].id
    /\ SomeUnits(prefs.data) /\ SomeUnits(disk.data)
    /\ \A k \in DOMAIN diskQ : diskQ[k].key = "data" => SomeUnits(diskQ[k].val)

\* The first load() of a screen is the first continuation to run; a later one
\* finds the saved cart equal to the list.  Only a loaded screen has a copy of
\* its order on the way to the disk.
Waits(task) == \E k \in DOMAIN pending : pending[k] = task
Copy(k)     == diskQ[k].key = "repeat" /\ diskQ[k].live
LoadComesFirst ==
  /\ loaded => open /\ ready
  /\ open /\ ~loaded => pending # <<>> /\ pending[1] = "load"
  /\ loaded => \A k \in DOMAIN pending : pending[k] = "load" =>
       (k = 1 /\ prefs.data = items) \/ (k = 2 /\ pending[1] = "save")
  /\ ~loaded => \A k \in DOMAIN diskQ : ~Copy(k)

\* A list without its units and pictures.
Unpriced(list) == [i \in DOMAIN list |-> [id |-> list[i].id, title |-> list[i].title,
                                          valueUn |-> list[i].valueUn]]

\* What makes the saved cart differ from the list has queued its save().
SaveIsComing ==
  loaded /\ "late" \notin mishap =>
    /\ IdsOf(items) \subseteq IdsOf(prefs.data)
    /\ Waits("save") \/ Unpriced(prefs.data) = Unpriced(items)

\* Nothing runs between an order and the encoding of its copy.
CopyIsComing ==
  last.loaded =>
    /\ last.durable \subseteq IdsOf(last.items)
    /\ Waits("saveInRepeat") =>
         ready /\ loaded /\ pending = <<"saveInRepeat">> /\ items = last.items
    /\ last.live /\ ~Waits("saveInRepeat") => prefs.repeat = last.items

\* Whatever is renamed is free of charge, and what the saved cart has renamed the
\* list on the screen has too.
MarksAreFree(list) == \A i \in DOMAIN list : list[i].title = Unavailable => list[i].valueUn = 0
MarksStay ==
  /\ MarksAreFree(items) /\ MarksAreFree(prefs.data) /\ MarksAreFree(disk.data)
  /\ \A k \in DOMAIN diskQ : diskQ[k].key = "data" => MarksAreFree(diskQ[k].val)
  /\ \A i \in DOMAIN prefs.data, j \in DOMAIN items :
       prefs.data[i].id = items[j].id /\ prefs.data[i].title = Unavailable => items[j].title = Unavailable

\* Products are accounted for on the screen as well as in the saved cart, and
\* the list a copy is on its way for was ordered.
Accounted(list) == 1 .. nextId - 1 \subseteq IdsOf(list) \cup discarded \cup ordered
NothingIsLost ==
  mishap = {} =>
    /\ Accounted(prefs.data)
    /\ loaded => Accounted(items)
    /\ Waits("saveInRepeat") => loaded
    /\ Waits("saveInRepeat") \/ (\E k \in DOMAIN diskQ : Copy(k)) => IdsOf(items) \subseteq ordered

\* A product on disk and in the saved cart is in every write between them; one of
\* the last order is either in all of these or copied; the copies on their way
\* hold all of the list.
Written(id) == \A k \in DOMAIN diskQ : diskQ[k].key = "data" => id \in IdsOf(diskQ[k].val)
InCart(id)  == /\ id \in IdsOf(disk.data) /\ id \in IdsOf(prefs.data) /\ Written(id)
               /\ loaded => id \in IdsOf(items)
Copied(id)  == /\ id \in IdsOf(disk.repeat)
               /\ \A k \in DOMAIN diskQ : Copy(k) => id \in IdsOf(diskQ[k].val)
WritesAreOrdered ==
  \A id \in IdsOf(prefs.data) :
    /\ id \in IdsOf(disk.data) => Written(id)
    /\ \A j, k \in DOMAIN diskQ :
         j < k /\ diskQ[j].key = "data" /\ diskQ[k].key = "data" /\ id \in IdsOf(diskQ[j].val)
           => id \in IdsOf(diskQ[k].val)
OrderIsKept ==
  /\ \A k \in DOMAIN diskQ : Copy(k) => IdsOf(items) \subseteq IdsOf(diskQ[k].val)
  /\ "late" \notin mishap => WritesAreOrdered
  /\ last.loaded /\ "late" \notin mishap =>
       \A id \in last.durable \ discarded : InCart(id) \/ Copied(id)

\* total is current unless a load() is about to recompute it.
TotalIsComing ==
  open /\ (ready => \A k \in DOMAIN pending : pending[k] # "load") => total = Total(items, delivery)

\* What the customer sees under "Total R$" is the fee of the chosen delivery
\* mode plus the items, whatever order taps, answers and acknowledgements of
\* writes came in (checkout.dart recomputes it in six places).
TotalAgrees == open /\ Quiet => total = Total(items, delivery)

\* An answer lands on the item it was asked for unless the list was shortened
\* after the question: filterData keeps a position, not an item.
AnswersAimRight ==
  \A q \in queries : ~q.stale =>
    q.index \in DOMAIN items /\ items[q.index].id = q.id /\ items[q.index].type = "promotion"

\* A row whose State was made for the item it now stands for shows that item's
\* units; only a row re-bound by a removal shows another number.  Until then its
\* guard "units > 1" keeps every item at one unit or more.
RowsTellTheTruth ==
  /\ Len(rows) = Len(items)
  /\ \A i \in DOMAIN items :
       /\ rows[i].type = items[i].type
       /\ rows[i].owner = items[i].id => rows[i].units = items[i].units
       /\ ~rebound => items[i].units >= 1

\* Between events the saved cart lists the same products as the screen, with
\* the same titles and prices: what closing the screen forgets is at most units
\* and pictures.  (A late clear of an earlier screen is the exception.)
OnlyUnitsUnsaved ==
  open /\ loaded /\ Quiet /\ "late" \notin mishap => Unpriced(prefs.data) = Unpriced(items)

\* The list offered by "repeat the last order" is the list the customer last
\* sent, although saveInRepeat encodes it after an await.
RepeatIsLastOrder ==
  Quiet /\ last.live /\ last.loaded => prefs.repeat = last.items

\* Without a kill, an order sent before the cart was loaded, or a late clear,
\* every product ever added is in the saved cart, was ordered, or was removed
\* by the customer.
EveryProductAccounted ==
  Quiet /\ mishap = {} => 1 .. nextId - 1 \subseteq IdsOf(prefs.data) \cup discarded \cup ordered

\* A kill at any moment leaves every product of the last order that was on disk
\* in the cart or in the repeat list: the copy is acknowledged before the cart
\* is emptied.  (Again unless an earlier screen's clear came late.)
OrderSurvivesKill ==
  last.loaded /\ "late" \notin mishap => last.durable \ discarded \subseteq IdsOf(disk.data) \cup IdsOf(disk.repeat)

\* A renamed item of the saved cart, unless the process was killed.
StaysUnavailable ==
  \A i \in DOMAIN prefs.data, j \in DOMAIN prefs'.data :
    prefs.data[i].id = prefs'.data[j].id /\ prefs.data[i].title = Unavailable
      => "kill" \in mishap' \/ (prefs'.data[j].title = Unavailable /\ prefs'.data[j].valueUn = 0)

\* Once an item was renamed to "Produto indisponível" it stays in the list with
\* price 0, also when the promotion is published again: later queries ask for
\* the new title.
UnavailableForever == [][StaysUnavailable]_vars

\* A promotion that is gone while a question of the cart has no answer yet ends
\* up marked, unless it comes back, the customer shortens or sends the list,
\* leaves, or a mishap (a failed query among them) intervenes: an answer whose
\* position slipped off the end is not asked again.  A promotion withdrawn once
\* its document was found, while the address of its picture is awaited, is not
\* noticed: its price was read, and nothing asks again before the next load().
GoneIsNoticed ==
  \A id \in Ids, p \in Promotions :
    (\E q \in queries : q.id = id /\ q.name = p /\ ~q.stale /\ ~q.found /\ p \notin catalog)
      ~> \/ p \in catalog \/ ~open \/ discarded # {} \/ ordered # {} \/ mishap # {}
         \/ \E i \in DOMAIN items : items[i].id = id /\ items[i].title = Unavailable
=============================================================================
