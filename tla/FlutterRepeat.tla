---------------------------- MODULE FlutterRepeat ----------------------------
(***************************************************************************)
(* The screen of the Flutter app that offers the last order again,         *)
(* lib/screens/checkoutRepeat.dart: a copy of checkout.dart over the key   *)
(* 'dataRepeat', in which every handler sums the total for itself.         *)
(*                                                                         *)
(* As in FlutterCheckout, load() asks for every promotion of the list, an  *)
(* answer is written at the position asked for, and a row's State keeps    *)
(* its own count of units and survives at its position.  Here an answer is *)
(* saved under 'dataRepeat': the last order itself is changed by it.       *)
(* A promotion's name is the id of its item until it is renamed.           *)
(* id, loaded, bare, slipped, missed (the promotions that were missing when *)
(* an answer about them was handled), a query's id and stale are history.  *)
(***************************************************************************)
EXTENDS Integers, Sequences, FiniteSets, Functions

CONSTANTS
  Orders,      \* the repeat lists a customer may have, as sequences of [type, units]
  Price,       \* valueUn of the products
  MaxUnits,    \* bound: units a row may show
  MaxOpens,    \* bound: times the screen is opened
  MaxRounds    \* bound: calls of load() whose queries in flight are told apart

Kinds == {"food", "promotion"}

ASSUME RepeatAssumption ==
  /\ Orders \subseteq Seq([type : Kinds, units : Nat \ {0}])
  /\ Price \in Nat \ {0} /\ MaxUnits \in Nat /\ MaxOpens \in Nat /\ MaxRounds \in Nat \ {0}

VARIABLES
  saved,       \* the list under 'dataRepeat'
  ready, pending, open,
  items, rows, delivery, total,
  queries,     \* filterData() calls in flight
  catalog,     \* promotions a query finds: in Firestore, or offline in its cache
  message,     \* what was handed to WhatsApp, as a set of at most one record
  opens, loaded, bare, slipped, missed

screen  == <<open, items, rows, delivery, total, queries, message>>
history == <<opens, loaded, bare, slipped, missed>>
vars    == <<saved, ready, pending, screen, catalog, history>>

Item  == [id : Nat, type : Kinds, renamed : BOOLEAN, units : Int, valueUn : Nat]
Row   == [type : Kinds, units : Int]
Query == [id : Nat, renamed : BOOLEAN, index : Nat, round : 1 .. MaxRounds, stale : BOOLEAN,
          found : BOOLEAN]

Fee == 4
Amount(list) == SumFunction([i \in DOMAIN list |-> list[i].valueUn * list[i].units])
Total(list, dlv) == (IF dlv THEN Fee ELSE 0) + Amount(list)

Without(list, k) ==
  [i \in 1 .. Len(list) - 1 |-> IF i < k THEN list[i] ELSE list[i + 1]]
NewRow(it) == [type |-> it.type, units |-> it.units]
Rebuild(old, list) ==
  [i \in 1 .. Len(list) |->
     IF i <= Len(old) /\ old[i].type = list[i].type THEN old[i] ELSE NewRow(list[i])]

MarkUnavailable(list, i) == [list EXCEPT ![i].renamed = TRUE, ![i].valueUn = 0]

\* mutant: positions counted from one
AskOffByOne(list, r) ==
  {[id |-> list[i].id, renamed |-> list[i].renamed, index |-> i + 1, round |-> r, stale |-> FALSE,
    found |-> FALSE] :
     i \in {j \in DOMAIN list : list[j].type = "promotion"}}
\* load() asks for the titles of the promotions, at their positions
Ask(list, r) ==
  {[id |-> list[i].id, renamed |-> list[i].renamed, index |-> i, round |-> r, stale |-> FALSE,
    found |-> FALSE] :
     i \in {j \in DOMAIN list : list[j].type = "promotion"}}
Shift == queries' = {[q EXCEPT !.stale = TRUE] : q \in queries}

Quiet == pending = <<>> \/ ~ready
Event == open /\ Quiet

Init ==
  /\ saved \in {[i \in 1 .. Len(o) |-> [id |-> i, type |-> o[i].type, renamed |-> FALSE,
                                        units |-> o[i].units, valueUn |-> Price]] : o \in Orders}
  /\ ready = FALSE /\ pending = <<>>
  /\ open = FALSE /\ items = <<>> /\ rows = <<>> /\ delivery = FALSE /\ total = 0 /\ message = {}
  /\ queries = {} /\ catalog = {i \in DOMAIN saved : saved[i].type = "promotion"}
  /\ opens = 0 /\ loaded = FALSE /\ bare = FALSE /\ slipped = FALSE /\ missed = {}

Open ==
  /\ ~open /\ Quiet /\ opens < MaxOpens
  /\ open' = TRUE /\ pending' = Append(pending, "load") /\ opens' = opens + 1
  /\ items' = <<>> /\ rows' = <<>> /\ delivery' = FALSE /\ total' = 0 /\ message' = {}
  /\ queries' = {}
  /\ loaded' = FALSE /\ bare' = FALSE
  /\ UNCHANGED <<saved, ready, catalog, slipped, missed>>

\* what is still asked for a disposed State fails before it saves
Back ==
  /\ Event /\ ready /\ open' = FALSE /\ queries' = {}
  /\ UNCHANGED <<saved, ready, pending, items, rows, delivery, total, message, catalog, history>>

PrefsReady ==
  /\ open /\ ~ready /\ ready' = TRUE
  /\ UNCHANGED <<saved, pending, screen, catalog, history>>

Run(task) == ready /\ pending # <<>> /\ Head(pending) = task /\ pending' = Tail(pending)

RunLoad ==
  /\ Run("load")
  /\ items' = saved /\ rows' = Rebuild(rows, saved)
  /\ total' = Total(saved, delivery)
  /\ LET used == {q.round : q \in queries}
         free == 1 .. MaxRounds \ used
         r == IF free = {} THEN MaxRounds ELSE CHOOSE n \in free : \A m \in free : n <= m
     IN queries' = queries \cup Ask(saved, r)
  /\ loaded' = TRUE /\ bare' = FALSE
  /\ UNCHANGED <<saved, ready, open, delivery, message, catalog, opens, slipped, missed>>

RunSave ==
  /\ Run("save") /\ saved' = items
  /\ UNCHANGED <<ready, screen, catalog, history>>

SetUnits(i, d, dlv) ==
  /\ rows'  = [rows EXCEPT ![i].units = @ + d]
  /\ items' = [items EXCEPT ![i].units = @ + d]
  /\ total' = Total(items', dlv)
  /\ bare' = (delivery /\ ~dlv)
  /\ UNCHANGED <<saved, ready, pending, open, delivery, queries, message, catalog, opens, loaded, slipped, missed>>

\* addTotalValue sums the items only
AddUnit(i) ==
  /\ Event /\ i \in DOMAIN items /\ rows[i].units < MaxUnits
  /\ SetUnits(i, 1, FALSE)

SubUnit(i) ==
  /\ Event /\ i \in DOMAIN items /\ rows[i].units > 1
  /\ SetUnits(i, -1, delivery)

RemoveUnsaved(i) ==    \* mutant: no save()
  /\ Event /\ i \in DOMAIN items
  /\ items' = Without(items, i) /\ rows' = Rebuild(rows, items')
  /\ total' = Total(items', delivery) /\ Shift
  /\ bare' = FALSE
  /\ UNCHANGED <<saved, ready, pending, open, delivery, message, catalog, opens, loaded, slipped, missed>>
Remove(i) ==
  /\ Event /\ i \in DOMAIN items
  /\ items' = Without(items, i) /\ rows' = Rebuild(rows, items')
  /\ pending' = Append(pending, "save")
  /\ total' = Total(items', delivery) /\ Shift
  /\ bare' = FALSE
  /\ UNCHANGED <<saved, ready, open, delivery, message, catalog, opens, loaded, slipped, missed>>

\* "Limpar"; before load() has run it is undone by it
Clear ==
  /\ Event /\ (ready \/ Len(pending) < 2)
  /\ items' = <<>> /\ rows' = <<>>
  /\ pending' = Append(pending, "save")
  /\ total' = Total(<<>>, delivery) /\ Shift
  /\ bare' = FALSE
  /\ UNCHANGED <<saved, ready, open, delivery, message, catalog, opens, loaded, slipped, missed>>

SetDeliveryQuietly(b) ==    \* mutant: updateTotalVue() is not called
  /\ Event /\ delivery' = b
  /\ bare' = FALSE
  /\ UNCHANGED <<saved, ready, pending, open, items, rows, total, queries, message, catalog, opens, loaded, slipped, missed>>
SetDelivery(b) ==
  /\ Event /\ delivery' = b
  /\ total' = Total(items, b)
  /\ bare' = FALSE
  /\ UNCHANGED <<saved, ready, pending, open, items, rows, queries, message, catalog, opens, loaded, slipped, missed>>

RecreateRows ==
  /\ Event /\ rows' = [i \in 1 .. Len(items) |-> NewRow(items[i])]
  /\ UNCHANGED <<saved, ready, pending, open, items, delivery, total, queries, message, catalog, history>>

\* "Fazer Pedido": createMessangeSend() sums the items only, also when the form
\* is then found incomplete and nothing is sent
Order(complete) ==
  /\ Event
  /\ total' = Total(items, FALSE) /\ bare' = delivery
  /\ message' = IF complete THEN {[list |-> items, delivery |-> delivery, total |-> total']} ELSE message
  /\ UNCHANGED <<saved, ready, pending, open, items, rows, delivery, queries, catalog, opens, loaded, slipped, missed>>

-----------------------------------------------------------------------------
\* filterData found a document, and awaits the address of its picture
Matched(q) ==
  /\ Event /\ q \in queries /\ ~q.found /\ ~q.renamed /\ q.id \in catalog
  /\ queries' = (queries \ {q}) \cup {[q EXCEPT !.found = TRUE]}
  /\ UNCHANGED <<saved, ready, pending, open, items, rows, delivery, total, message, catalog, history>>

\* the address has come, and price.toInt() throws behind the picture; or the query
\* or the address ends in an error nobody catches
Dropped(q) ==
  /\ Event /\ q \in queries /\ queries' = queries \ {q}
  /\ UNCHANGED <<saved, ready, pending, open, items, rows, delivery, total, message, catalog, history>>

\* no document: a RangeError if the position is gone, else save(); load();
NotFound(q) ==
  /\ Event /\ q \in queries /\ ~q.found /\ (q.renamed \/ q.id \notin catalog) /\ Len(pending) < 2
  /\ queries' = queries \ {q}
  /\ missed' = missed \cup ({q.id} \ catalog)
  /\ IF q.index \in DOMAIN items
       THEN /\ items' = MarkUnavailable(items, q.index)
            /\ pending' = pending \o <<"save", "load">> /\ slipped' = (slipped \/ q.stale)
       ELSE UNCHANGED <<items, pending, slipped>>
  /\ UNCHANGED <<saved, ready, open, rows, delivery, total, message, catalog, opens, loaded, bare>>

\* the restaurant withdraws a promotion, or the phone loses its connection
Withdraw(id) ==
  /\ Quiet /\ id \in catalog /\ catalog' = catalog \ {id}
  /\ UNCHANGED <<saved, ready, pending, screen, history>>

\* a promotion of the list is there again
Publish(id) ==
  /\ Quiet /\ id \notin catalog /\ catalog' = catalog \cup {id}
  /\ UNCHANGED <<saved, ready, pending, screen, history>>

Next ==
  \/ Open \/ Back \/ PrefsReady \/ RunLoad \/ RunSave
  \/ \E i \in DOMAIN items : AddUnit(i) \/ SubUnit(i) \/ Remove(i)
  \/ Clear \/ RecreateRows
  \/ \E b \in BOOLEAN : SetDelivery(b) \/ Order(b)
  \/ \E q \in queries : Matched(q) \/ Dropped(q) \/ NotFound(q)
  \/ \E id \in catalog : Withdraw(id)
  \/ \E i \in DOMAIN saved : saved[i].type = "promotion" /\ Publish(saved[i].id)

Spec == Init /\ [][Next]_vars

-----------------------------------------------------------------------------
TypeOK ==
  /\ saved \in Seq(Item) /\ items \in Seq(Item) /\ rows \in Seq(Row) /\ total \in Int
  /\ Len(rows) = Len(items)
  /\ ready \in BOOLEAN /\ pending \in Seq({"load", "save"})
  /\ open \in BOOLEAN /\ delivery \in BOOLEAN
  /\ queries \subseteq Query /\ catalog \subseteq Nat
  /\ Cardinality(message) <= 1 /\ opens \in 0 .. MaxOpens
  /\ {loaded, bare, slipped} \subseteq BOOLEAN /\ missed \subseteq Nat

\* The total shown is the items plus the fee of the chosen mode; exactly after
\* "+" and "Fazer Pedido", until the next recomputation, the fee is missing.
TotalAgreesUnlessBare == Event => total = Total(items, delivery /\ ~bare)

\* Between events the saved list has the products of the screen, marked and
\* priced alike: leaving the screen forgets units and nothing else, whatever
\* answers save and reload it meanwhile, and sending changes neither.
Unpriced(list) == [i \in DOMAIN list |-> <<list[i].id, list[i].renamed, list[i].valueUn>>]
OnlyUnitsUnsaved == Event /\ loaded => Unpriced(saved) = Unpriced(items)

\* A product of the last order, on the screen or saved, becomes "Produto
\* indisponível" only if it is a promotion that was missing when the answer about
\* it came, whatever is withdrawn and published before and after and however many
\* loads ask at once - unless an answer came after the list was shortened and
\* slipped onto another product.
Earned(list) ==
  \A i \in DOMAIN list : list[i].renamed =>
    slipped \/ (list[i].type = "promotion" /\ list[i].id \in missed)
OnlyMissingIsMarked == Earned(items) /\ Earned(saved)

\* What the three rest on.  The continuations of an opened screen run in this
\* order; until its load() has run, nothing is on the screen or asked for; a
\* load() behind a save() brings back what the screen has.
TasksInOrder ==
  /\ ~open => pending = <<>>
  /\ open /\ ~loaded => pending \in {<<"load">>, <<"load", "save">>} /\ items = <<>> /\ queries = {}
  /\ loaded => ready /\ pending \in {<<>>, <<"save">>, <<"save", "load">>, <<"load">>}
  /\ loaded /\ pending = <<"load">> => saved = items

\* Only between an answer and the load() it calls is the total an older one.
TotalIsComing ==
  open => \/ total = Total(items, delivery /\ ~bare)
          \/ loaded /\ pending \in {<<"save", "load">>, <<"load">>}

\* What the screen has and the saved list has not is about to be saved.
SaveIsComing ==
  loaded => \/ Unpriced(saved) = Unpriced(items)
            \/ pending \in {<<"save">>, <<"save", "load">>}

\* Nor does a question for a mark come without one; a question that no removal
\* overtook is about the item at its position.
MarksAreSound ==
  /\ OnlyMissingIsMarked
  /\ \A q \in queries :
       /\ q.renamed => slipped \/ q.id \in missed
       /\ ~q.stale => q.index \in DOMAIN items /\ items[q.index].id = q.id
                      /\ items[q.index].type = "promotion"

\* The total of a message with the mode 'Delivery (taxa R$ 4,00)' contains the
\* fee that mode names.
MessageChargesDelivery == \A m \in message : m.total = Total(m.list, m.delivery)
=============================================================================
