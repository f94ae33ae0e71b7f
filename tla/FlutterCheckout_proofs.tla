------------------------ MODULE FlutterCheckout_proofs ------------------------
(***************************************************************************)
(* Theorems about the Flutter checkout screen, for every set of products,  *)
(* every price and every bound of FlutterCheckout.                         *)
(***************************************************************************)
EXTENDS FlutterCheckout, TLAPS

\* Removing position k from a list leaves a list of the same kind, one shorter.
LEMMA WithoutIsSeq ==
  ASSUME NEW S, NEW list \in Seq(S), NEW k \in DOMAIN list
  PROVE  /\ Without(list, k) \in Seq(S)
         /\ Len(Without(list, k)) = Len(list) - 1
         /\ DOMAIN Without(list, k) = 1 .. Len(list) - 1
         /\ \A i \in 1 .. Len(list) - 1 :
              Without(list, k)[i] = IF i < k THEN list[i] ELSE list[i + 1]
<1>1. Len(list) - 1 \in Nat /\ k \in 1 .. Len(list)
  OBVIOUS
<1>2. Without(list, k) \in [1 .. Len(list) - 1 -> S]
  BY <1>1 DEF Without
<1> QED
  BY <1>1, <1>2 DEF Without

LEMMA NoElements ==
  <<>> \in Seq(Item) /\ <<>> \in Seq(Row) /\ <<>> \in Seq(Task) /\ <<>> \in Seq(Write)
  OBVIOUS

\* An element of a list of items is an item, so the ids of a list are ids.
LEMMA ItemAt ==
  ASSUME NEW list \in Seq(Item), NEW i \in DOMAIN list
  PROVE  list[i] \in Item
  OBVIOUS

LEMMA IdsOfAreIds ==
  ASSUME NEW list \in Seq(Item)
  PROVE  IdsOf(list) \subseteq Ids
<1>1. \A i \in DOMAIN list : list[i] \in Item
  BY ItemAt
<1>2. \A it \in Item : it.id \in Ids
  BY DEF Item
<1> QED
  BY <1>1, <1>2 DEF IdsOf

LEMMA NewRowIsRow ==
  ASSUME NEW it \in Item
  PROVE  NewRow(it) \in Row
  BY DEF NewRow, Row, Item

\* A frame gives every item a row of its class, whatever rows there were.
LEMMA RebuildIsRows ==
  ASSUME NEW old \in Seq(Row), NEW list \in Seq(Item)
  PROVE  /\ Rebuild(old, list) \in Seq(Row)
         /\ Len(Rebuild(old, list)) = Len(list)
         /\ DOMAIN Rebuild(old, list) = DOMAIN list
<1>1. ASSUME NEW i \in 1 .. Len(list) PROVE NewRow(list[i]) \in Row
  BY ItemAt, NewRowIsRow
<1>2. Rebuild(old, list) \in [1 .. Len(list) -> Row]
  BY <1>1 DEF Rebuild
<1> QED
  BY <1>2 DEF Rebuild

\* Changing the units of one item keeps the list a list of items.
LEMMA UnitsKeepItems ==
  ASSUME NEW list \in Seq(Item), NEW i \in DOMAIN list, NEW d \in Int
  PROVE  [list EXCEPT ![i].units = @ + d] \in Seq(Item)
<1>1. ASSUME NEW it \in Item PROVE [it EXCEPT !.units = @ + d] \in Item
  <2>1. ASSUME NEW u \in Int PROVE [it EXCEPT !.units = u] \in Item
    BY DEF Item
  <2>2. it.units + d \in Int
    BY DEF Item
  <2> QED
    BY <2>1, <2>2
<1>2. [list[i] EXCEPT !.units = @ + d] \in Item
  BY <1>1, ItemAt
<1> QED
  BY <1>2

LEMMA UnitsKeepRows ==
  ASSUME NEW list \in Seq(Row), NEW i \in DOMAIN list, NEW d \in Int
  PROVE  [list EXCEPT ![i].units = @ + d] \in Seq(Row)
<1>1. ASSUME NEW row \in Row PROVE [row EXCEPT !.units = @ + d] \in Row
  <2>1. ASSUME NEW u \in Int PROVE [row EXCEPT !.units = u] \in Row
    BY DEF Row
  <2>2. row.units + d \in Int
    BY DEF Row
  <2> QED
    BY <2>1, <2>2
<1>2. list[i] \in Row
  OBVIOUS
<1>3. [list[i] EXCEPT !.units = @ + d] \in Row
  BY <1>1, <1>2
<1> QED
  BY <1>3

LEMMA MarkKeepsItems ==
  ASSUME NEW list \in Seq(Item), NEW i \in DOMAIN list
  PROVE  MarkUnavailable(list, i) \in Seq(Item)
<1>0. ASSUME NEW it \in Item PROVE [it EXCEPT !.title = Unavailable, !.valueUn = 0] \in Item
  <2>1. [it EXCEPT !.title = Unavailable] \in Item
    <3>1. Unavailable \in Products \cup {Unavailable}
      OBVIOUS
    <3>2. ASSUME NEW t \in Products \cup {Unavailable} PROVE [it EXCEPT !.title = t] \in Item
      BY DEF Item
    <3> QED
      BY <3>1, <3>2
  <2>2. ASSUME NEW other \in Item PROVE [other EXCEPT !.valueUn = 0] \in Item
    BY DEF Item
  <2> QED
    BY <2>1, <2>2
<1>1. [list[i] EXCEPT !.title = Unavailable, !.valueUn = 0] \in Item
  BY <1>0, ItemAt
<1>2. MarkUnavailable(list, i) = [list EXCEPT ![i] = [list[i] EXCEPT !.title = Unavailable, !.valueUn = 0]]
  BY DEF MarkUnavailable
<1> QED
  BY <1>1, <1>2

LEMMA NewItemIsItem ==
  ASSUME NEW id \in Ids, NEW p \in Products, NEW u \in Int
  PROVE  NewItem(id, p, u) \in Item
  BY ProductsAssumption DEF NewItem, Item, Kinds

\* Marking a query stale leaves it a query.
LEMMA ShiftKeepsQueries ==
  ASSUME queries \subseteq Query, Shift
  PROVE  queries' \subseteq Query
<1>1. ASSUME NEW q \in Query PROVE [q EXCEPT !.stale = TRUE] \in Query
  BY DEF Query
<1> QED
  BY <1>1 DEF Shift

\* setString keeps the two keys lists of items and queues one write.
LEMMA SetStringTypes ==
  ASSUME prefs \in [data : Seq(Item), repeat : Seq(Item)], diskQ \in Seq(Write),
         NEW key \in {"data", "repeat"}, NEW val \in Seq(Item), SetString(key, val)
  PROVE  prefs' \in [data : Seq(Item), repeat : Seq(Item)] /\ diskQ' \in Seq(Write)
<1>1. [key |-> key, val |-> val, live |-> TRUE] \in Write
  BY DEF Write
<1> QED
  BY SMTT(30), <1>1 DEF SetString

\* The oldest write of the queue is a write, and what it leaves behind too.
LEMMA AcknowledgeTypes ==
  ASSUME TypeOK, NEW w, Acknowledge(w)
  PROVE  /\ disk' \in [data : Seq(Item), repeat : Seq(Item)]
         /\ Tail(diskQ) \in Seq(Write)
<1>1. w \in Write /\ Tail(diskQ) \in Seq(Write)
  BY DEF Acknowledge, TypeOK
<1>2. w.key \in {"data", "repeat"} /\ w.val \in Seq(Item)
  BY <1>1 DEF Write
<1> QED
  BY <1>1, <1>2 DEF Acknowledge, TypeOK

LEMMA TaskAppended ==
  ASSUME NEW list \in Seq(Task), NEW t \in Task
  PROVE  Append(list, t) \in Seq(Task)
  OBVIOUS

-----------------------------------------------------------------------------
(* Type correctness *)

\* "+" and "-" change a row and the item under it alike.
LEMMA SetUnitsTypes ==
  ASSUME TypeOK, NEW i \in DOMAIN items, NEW d \in Int, SetUnits(i, d)
  PROVE  TypeOK'
<1>1. items' \in Seq(Item)
  BY UnitsKeepItems DEF SetUnits, TypeOK
<1>2. rows' \in Seq(Row)
  <2>1. CASE i \in DOMAIN rows
    BY <2>1, UnitsKeepRows DEF SetUnits, TypeOK
  <2>2. CASE i \notin DOMAIN rows
    <3>1. rows' = [rows EXCEPT ![i] = [rows[i] EXCEPT !.units = @ + d]]
      BY DEF SetUnits
    <3>2. rows \in [1 .. Len(rows) -> Row] /\ Len(rows) \in Nat
      BY DEF TypeOK
    <3>3. rows' = [x \in 1 .. Len(rows) |-> rows[x]]
      BY <2>2, <3>1, <3>2
    <3>4. rows' \in [1 .. Len(rows) -> Row]
      BY <3>2, <3>3
    <3> QED
      BY <3>2, <3>4
  <2> QED
    BY <2>1, <2>2
<1> QED
  BY <1>1, <1>2 DEF SetUnits, TypeOK, storage, history

LEMMA InitTypeOK == Init => TypeOK
<1> SUFFICES ASSUME Init PROVE TypeOK
  OBVIOUS
<1>1. prefs \in [data : Seq(Item), repeat : Seq(Item)] /\ disk = prefs
  BY DEF Init
<1>2. last \in [items : Seq(Item), loaded : BOOLEAN, live : BOOLEAN, durable : SUBSET Ids]
  BY DEF Init
<1>3. nextId \in 1 .. MaxId + 1 /\ opens \in 0 .. MaxOpens
  BY BoundsAssumption DEF Init
<1> QED
  BY <1>1, <1>2, <1>3, NoElements DEF Init, TypeOK

\* Every handler, microtask, answer and acknowledgement keeps the types.
LEMMA StepTypeOK == TypeOK /\ [Next]_vars => TypeOK'
<1> SUFFICES ASSUME TypeOK, [Next]_vars PROVE TypeOK'
  OBVIOUS
<1> USE DEF storage, screen, history, vars
<1>1. ASSUME NEW p \in Products, NEW u \in 1 .. MaxUnits, AddProduct(p, u) PROVE TypeOK'
  <2>1. nextId \in Ids
    BY <1>1 DEF AddProduct, TypeOK, Ids
  <2>2. NewItem(nextId, p, u) \in Item
    BY <2>1, BoundsAssumption, NewItemIsItem
  <2>3. Append(prefs.data, NewItem(nextId, p, u)) \in Seq(Item)
    BY <2>2 DEF TypeOK
  <2>4. prefs' \in [data : Seq(Item), repeat : Seq(Item)] /\ diskQ' \in Seq(Write)
    BY <1>1, <2>3, SetStringTypes DEF AddProduct, TypeOK
  <2> QED
    BY SMTT(30), <1>1, <2>4, BoundsAssumption DEF AddProduct, TypeOK
<1>2. CASE OpenCheckout
  <2>1. pending' \in Seq(Task)
    BY <1>2, TaskAppended DEF OpenCheckout, TypeOK, Task
  <2>2. opens' \in 0 .. MaxOpens
    BY <1>2, BoundsAssumption DEF OpenCheckout, TypeOK
  <2> QED
    BY <1>2, <2>1, <2>2, NoElements DEF OpenCheckout, TypeOK
<1>3. CASE Back
  <2>1. ASSUME NEW w \in Write, NEW b \in BOOLEAN PROVE [w EXCEPT !.live = b] \in Write
    BY DEF Write
  <2>2. \A i \in 1 .. Len(diskQ) : diskQ[i] \in Write
    BY DEF TypeOK
  <2>3. \A i \in 1 .. Len(diskQ) : (diskQ[i].key = "data") \in BOOLEAN
    OBVIOUS
  <2>4. \A i \in 1 .. Len(diskQ) : [diskQ[i] EXCEPT !.live = (diskQ[i].key = "data")] \in Write
    BY <2>1, <2>2, <2>3, Zenon
  <2>5. diskQ' \in [1 .. Len(diskQ) -> Write] /\ Len(diskQ) \in Nat
    BY SMTT(30), <1>3, <2>4 DEF Back, TypeOK
  <2>6. diskQ' \in Seq(Write)
    BY <2>5
  <2> QED
    BY <1>3, <2>6, NoElements DEF Back, Leave, TypeOK
<1>4. ASSUME NEW i \in DOMAIN items, AddUnit(i) PROVE TypeOK'
  BY <1>4, SetUnitsTypes DEF AddUnit
<1>5. ASSUME NEW i \in DOMAIN items, SubUnit(i) PROVE TypeOK'
  BY <1>5, SetUnitsTypes DEF SubUnit
<1>6. ASSUME NEW i \in DOMAIN items, Remove(i) PROVE TypeOK'
  <2>1. items' \in Seq(Item)
    BY <1>6, WithoutIsSeq DEF Remove, TypeOK
  <2>2. rows' \in Seq(Row)
    BY <1>6, <2>1, RebuildIsRows DEF Remove, TypeOK
  <2>3. queries' \subseteq Query
    BY <1>6, ShiftKeepsQueries DEF Remove, TypeOK
  <2>4. items[i].id \in Ids
    BY IdsOfAreIds DEF TypeOK, IdsOf
  <2>5. pending' \in Seq(Task)
    BY <1>6, TaskAppended DEF Remove, TypeOK, Task
  <2>6. rebound' \in BOOLEAN
    BY <1>6 DEF Remove, TypeOK
  <2> QED
    BY <1>6, <2>1, <2>2, <2>3, <2>4, <2>5, <2>6 DEF Remove, TypeOK
<1>7. ASSUME EmptyCart
      PROVE  items' \in Seq(Item) /\ rows' \in Seq(Row) /\ pending' \in Seq(Task) /\ queries' \subseteq Query
  <2>1. pending' \in Seq(Task)
    BY <1>7, TaskAppended DEF EmptyCart, TypeOK, Task
  <2> QED
    BY <1>7, <2>1, ShiftKeepsQueries DEF EmptyCart, TypeOK
<1>8. CASE Clear
  <2>1. IdsOf(items) \subseteq Ids
    BY IdsOfAreIds DEF TypeOK
  <2> QED
    BY <1>7, <1>8, <2>1 DEF Clear, TypeOK
<1>9. CASE RecreateRows
  <2>1. \A i \in 1 .. Len(items) : NewRow(items[i]) \in Row
    BY ItemAt, NewRowIsRow DEF TypeOK
  <2>2. rows' \in [1 .. Len(items) -> Row]
    BY <1>9, <2>1 DEF RecreateRows
  <2>3. Len(items) \in Nat
    BY DEF TypeOK
  <2>4. rows' \in Seq(Row)
    BY <2>2, <2>3
  <2> QED
    BY <1>9, <2>4 DEF RecreateRows, TypeOK
<1>10. CASE OrderRefused
  BY <1>10 DEF OrderRefused, CreateMessangeSend, TypeOK
<1>11. CASE OrderSent
  <2>1. IdsOf(items) \subseteq Ids
    BY IdsOfAreIds DEF TypeOK
  <2>2. last' \in [items : Seq(Item), loaded : BOOLEAN, live : BOOLEAN, durable : SUBSET Ids]
    BY <1>11, <2>1 DEF OrderSent, CreateMessangeSend, TypeOK
  <2>3. pending' \in Seq(Task)
    BY <1>11, TaskAppended DEF OrderSent, CreateMessangeSend, TypeOK, Task
  <2> QED
    BY <1>11, <2>1, <2>2, <2>3 DEF OrderSent, CreateMessangeSend, TypeOK
<1>12. ASSUME NEW b \in BOOLEAN, SetDelivery(b) PROVE TypeOK'
  BY <1>12 DEF SetDelivery, TypeOK
<1>13. ASSUME NEW r \in Rounds, RunLoad(r) PROVE TypeOK'
  <2>1. items' \in Seq(Item) /\ pending' \in Seq(Task)
    BY <1>13 DEF RunLoad, Run, TypeOK
  <2>2. rows' \in Seq(Row)
    BY <1>13, <2>1, RebuildIsRows DEF RunLoad, TypeOK
  <2>3. \A i \in DOMAIN items' : Ask(items', i, r) \in Query
    <3>1. ASSUME NEW i \in DOMAIN items' PROVE items'[i].title \in Products \cup {Unavailable} /\ items'[i].id \in Ids
      <4>1. items'[i] \in Item
        BY <2>1
      <4> QED
        BY <4>1 DEF Item
    <3>2. \A i \in DOMAIN items' : i \in Nat \ {0}
      BY <2>1
    <3> QED
      BY <3>1, <3>2 DEF Ask, Query
  <2>4. queries' \subseteq Query
    BY <1>13, <2>3 DEF RunLoad, TypeOK
  <2> QED
    BY <1>13, <2>1, <2>2, <2>4 DEF RunLoad, TypeOK
<1>14. CASE RunSave
  <2>1. prefs' \in [data : Seq(Item), repeat : Seq(Item)] /\ diskQ' \in Seq(Write)
    BY <1>14, SetStringTypes DEF RunSave, TypeOK
  <2>2. pending' \in Seq(Task)
    BY <1>14 DEF RunSave, Run, TypeOK
  <2> QED
    BY <1>14, <2>1, <2>2 DEF RunSave, TypeOK
<1>15. CASE RunSaveInRepeat
  <2>1. prefs' \in [data : Seq(Item), repeat : Seq(Item)] /\ diskQ' \in Seq(Write)
    BY <1>15, SetStringTypes DEF RunSaveInRepeat, TypeOK
  <2>2. pending' \in Seq(Task)
    BY <1>15 DEF RunSaveInRepeat, Run, TypeOK
  <2> QED
    BY <1>15, <2>1, <2>2 DEF RunSaveInRepeat, TypeOK
<1>16. CASE PrefsReady
  BY <1>16 DEF PrefsReady, TypeOK
<1>17. ASSUME NEW q \in queries, Found(q) PROVE TypeOK'
  <2>1. CASE q.index \in DOMAIN items
    <3>0. ASSUME NEW it \in Item, NEW p \in Products PROVE [it EXCEPT !.image = p] \in Item
      BY DEF Item
    <3>1. q \in Query /\ q.found
      BY <1>17 DEF Found, TypeOK
    <3>2. q.name \in Products
      BY <3>1 DEF Query, Products
    <3>3. [items[q.index] EXCEPT !.image = q.name] \in Item
      BY <2>1, <3>0, <3>2, ItemAt DEF TypeOK
    <3>4. items' = [items EXCEPT ![q.index] = [items[q.index] EXCEPT !.image = q.name]]
      BY <1>17, <2>1 DEF Found
    <3>5. items' \in Seq(Item)
      BY SMTT(30), <2>1, <3>3, <3>4 DEF TypeOK
    <3> QED
      BY <1>17, <3>5 DEF Found, TypeOK
  <2>2. CASE q.index \notin DOMAIN items
    BY <1>17, <2>2 DEF Found, TypeOK
  <2> QED
    BY <2>1, <2>2
<1>18. ASSUME NEW q \in queries, NotFound(q) PROVE TypeOK'
  <2>1. CASE q.index \in DOMAIN items
    <3>1. items' \in Seq(Item)
      BY <1>18, <2>1, MarkKeepsItems DEF NotFound, TypeOK
    <3>2. pending' \in Seq(Task)
      <4>1. <<"save", "load">> \in Seq(Task)
        BY DEF Task
      <4>2. pending' = pending \o <<"save", "load">> /\ pending \in Seq(Task)
        BY <1>18, <2>1 DEF NotFound, TypeOK
      <4>3. ASSUME NEW s \in Seq(Task), NEW t \in Seq(Task) PROVE s \o t \in Seq(Task)
        OBVIOUS
      <4> QED
        BY <4>1, <4>2, <4>3
    <3> QED
      BY <1>18, <3>1, <3>2 DEF NotFound, TypeOK
  <2>2. CASE q.index \notin DOMAIN items
    BY <1>18, <2>2 DEF NotFound, TypeOK
  <2> QED
    BY <2>1, <2>2
<1>19. ASSUME NEW q \in queries, Matched(q) \/ QueryFails(q) PROVE TypeOK'
  <2>1. ASSUME NEW f \in Query, f.name \in Promotions PROVE [f EXCEPT !.found = TRUE] \in Query
    BY <2>1 DEF Query
  <2>2. CASE Matched(q)
    <3>1. q \in Query /\ q.name \in Promotions
      BY <2>2 DEF Matched, TypeOK
    <3> QED
      BY <2>1, <2>2, <3>1 DEF Matched, TypeOK
  <2>3. CASE QueryFails(q)
    BY <2>3 DEF QueryFails, TypeOK
  <2> QED
    BY <1>19, <2>2, <2>3
<1>20. ASSUME NEW w \in {diskQ[i] : i \in DOMAIN diskQ}, DiskWrite(w) PROVE TypeOK'
  BY <1>20, AcknowledgeTypes DEF DiskWrite, TypeOK
<1>21. ASSUME NEW w \in {diskQ[i] : i \in DOMAIN diskQ}, RepeatSaved(w) PROVE TypeOK'
  BY <1>7, <1>21, AcknowledgeTypes DEF RepeatSaved, TypeOK
<1>22. ASSUME NEW w \in {diskQ[i] : i \in DOMAIN diskQ}, RepeatSavedLate(w) PROVE TypeOK'
  <2>1. [key |-> "data", val |-> <<>>, live |-> TRUE] \in Write
    BY DEF Write
  <2>2. diskQ' \in Seq(Write) /\ disk' \in [data : Seq(Item), repeat : Seq(Item)]
    BY <1>22, <2>1, AcknowledgeTypes DEF RepeatSavedLate
  <2>3. prefs' \in [data : Seq(Item), repeat : Seq(Item)]
    BY <1>22, NoElements DEF RepeatSavedLate, TypeOK
  <2> QED
    BY <1>22, <2>2, <2>3 DEF RepeatSavedLate, TypeOK
<1>23. ASSUME NEW p \in Promotions, Withdraw(p) \/ Publish(p) PROVE TypeOK'
  BY <1>23 DEF Withdraw, Publish, TypeOK
<1>24. CASE Kill
  <2>1. last' \in [items : Seq(Item), loaded : BOOLEAN, live : BOOLEAN, durable : SUBSET Ids]
    BY <1>24 DEF Kill, TypeOK
  <2> QED
    BY <1>24, <2>1, NoElements DEF Kill, Leave, TypeOK
<1>25. CASE UNCHANGED vars
  BY <1>25 DEF TypeOK
<1> QED
  BY <1>1, <1>2, <1>3, <1>4, <1>5, <1>6, <1>8, <1>9, <1>10, <1>11, <1>12, <1>13, <1>14,
     <1>15, <1>16, <1>17, <1>18, <1>19, <1>20, <1>21, <1>22, <1>23, <1>24, <1>25
     DEF Next, User, Microtask, Answer, Platform, Restaurant

\* The saved keys, the pending writes, the list, its rows and the queries keep
\* their shapes in every behaviour of the screen.
THEOREM TypeCorrect == Spec => []TypeOK
<1>1. Init => TypeOK
  BY InitTypeOK
<1>2. TypeOK /\ [Next]_vars => TypeOK'
  BY StepTypeOK
<1> QED
  BY <1>1, <1>2, PTL DEF Spec
-----------------------------------------------------------------------------
(* load() continuations *)

\* What an event may rely on: no continuation is waiting, or the plug-in is
\* not ready and the screen still is as the constructor made it.
LEMMA EventIsSettled ==
  ASSUME TypeOK, LoadIsSettled, Quiet
  PROVE  pending = <<>> \/ (open /\ queries = {} /\ items = <<>> /\ rows = <<>>)
  BY DEF LoadIsSettled, Quiet, TypeOK

LEMMA StepLoadIsSettled == TypeOK /\ LoadIsSettled /\ [Next]_vars => LoadIsSettled'
<1> SUFFICES ASSUME TypeOK, LoadIsSettled, [Next]_vars PROVE LoadIsSettled'
  OBVIOUS
<1> USE DEF storage, screen, history, vars
<1>0. pending \in Seq(Task)
  BY DEF TypeOK
<1>1. ASSUME NEW p \in Products, NEW u \in 1 .. MaxUnits, AddProduct(p, u) PROVE LoadIsSettled'
  BY <1>1, <1>0, EventIsSettled DEF AddProduct, LoadIsSettled
<1>2. CASE OpenCheckout
  BY <1>2, <1>0 DEF OpenCheckout, LoadIsSettled
<1>3. CASE Back
  BY <1>3, <1>0, EventIsSettled DEF Back, Leave, LoadIsSettled, Event, Quiet
<1>4. ASSUME NEW i \in DOMAIN items, NEW d \in Int, Event, SetUnits(i, d) PROVE LoadIsSettled'
  <2>1. pending = <<>> /\ open /\ ready
    BY <1>4, EventIsSettled DEF Event, LoadIsSettled, TypeOK
  <2> QED
    BY <1>4, <2>1 DEF SetUnits, LoadIsSettled
<1>6. ASSUME NEW i \in DOMAIN items, Remove(i) PROVE LoadIsSettled'
  <2>1. pending = <<>> /\ open /\ ready
    BY SMTT(40), <1>6, EventIsSettled DEF Remove, Event, LoadIsSettled, TypeOK
  <2> QED
    BY <1>6, <2>1 DEF Remove, LoadIsSettled
<1>7. ASSUME EmptyCart, Quiet, open' = open, ready' = ready, ~open => UNCHANGED screen
      PROVE  open => LoadIsSettled'
  <2> SUFFICES ASSUME open PROVE LoadIsSettled'
    OBVIOUS
  <2>1. pending' = Append(pending, "save") /\ items' = <<>> /\ rows' = <<>>
    BY <1>7 DEF EmptyCart
  <2>2. CASE pending = <<>>
    <3>1. \A k \in DOMAIN pending' : pending'[k] # "load"
      BY <2>1, <2>2
    <3>2. queries = {} => queries' = {}
      BY <1>7 DEF EmptyCart, Shift
    <3> QED
      BY <1>7, <2>1, <3>1, <3>2 DEF LoadIsSettled
  <2>3. CASE pending # <<>>
    <3>1. queries = {} /\ items = <<>> /\ rows = <<>>
      BY <1>7, <2>3, EventIsSettled
    <3>2. queries' = {}
      BY <1>7, <3>1 DEF EmptyCart, Shift
    <3>3. \A k \in DOMAIN pending' : pending'[k] = "load" => k \in DOMAIN pending /\ pending[k] = "load"
      BY <1>0, <2>1
    <3>4. \A k \in DOMAIN pending' : pending'[k] = "load" => k = 1 \/ (k = 2 /\ pending'[1] = "save")
      BY <1>0, <2>1, <3>3 DEF LoadIsSettled
    <3> QED
      BY <1>7, <2>1, <3>2, <3>4 DEF LoadIsSettled
  <2> QED
    BY <2>2, <2>3
<1>8. CASE Clear
  BY <1>7, <1>8 DEF Clear, Event
<1>9. CASE RecreateRows
  <2>1. rows = <<>> /\ items = <<>> => rows' = <<>>
    BY <1>9 DEF RecreateRows
  <2> QED
    BY <1>9, <2>1 DEF RecreateRows, LoadIsSettled
<1>10. CASE OrderRefused
  BY <1>10 DEF OrderRefused, CreateMessangeSend, LoadIsSettled
<1>11. CASE OrderSent
  <2>1. \A k \in DOMAIN pending' : pending'[k] = "load" => k \in DOMAIN pending /\ pending[k] = "load"
    BY <1>0, <1>11 DEF OrderSent, CreateMessangeSend
  <2>2. pending = <<>> => \A k \in DOMAIN pending' : pending'[k] # "load"
    BY <1>0, <1>11 DEF OrderSent, CreateMessangeSend
  <2>3. \A k \in DOMAIN pending : pending'[k] = pending[k]
    BY <1>0, <1>11 DEF OrderSent, CreateMessangeSend
  <2> QED
    BY <1>0, <1>11, <2>1, <2>2, <2>3 DEF OrderSent, CreateMessangeSend, Event, LoadIsSettled
<1>12. ASSUME NEW b \in BOOLEAN, SetDelivery(b) PROVE LoadIsSettled'
  BY <1>12 DEF SetDelivery, LoadIsSettled
<1>13. ASSUME NEW r \in Rounds, RunLoad(r) PROVE LoadIsSettled'
  <2>1. \A k \in DOMAIN pending' : pending'[k] # "load"
    BY <1>0, <1>13 DEF RunLoad, Run, LoadIsSettled
  <2>2. open /\ ready
    BY <1>0, <1>13 DEF RunLoad, Run, LoadIsSettled
  <2> QED
    BY <1>13, <2>1, <2>2 DEF RunLoad, LoadIsSettled
<1>14. CASE RunSave
  <2>1. open /\ ready /\ prefs'.data = items
    BY <1>0, <1>14 DEF RunSave, Run, SetString, LoadIsSettled, TypeOK
  <2>2. \A k \in DOMAIN pending' : pending'[k] = pending[k + 1] /\ k + 1 \in DOMAIN pending
    BY <1>0, <1>14 DEF RunSave, Run
  <2>3. pending[1] = "save"
    BY <1>0, <1>14 DEF RunSave, Run
  <2>4. \A k \in DOMAIN pending' : pending'[k] = "load" => k = 1
    BY <1>0, <1>14, <2>2, <2>3 DEF RunSave, Run, LoadIsSettled
  <2> QED
    BY <1>14, <2>1, <2>4 DEF RunSave, LoadIsSettled
<1>15. CASE RunSaveInRepeat
  <2>1. open /\ ready
    BY <1>0, <1>15 DEF RunSaveInRepeat, Run, LoadIsSettled
  <2>2. \A k \in DOMAIN pending' : pending'[k] # "load"
    BY <1>0, <1>15 DEF RunSaveInRepeat, Run, LoadIsSettled
  <2> QED
    BY <1>15, <2>1, <2>2 DEF RunSaveInRepeat, LoadIsSettled
<1>16. CASE PrefsReady
  BY <1>16 DEF PrefsReady, LoadIsSettled
<1>17. ASSUME NEW q \in queries, Found(q) \/ NotFound(q) \/ Matched(q) \/ QueryFails(q) PROVE LoadIsSettled'
  <2>1. pending = <<>> /\ open /\ ready
    BY <1>17, EventIsSettled DEF Found, NotFound, Matched, QueryFails, Event, LoadIsSettled, TypeOK
  <2>2. CASE pending' = pending
    <3>1. open' = open /\ ready' = ready
      BY <1>17 DEF Found, NotFound, Matched, QueryFails
    <3> QED
      BY <2>1, <2>2, <3>1 DEF LoadIsSettled
  <2>3. CASE pending' = pending \o <<"save", "load">>
    <3>1. pending' = <<"save", "load">>
      BY <2>1, <2>3
    <3>2. open' = open /\ ready' = ready
      BY <1>17 DEF Found, NotFound, Matched, QueryFails
    <3> QED
      BY <2>1, <3>1, <3>2 DEF LoadIsSettled
  <2> QED
    BY <1>17, <2>2, <2>3 DEF Found, NotFound, Matched, QueryFails
<1>20. ASSUME NEW w \in {diskQ[i] : i \in DOMAIN diskQ}, DiskWrite(w) PROVE LoadIsSettled'
  BY <1>20 DEF DiskWrite, LoadIsSettled
<1>21. ASSUME NEW w \in {diskQ[i] : i \in DOMAIN diskQ}, RepeatSaved(w) PROVE LoadIsSettled'
  BY <1>7, <1>21 DEF RepeatSaved, Acknowledge
<1>22. ASSUME NEW w \in {diskQ[i] : i \in DOMAIN diskQ}, RepeatSavedLate(w) PROVE LoadIsSettled'
  BY <1>0, <1>22, EventIsSettled DEF RepeatSavedLate, Acknowledge, LoadIsSettled
<1>23. ASSUME NEW p \in Promotions, Withdraw(p) \/ Publish(p) PROVE LoadIsSettled'
  BY <1>23 DEF Withdraw, Publish, LoadIsSettled
<1>24. CASE Kill
  BY <1>24 DEF Kill, Leave, LoadIsSettled
<1>25. CASE UNCHANGED vars
  BY <1>25 DEF LoadIsSettled
<1>26. ASSUME NEW i \in DOMAIN items, AddUnit(i) \/ SubUnit(i) PROVE LoadIsSettled'
  BY <1>4, <1>26 DEF AddUnit, SubUnit
<1> QED
  BY <1>1, <1>2, <1>3, <1>6, <1>8, <1>9, <1>10, <1>11, <1>12, <1>13, <1>14,
     <1>15, <1>16, <1>17, <1>20, <1>21, <1>22, <1>23, <1>24, <1>25, <1>26
     DEF Next, User, Microtask, Answer, Platform, Restaurant
-----------------------------------------------------------------------------
(* Answers *)

\* Between events nothing waits to reload the list while a query is in flight.
LEMMA StepAim == TypeOK /\ LoadIsSettled /\ AnswersAimRight /\ [Next]_vars => AnswersAimRight'
<1> SUFFICES ASSUME TypeOK, LoadIsSettled, AnswersAimRight, [Next]_vars PROVE AnswersAimRight'
  OBVIOUS
<1> USE DEF storage, screen, history, vars
<1>1. ASSUME Shift PROVE AnswersAimRight'
  <2>1. \A q \in Query : [q EXCEPT !.stale = TRUE].stale
    BY DEF Query
  <2>2. \A q \in queries' : q.stale
    BY <1>1, <2>1 DEF Shift, TypeOK
  <2> QED
    BY <2>2 DEF AnswersAimRight
<1>2. ASSUME UNCHANGED <<items, queries>> PROVE AnswersAimRight'
  BY <1>2 DEF AnswersAimRight
<1>3. ASSUME queries' = {} PROVE AnswersAimRight'
  BY <1>3 DEF AnswersAimRight
<1>4. ASSUME queries' \subseteq queries, DOMAIN items' = DOMAIN items,
             \A i \in DOMAIN items : items'[i].id = items[i].id /\ items'[i].type = items[i].type
      PROVE  AnswersAimRight'
  BY <1>4 DEF AnswersAimRight
<1>5. ASSUME NEW i \in DOMAIN items, NEW d \in Int, SetUnits(i, d) PROVE AnswersAimRight'
  <2>1. ASSUME NEW it \in Item PROVE /\ [it EXCEPT !.units = @ + d].id = it.id
                                     /\ [it EXCEPT !.units = @ + d].type = it.type
    BY DEF Item
  <2>2. /\ DOMAIN items' = DOMAIN items
        /\ \A j \in DOMAIN items : items'[j].id = items[j].id /\ items'[j].type = items[j].type
    BY <1>5, <2>1, ItemAt DEF SetUnits, TypeOK
  <2> QED
    BY <1>4, <1>5, <2>2 DEF SetUnits
<1>6. ASSUME NEW q \in queries, Found(q) PROVE AnswersAimRight'
  <2>1. ASSUME NEW it \in Item PROVE /\ [it EXCEPT !.image = q.name].id = it.id
                                     /\ [it EXCEPT !.image = q.name].type = it.type
    BY DEF Item
  <2>2. /\ DOMAIN items' = DOMAIN items
        /\ \A j \in DOMAIN items : items'[j].id = items[j].id /\ items'[j].type = items[j].type
    BY <1>6, <2>1, ItemAt DEF Found, TypeOK
  <2> QED
    BY <1>4, <1>6, <2>2 DEF Found
<1>7. ASSUME NEW q \in queries, NotFound(q) PROVE AnswersAimRight'
  <2>1. ASSUME NEW it \in Item PROVE /\ [it EXCEPT !.title = Unavailable, !.valueUn = 0].id = it.id
                                     /\ [it EXCEPT !.title = Unavailable, !.valueUn = 0].type = it.type
    BY DEF Item
  <2>2. /\ DOMAIN items' = DOMAIN items
        /\ \A j \in DOMAIN items : items'[j].id = items[j].id /\ items'[j].type = items[j].type
    <3>1. CASE q.index \in DOMAIN items
      <4>1. items' = [items EXCEPT ![q.index] = [items[q.index] EXCEPT !.title = Unavailable, !.valueUn = 0]]
        BY <1>7, <3>1 DEF NotFound, MarkUnavailable
      <4> QED
        BY <2>1, <3>1, <4>1, ItemAt DEF TypeOK
    <3>2. CASE q.index \notin DOMAIN items
      BY <1>7, <3>2 DEF NotFound
    <3> QED
      BY <3>1, <3>2
  <2> QED
    BY <1>4, <1>7, <2>2 DEF NotFound
<1>8. ASSUME NEW r \in Rounds, RunLoad(r) PROVE AnswersAimRight'
  <2>1. queries = {} \/ prefs.data = items
    BY SMTT(30), <1>8 DEF RunLoad, Run, LoadIsSettled, TypeOK
  <2>2. ASSUME NEW q \in queries', ~q.stale, q \notin queries
        PROVE  q.index \in DOMAIN items' /\ items'[q.index].id = q.id /\ items'[q.index].type = "promotion"
    BY <1>8, <2>2 DEF RunLoad, Ask
  <2>3. CASE queries = {}
    BY <2>2, <2>3 DEF AnswersAimRight
  <2>4. CASE prefs.data = items
    <3>1. items' = items
      BY <1>8, <2>4 DEF RunLoad
    <3> QED
      BY <2>2, <3>1 DEF AnswersAimRight
  <2> QED
    BY <2>1, <2>3, <2>4
<1>9. CASE User
  <2>1. ASSUME NEW p \in Products, NEW u \in 1 .. MaxUnits, AddProduct(p, u) PROVE AnswersAimRight'
    BY <1>2, <2>1 DEF AddProduct
  <2>2. CASE OpenCheckout \/ Back
    BY <1>3, <2>2 DEF OpenCheckout, Back, Leave
  <2>3. ASSUME NEW i \in DOMAIN items, AddUnit(i) \/ SubUnit(i) PROVE AnswersAimRight'
    BY <1>5, <2>3 DEF AddUnit, SubUnit
  <2>4. ASSUME NEW i \in DOMAIN items, Remove(i) PROVE AnswersAimRight'
    BY <1>1, <2>4 DEF Remove
  <2>5. CASE Clear
    BY <1>1, <2>5 DEF Clear, EmptyCart
  <2>6. CASE RecreateRows \/ OrderRefused \/ OrderSent
    BY <1>2, <2>6 DEF RecreateRows, OrderRefused, OrderSent, CreateMessangeSend
  <2>7. ASSUME NEW b \in BOOLEAN, SetDelivery(b) PROVE AnswersAimRight'
    BY <1>2, <2>7 DEF SetDelivery
  <2> QED
    BY <1>9, <2>1, <2>2, <2>3, <2>4, <2>5, <2>6, <2>7 DEF User
<1>10. CASE RunSave \/ RunSaveInRepeat \/ PrefsReady
  BY <1>2, <1>10 DEF RunSave, RunSaveInRepeat, PrefsReady
<1>11. ASSUME NEW q \in queries, Matched(q) \/ QueryFails(q) PROVE AnswersAimRight'
  <2>1. LET f == [q EXCEPT !.found = TRUE]
        IN f.stale = q.stale /\ f.index = q.index /\ f.id = q.id
    BY DEF TypeOK, Query
  <2>2. CASE Matched(q)
    BY <2>1, <2>2 DEF Matched, AnswersAimRight
  <2>3. CASE QueryFails(q)
    BY <1>4, <2>3 DEF QueryFails
  <2> QED
    BY <1>11, <2>2, <2>3
<1>12. ASSUME NEW w \in {diskQ[i] : i \in DOMAIN diskQ},
              DiskWrite(w) \/ RepeatSaved(w) \/ RepeatSavedLate(w) PROVE AnswersAimRight'
  BY <1>1, <1>2, <1>12 DEF DiskWrite, RepeatSaved, RepeatSavedLate, EmptyCart
<1>13. ASSUME NEW p \in Promotions, Withdraw(p) \/ Publish(p) PROVE AnswersAimRight'
  BY <1>2, <1>13 DEF Withdraw, Publish
<1>14. CASE Kill
  BY <1>3, <1>14 DEF Kill, Leave
<1>15. CASE UNCHANGED vars
  BY <1>2, <1>15
<1> QED
  BY <1>6, <1>7, <1>8, <1>9, <1>10, <1>11, <1>12, <1>13, <1>14, <1>15
     DEF Next, Microtask, Answer, Platform, Restaurant

\* filterData's answer, whenever it arrives, is about the promotion that stands
\* at its position, unless the list was shortened after the question.
THEOREM AnswersStayAimed == Spec => []AnswersAimRight
<1>1. Init => LoadIsSettled /\ AnswersAimRight
  BY DEF Init, LoadIsSettled, AnswersAimRight
<1> QED
  BY <1>1, InitTypeOK, StepTypeOK, StepLoadIsSettled, StepAim, PTL DEF Spec

-----------------------------------------------------------------------------
(* The total *)

\* Without items and delivery there is nothing to pay.
LEMMA EmptyTotal == Total(<<>>, FALSE) = 0
<1> DEFINE none == [i \in DOMAIN <<>> |-> <<>>[i].valueUn * <<>>[i].units]
           D == DOMAIN none
           F(g) == [s \in SUBSET D |-> IF s = {} THEN 0
                      ELSE LET x == CHOOSE x \in s : TRUE IN none[x] + g[s \ {x}]]
<1>1. D = {}
  OBVIOUS
<1>2. \E g : g = F(g)
  <2>1. [s \in SUBSET D |-> 0] = F([s \in SUBSET D |-> 0])
    BY <1>1
  <2> QED
    BY <2>1
<1>3. SumFunction(none) = 0
  BY <1>1, <1>2 DEF SumFunction, SumFunctionOnSet, FoldFunctionOnSet, MapThenFoldSet
<1> QED
  BY <1>3 DEF Total, Amount

\* The value of a list depends on prices and units only.
LEMMA SameAmount ==
  ASSUME NEW l1, NEW l2, DOMAIN l1 = DOMAIN l2,
         \A i \in DOMAIN l1 : l1[i].valueUn = l2[i].valueUn /\ l1[i].units = l2[i].units
  PROVE  Amount(l1) = Amount(l2)
<1>1. [i \in DOMAIN l1 |-> l1[i].valueUn * l1[i].units] = [i \in DOMAIN l2 |-> l2[i].valueUn * l2[i].units]
  OBVIOUS
<1> QED
  BY <1>1 DEF Amount

LEMMA StepTotal == TypeOK /\ LoadIsSettled /\ TotalIsComing /\ [Next]_vars => TotalIsComing'
<1> SUFFICES ASSUME TypeOK, LoadIsSettled, TotalIsComing, [Next]_vars PROVE TotalIsComing'
  OBVIOUS
<1> USE DEF storage, screen, history, vars
<1>0. pending \in Seq(Task)
  BY DEF TypeOK
<1>1. ASSUME total' = Total(items', delivery') PROVE TotalIsComing'
  BY <1>1 DEF TotalIsComing
<1>2. ASSUME UNCHANGED <<open, ready, pending, items, delivery, total>> PROVE TotalIsComing'
  BY <1>2 DEF TotalIsComing
<1>3. ASSUME ~open' PROVE TotalIsComing'
  BY <1>3 DEF TotalIsComing
<1>4. CASE User
  <2>1. ASSUME NEW p \in Products, NEW u \in 1 .. MaxUnits, AddProduct(p, u) PROVE TotalIsComing'
    BY <1>3, <2>1 DEF AddProduct
  <2>2. CASE OpenCheckout
    BY <1>1, <2>2, EmptyTotal DEF OpenCheckout
  <2>3. CASE Back
    BY <1>3, <2>3 DEF Back, Leave
  <2>4. ASSUME NEW i \in DOMAIN items, AddUnit(i) \/ SubUnit(i) PROVE TotalIsComing'
    BY <1>1, <2>4 DEF AddUnit, SubUnit, SetUnits
  <2>5. ASSUME NEW i \in DOMAIN items, Remove(i) PROVE TotalIsComing'
    BY <1>1, <2>5 DEF Remove
  <2>6. CASE Clear
    BY <1>1, <2>6 DEF Clear, EmptyCart
  <2>7. CASE RecreateRows
    BY <1>2, <2>7 DEF RecreateRows
  <2>8. CASE OrderRefused \/ OrderSent
    BY <1>1, <2>8 DEF OrderRefused, OrderSent, CreateMessangeSend
  <2>9. ASSUME NEW b \in BOOLEAN, SetDelivery(b) PROVE TotalIsComing'
    BY <1>1, <2>9 DEF SetDelivery
  <2> QED
    BY <1>4, <2>1, <2>2, <2>3, <2>4, <2>5, <2>6, <2>7, <2>8, <2>9 DEF User
<1>5. ASSUME NEW r \in Rounds, RunLoad(r) PROVE TotalIsComing'
  BY <1>1, <1>5 DEF RunLoad
<1>6. CASE RunSave \/ RunSaveInRepeat
  <2>1. \A k \in DOMAIN pending' : pending'[k] = pending[k + 1] /\ k + 1 \in DOMAIN pending
    BY <1>0, <1>6 DEF RunSave, RunSaveInRepeat, Run
  <2>2. \A k \in DOMAIN pending : k # 1 => k - 1 \in DOMAIN pending' /\ pending'[k - 1] = pending[k]
    BY <1>0, <1>6 DEF RunSave, RunSaveInRepeat, Run
  <2>3. pending[1] # "load"
    BY <1>0, <1>6 DEF RunSave, RunSaveInRepeat, Run
  <2>4. (\A k \in DOMAIN pending' : pending'[k] # "load") => (\A k \in DOMAIN pending : pending[k] # "load")
    BY <2>2, <2>3
  <2> QED
    BY <1>6, <2>4 DEF RunSave, RunSaveInRepeat, TotalIsComing
<1>7. CASE PrefsReady
  BY <1>7 DEF PrefsReady, TotalIsComing
<1>8. ASSUME NEW q \in queries, Found(q) PROVE TotalIsComing'
  <2>1. Amount(items') = Amount(items)
    <3>1. CASE q.index \in DOMAIN items
      <4>1. DOMAIN items' = DOMAIN items
        BY <1>8, <3>1 DEF Found, TypeOK
      <4>2. ASSUME NEW it \in Item PROVE /\ [it EXCEPT !.image = q.name].valueUn = it.valueUn
                                         /\ [it EXCEPT !.image = q.name].units = it.units
        BY DEF Item
      <4>3. \A i \in DOMAIN items : items'[i].valueUn = items[i].valueUn /\ items'[i].units = items[i].units
        BY <1>8, <3>1, <4>2, ItemAt DEF Found, TypeOK
      <4> QED
        BY <4>1, <4>3, SameAmount
    <3>2. CASE q.index \notin DOMAIN items
      BY <1>8, <3>2 DEF Found
    <3> QED
      BY <3>1, <3>2
  <2> QED
    BY <1>8, <2>1 DEF Found, TotalIsComing, Total
<1>9. ASSUME NEW q \in queries, NotFound(q) PROVE TotalIsComing'
  <2>1. pending = <<>> /\ open /\ ready
    BY <1>9, EventIsSettled DEF NotFound, Event, LoadIsSettled, TypeOK
  <2>2. CASE q.index \in DOMAIN items
    <3>1. pending' = <<"save", "load">> /\ ready'
      BY <1>9, <2>1, <2>2 DEF NotFound
    <3> QED
      BY <3>1 DEF TotalIsComing
  <2>3. CASE q.index \notin DOMAIN items
    BY <1>2, <1>9, <2>3 DEF NotFound
  <2> QED
    BY <2>2, <2>3
<1>10. ASSUME NEW q \in queries, Matched(q) \/ QueryFails(q) PROVE TotalIsComing'
  BY <1>2, <1>10 DEF Matched, QueryFails
<1>11. ASSUME NEW w \in {diskQ[i] : i \in DOMAIN diskQ},
              DiskWrite(w) \/ RepeatSaved(w) \/ RepeatSavedLate(w) PROVE TotalIsComing'
  BY <1>1, <1>2, <1>11 DEF DiskWrite, RepeatSaved, RepeatSavedLate, EmptyCart
<1>12. ASSUME NEW p \in Promotions, Withdraw(p) \/ Publish(p) PROVE TotalIsComing'
  BY <1>2, <1>12 DEF Withdraw, Publish
<1>13. CASE Kill
  BY <1>3, <1>13 DEF Kill, Leave
<1>14. CASE UNCHANGED vars
  BY <1>2, <1>14
<1> QED
  BY <1>4, <1>5, <1>6, <1>7, <1>8, <1>9, <1>10, <1>11, <1>12, <1>13, <1>14
     DEF Next, Microtask, Answer, Platform, Restaurant

\* Whenever a frame can be drawn, the label shows the fee of the chosen mode of
\* delivery plus the value of the list.
THEOREM TotalIsCurrent == Spec => []TotalAgrees
<1>1. Init => LoadIsSettled /\ TotalIsComing
  BY DEF Init, LoadIsSettled, TotalIsComing
<1>2. TypeOK /\ TotalIsComing => TotalAgrees
  BY DEF TotalIsComing, TotalAgrees, Quiet, TypeOK
<1> QED
  BY <1>1, <1>2, InitTypeOK, StepTypeOK, StepLoadIsSettled, StepTotal, PTL DEF Spec

-----------------------------------------------------------------------------
(* Rows and the items under them *)

\* Two lists of the same products in the same order.
SameProducts(l1, l2) ==
  /\ DOMAIN l1 = DOMAIN l2
  /\ \A i \in DOMAIN l1 : l1[i].id = l2[i].id /\ l1[i].type = l2[i].type
SameUnits(l1, l2) == \A i \in DOMAIN l1 : l1[i].units = l2[i].units

\* "+" and "-" change one number on the screen and nothing else.
LEMMA SetUnitsEffect ==
  ASSUME TypeOK, NEW i \in DOMAIN items, NEW d \in Int, SetUnits(i, d)
  PROVE  /\ SameProducts(items', items)
         /\ Unpriced(items') = Unpriced(items)
         /\ \A j \in DOMAIN items : items'[j].units = IF j = i THEN items[j].units + d ELSE items[j].units
<1>1. ASSUME NEW it \in Item
      PROVE  /\ [it EXCEPT !.units = @ + d].id = it.id
             /\ [it EXCEPT !.units = @ + d].type = it.type
             /\ [it EXCEPT !.units = @ + d].title = it.title
             /\ [it EXCEPT !.units = @ + d].valueUn = it.valueUn
             /\ [it EXCEPT !.units = @ + d].units = it.units + d
  BY DEF Item
<1>2. /\ DOMAIN items' = DOMAIN items
      /\ \A j \in DOMAIN items : items'[j] = IF j = i THEN [items[i] EXCEPT !.units = @ + d] ELSE items[j]
  BY DEF SetUnits, TypeOK
<1>3. items[i] \in Item
  BY DEF TypeOK
<1>4. \A j \in DOMAIN items :
        /\ items'[j].id = items[j].id /\ items'[j].type = items[j].type
        /\ items'[j].title = items[j].title /\ items'[j].valueUn = items[j].valueUn
        /\ items'[j].units = IF j = i THEN items[j].units + d ELSE items[j].units
  <2>1. ASSUME NEW j \in DOMAIN items, j # i PROVE items'[j] = items[j]
    BY <1>2, <2>1
  <2>2. items'[i] = [items[i] EXCEPT !.units = @ + d]
    BY <1>2
  <2>3. /\ items'[i].id = items[i].id /\ items'[i].type = items[i].type
        /\ items'[i].title = items[i].title /\ items'[i].valueUn = items[i].valueUn
        /\ items'[i].units = items[i].units + d
    BY <1>1, <1>3, <2>2
  <2> QED
    BY <2>1, <2>3
<1> QED
  BY <1>2, <1>4 DEF SameProducts, Unpriced

\* The same of the row, which counts for itself.
LEMMA SetUnitsRows ==
  ASSUME TypeOK, NEW i \in DOMAIN items, NEW d \in Int, SetUnits(i, d), Len(rows) = Len(items)
  PROVE  /\ Len(rows') = Len(rows) /\ DOMAIN rows' = DOMAIN rows
         /\ \A j \in DOMAIN items : /\ rows'[j].owner = rows[j].owner /\ rows'[j].type = rows[j].type
                                    /\ rows'[j].units = IF j = i THEN rows[j].units + d ELSE rows[j].units
<1>1. ASSUME NEW row \in Row
      PROVE  /\ [row EXCEPT !.units = @ + d].owner = row.owner
             /\ [row EXCEPT !.units = @ + d].type = row.type
             /\ [row EXCEPT !.units = @ + d].units = row.units + d
  BY DEF Row
<1>2. DOMAIN rows = DOMAIN items
  BY DEF TypeOK
<1>3. /\ Len(rows') = Len(rows) /\ DOMAIN rows' = DOMAIN rows
      /\ \A j \in DOMAIN items : rows'[j] = IF j = i THEN [rows[i] EXCEPT !.units = @ + d] ELSE rows[j]
  BY <1>2 DEF SetUnits, TypeOK
<1>4. rows[i] \in Row
  BY <1>2 DEF TypeOK
<1> QED
  BY ZenonT(40), <1>1, <1>3, <1>4

\* An answer changes a picture ...
LEMMA FoundEffect ==
  ASSUME TypeOK, NEW q \in queries, Found(q)
  PROVE  SameProducts(items', items) /\ SameUnits(items', items) /\ Unpriced(items') = Unpriced(items)
<1>1. CASE q.index \in DOMAIN items
  <2>1. ASSUME NEW it \in Item
        PROVE  /\ [it EXCEPT !.image = q.name].id = it.id
               /\ [it EXCEPT !.image = q.name].type = it.type
               /\ [it EXCEPT !.image = q.name].title = it.title
               /\ [it EXCEPT !.image = q.name].valueUn = it.valueUn
               /\ [it EXCEPT !.image = q.name].units = it.units
    BY DEF Item
  <2>2. /\ DOMAIN items' = DOMAIN items
        /\ \A j \in DOMAIN items : items'[j] = IF j = q.index THEN [items[j] EXCEPT !.image = q.name] ELSE items[j]
    BY <1>1 DEF Found, TypeOK
  <2>3. \A j \in DOMAIN items :
          /\ items'[j].id = items[j].id /\ items'[j].type = items[j].type
          /\ items'[j].title = items[j].title /\ items'[j].valueUn = items[j].valueUn
          /\ items'[j].units = items[j].units
    <3>1. ASSUME NEW j \in DOMAIN items, j # q.index PROVE items'[j] = items[j]
      BY <2>2, <3>1
    <3>2. items'[q.index] = [items[q.index] EXCEPT !.image = q.name] /\ items[q.index] \in Item
      BY <1>1, <2>2, ItemAt DEF TypeOK
    <3>3. /\ items'[q.index].id = items[q.index].id /\ items'[q.index].type = items[q.index].type
          /\ items'[q.index].title = items[q.index].title /\ items'[q.index].valueUn = items[q.index].valueUn
          /\ items'[q.index].units = items[q.index].units
      BY <2>1, <3>2
    <3> QED
      BY <3>1, <3>3
  <2> QED
    BY <2>2, <2>3 DEF SameProducts, SameUnits, Unpriced
<1>2. CASE q.index \notin DOMAIN items
  BY <1>2 DEF Found, SameProducts, SameUnits
<1> QED
  BY <1>1, <1>2

\* ... or the title and the price.
LEMMA NotFoundEffect ==
  ASSUME TypeOK, NEW q \in queries, NotFound(q)
  PROVE  SameProducts(items', items) /\ SameUnits(items', items)
<1>1. CASE q.index \in DOMAIN items
  <2>1. ASSUME NEW it \in Item
        PROVE  /\ [it EXCEPT !.title = Unavailable, !.valueUn = 0].id = it.id
               /\ [it EXCEPT !.title = Unavailable, !.valueUn = 0].type = it.type
               /\ [it EXCEPT !.title = Unavailable, !.valueUn = 0].units = it.units
    BY DEF Item
  <2>2. items' = [items EXCEPT ![q.index] = [items[q.index] EXCEPT !.title = Unavailable, !.valueUn = 0]]
    BY <1>1 DEF NotFound, MarkUnavailable
  <2>3. DOMAIN items' = DOMAIN items
    BY <2>2 DEF TypeOK
  <2>4. \A j \in DOMAIN items : /\ items'[j].id = items[j].id /\ items'[j].type = items[j].type
                                /\ items'[j].units = items[j].units
    BY <1>1, <2>1, <2>2, ItemAt DEF TypeOK
  <2> QED
    BY <2>3, <2>4 DEF SameProducts, SameUnits
<1>2. CASE q.index \notin DOMAIN items
  BY <1>2 DEF NotFound, SameProducts, SameUnits
<1> QED
  BY <1>1, <1>2

\* The lists a later load() or start may read.
SavedLists ==
  {prefs.data, disk.data} \cup {diskQ[k].val : k \in {j \in DOMAIN diskQ : diskQ[j].key = "data"}}

LEMMA AppendAt ==
  ASSUME NEW T, NEW s \in Seq(T), NEW e \in T
  PROVE  /\ Append(s, e) \in Seq(T) /\ Len(Append(s, e)) = Len(s) + 1
         /\ DOMAIN Append(s, e) = DOMAIN s \cup {Len(s) + 1}
         /\ Append(s, e)[Len(s) + 1] = e
         /\ \A k \in DOMAIN s : Append(s, e)[k] = s[k]
  OBVIOUS

LEMMA TailAt ==
  ASSUME NEW T, NEW s \in Seq(T), s # <<>>
  PROVE  /\ Tail(s) \in Seq(T) /\ 1 \in DOMAIN s /\ Head(s) = s[1]
         /\ Len(Tail(s)) = Len(s) - 1 /\ DOMAIN Tail(s) = 1 .. Len(s) - 1
         /\ \A k \in DOMAIN Tail(s) : k + 1 \in DOMAIN s /\ Tail(s)[k] = s[k + 1]
  OBVIOUS

\* setString of the cart adds the list it encodes, of the repeat key none.
LEMMA SetStringSaves ==
  ASSUME TypeOK, NEW key \in {"data", "repeat"}, NEW val \in Seq(Item), SetString(key, val), disk' = disk
  PROVE  /\ key = "data" => SavedLists' \subseteq SavedLists \cup {val}
         /\ key = "repeat" => SavedLists' \subseteq SavedLists
<1> DEFINE w == [key |-> key, val |-> val, live |-> TRUE]
<1>1. w \in Write /\ w.key = key /\ w.val = val
  BY DEF Write
<1>2. diskQ' = Append(diskQ, w)
  BY DEF SetString
<1> HIDE DEF w
<1>3. /\ DOMAIN diskQ' = DOMAIN diskQ \cup {Len(diskQ) + 1} /\ diskQ'[Len(diskQ) + 1] = w
      /\ \A k \in DOMAIN diskQ : diskQ'[k] = diskQ[k]
  <2>1. diskQ \in Seq(Write)
    BY DEF TypeOK
  <2> QED
    BY <1>1, <1>2, <2>1, AppendAt
<1>4. prefs'.data = IF key = "data" THEN val ELSE prefs.data
  BY DEF SetString, TypeOK
<1>5. ASSUME NEW k \in DOMAIN diskQ', diskQ'[k].key = "data"
      PROVE  \/ k \in DOMAIN diskQ /\ diskQ[k].key = "data" /\ diskQ'[k].val = diskQ[k].val
             \/ key = "data" /\ diskQ'[k].val = val
  <2>1. CASE k \in DOMAIN diskQ
    <3>1. diskQ'[k] = diskQ[k]
      BY <1>3, <2>1
    <3> QED
      BY <1>5, <2>1, <3>1
  <2>2. CASE k = Len(diskQ) + 1
    <3>1. diskQ'[k] = w
      BY <1>3, <2>2
    <3>2. w.key = "data"
      BY <1>5, <3>1
    <3> QED
      BY <1>1, <3>1, <3>2
  <2>3. k \in DOMAIN diskQ \/ k = Len(diskQ) + 1
    <3>1. DOMAIN diskQ' = DOMAIN diskQ \cup {Len(diskQ) + 1}
      BY <1>3
    <3> QED
      BY <1>5, <3>1
  <2> QED
    BY <2>1, <2>2, <2>3
<1> QED
  BY <1>4, <1>5 DEF SavedLists

\* An acknowledged write only moves a list from the queue to the disk.
LEMMA AcknowledgeSaves ==
  ASSUME TypeOK, NEW w, Acknowledge(w), diskQ' = Tail(diskQ), prefs' = prefs
  PROVE  SavedLists' \subseteq SavedLists
<1>1. diskQ # <<>> /\ diskQ \in Seq(Write)
  BY DEF Acknowledge, TypeOK
<1>2. /\ 1 \in DOMAIN diskQ /\ w = diskQ[1]
      /\ \A k \in DOMAIN diskQ' : k + 1 \in DOMAIN diskQ /\ diskQ'[k] = diskQ[k + 1]
  BY <1>1, TailAt DEF Acknowledge
<1>3. disk'.data = disk.data \/ (w.key = "data" /\ disk'.data = w.val)
  BY DEF Acknowledge, TypeOK
<1> QED
  BY <1>2, <1>3 DEF SavedLists

\* Only a product screen writes a list that was not on the checkout screen.
LEMMA SavedListsStep ==
  ASSUME TypeOK, [Next]_vars
  PROVE  \/ SavedLists' \subseteq SavedLists \cup {items, <<>>}
         \/ \E p \in Products, u \in 1 .. MaxUnits : AddProduct(p, u)
<1> USE DEF storage, screen, history, vars
<1>1. ASSUME UNCHANGED storage PROVE SavedLists' = SavedLists
  BY <1>1 DEF SavedLists
<1>2. CASE Back
  <2>1. DOMAIN diskQ' = DOMAIN diskQ
    BY <1>2 DEF Back, TypeOK
  <2>2. ASSUME NEW w \in Write, NEW b \in BOOLEAN
        PROVE  [w EXCEPT !.live = b].key = w.key /\ [w EXCEPT !.live = b].val = w.val
    BY DEF Write
  <2>3. \A k \in DOMAIN diskQ : diskQ[k] \in Write
    BY DEF TypeOK
  <2>4. \A k \in DOMAIN diskQ : (diskQ[k].key = "data") \in BOOLEAN
    OBVIOUS
  <2>5. \A k \in DOMAIN diskQ : diskQ'[k] = [diskQ[k] EXCEPT !.live = (diskQ[k].key = "data")]
    BY <1>2 DEF Back, TypeOK
  <2>6. \A k \in DOMAIN diskQ : diskQ'[k].key = diskQ[k].key /\ diskQ'[k].val = diskQ[k].val
    BY <2>2, <2>3, <2>4, <2>5
  <2> QED
    BY <1>2, <2>1, <2>6 DEF Back, SavedLists
<1>3. CASE RunSave
  BY <1>3, SetStringSaves DEF RunSave, TypeOK
<1>4. CASE RunSaveInRepeat
  BY <1>4, SetStringSaves DEF RunSaveInRepeat, TypeOK
<1>5. ASSUME NEW w \in {diskQ[i] : i \in DOMAIN diskQ}, DiskWrite(w) \/ RepeatSaved(w)
      PROVE  SavedLists' \subseteq SavedLists
  BY <1>5, AcknowledgeSaves DEF DiskWrite, RepeatSaved
<1>6. ASSUME NEW w \in {diskQ[i] : i \in DOMAIN diskQ}, RepeatSavedLate(w)
      PROVE  SavedLists' \subseteq SavedLists \cup {<<>>}
  <2> DEFINE e == [key |-> "data", val |-> <<>>, live |-> TRUE]
  <2>1. e \in Write /\ e.val = <<>>
    BY DEF Write
  <2>2. diskQ' = Append(Tail(diskQ), e)
    BY <1>6 DEF RepeatSavedLate
  <2> HIDE DEF e
  <2>3. diskQ # <<>> /\ diskQ \in Seq(Write)
    BY <1>6 DEF RepeatSavedLate, Acknowledge, TypeOK
  <2>4. /\ Tail(diskQ) \in Seq(Write)
        /\ \A k \in DOMAIN Tail(diskQ) : k + 1 \in DOMAIN diskQ /\ Tail(diskQ)[k] = diskQ[k + 1]
    BY <2>3, TailAt
  <2>5. \A k \in DOMAIN diskQ' : (k \in DOMAIN Tail(diskQ) /\ diskQ'[k] = Tail(diskQ)[k]) \/ diskQ'[k] = e
    BY <2>1, <2>2, <2>4, AppendAt
  <2>6. \A k \in DOMAIN diskQ' : diskQ'[k] = e \/ \E j \in DOMAIN diskQ : diskQ'[k] = diskQ[j]
    BY <2>4, <2>5
  <2>7. disk'.data = disk.data /\ prefs'.data = <<>>
    BY <1>6 DEF RepeatSavedLate, Acknowledge, TypeOK
  <2> QED
    BY <2>1, <2>6, <2>7 DEF SavedLists
<1>7. CASE Kill
  BY <1>7 DEF Kill, SavedLists
<1>8. ASSUME NEW p \in Products, NEW u \in 1 .. MaxUnits, AddProduct(p, u)
      PROVE  \E p1 \in Products, u1 \in 1 .. MaxUnits : AddProduct(p1, u1)
  BY <1>8
<1>9. CASE UNCHANGED vars
  BY <1>1, <1>9
<1>10. CASE OpenCheckout \/ Clear \/ RecreateRows \/ OrderRefused \/ OrderSent
  BY <1>1, <1>10 DEF OpenCheckout, Clear, RecreateRows, OrderRefused, OrderSent
<1>11. ASSUME NEW i \in DOMAIN items, AddUnit(i) \/ SubUnit(i) \/ Remove(i)
       PROVE  SavedLists' = SavedLists
  BY <1>1, <1>11 DEF AddUnit, SubUnit, SetUnits, Remove
<1>12. ASSUME NEW b \in BOOLEAN, SetDelivery(b) PROVE SavedLists' = SavedLists
  BY <1>1, <1>12 DEF SetDelivery
<1>13. ASSUME NEW q \in queries, Found(q) \/ NotFound(q) \/ Matched(q) \/ QueryFails(q) PROVE SavedLists' = SavedLists
  BY <1>1, <1>13 DEF Found, NotFound, Matched, QueryFails
<1>14. ASSUME NEW p \in Promotions, Withdraw(p) \/ Publish(p) PROVE SavedLists' = SavedLists
  BY <1>1, <1>14 DEF Withdraw, Publish
<1>15. ASSUME NEW r \in Rounds, RunLoad(r) PROVE SavedLists' = SavedLists
  BY <1>1, <1>15 DEF RunLoad
<1>16. CASE PrefsReady
  BY <1>1, <1>16 DEF PrefsReady
<1> QED
  BY <1>2, <1>3, <1>4, <1>5, <1>6, <1>7, <1>8, <1>9, <1>10, <1>11, <1>12, <1>13, <1>14, <1>15, <1>16
     DEF Next, User, Microtask, Answer, Platform, Restaurant

LEMMA UnpricedAt ==
  ASSUME NEW l1, NEW l2, Unpriced(l1) = Unpriced(l2)
  PROVE  /\ DOMAIN l1 = DOMAIN l2
         /\ \A i \in DOMAIN l1 : l1[i].id = l2[i].id /\ l1[i].title = l2[i].title /\ l1[i].valueUn = l2[i].valueUn
<1>1. DOMAIN l1 = DOMAIN Unpriced(l1) /\ DOMAIN l2 = DOMAIN Unpriced(l2)
  BY DEF Unpriced
<1>2. \A i \in DOMAIN l1 : Unpriced(l1)[i] = [id |-> l1[i].id, title |-> l1[i].title, valueUn |-> l1[i].valueUn]
  BY DEF Unpriced
<1>3. \A i \in DOMAIN l2 : Unpriced(l2)[i] = [id |-> l2[i].id, title |-> l2[i].title, valueUn |-> l2[i].valueUn]
  BY DEF Unpriced
<1>4. ASSUME NEW i \in DOMAIN l1
      PROVE  l1[i].id = l2[i].id /\ l1[i].title = l2[i].title /\ l1[i].valueUn = l2[i].valueUn
  <2>1. [id |-> l1[i].id, title |-> l1[i].title, valueUn |-> l1[i].valueUn]
          = [id |-> l2[i].id, title |-> l2[i].title, valueUn |-> l2[i].valueUn]
    BY <1>1, <1>2, <1>3
  <2> QED
    BY <2>1
<1> QED
  BY <1>1, <1>4

\* What a step does to titles and prices on the screen: it marks some, and
\* changes nothing else.
MarksOnly(new, old) ==
  /\ DOMAIN new = DOMAIN old
  /\ \A i \in DOMAIN old :
       /\ new[i].id = old[i].id
       /\ \/ new[i].title = old[i].title /\ new[i].valueUn = old[i].valueUn
          \/ new[i].title = Unavailable /\ new[i].valueUn = 0

LEMMA NotFoundMarks ==
  ASSUME TypeOK, NEW q \in queries, NotFound(q)
  PROVE  MarksOnly(items', items)
<1>1. CASE q.index \in DOMAIN items
  <2>1. ASSUME NEW it \in Item
        PROVE  /\ [it EXCEPT !.title = Unavailable, !.valueUn = 0].id = it.id
               /\ [it EXCEPT !.title = Unavailable, !.valueUn = 0].title = Unavailable
               /\ [it EXCEPT !.title = Unavailable, !.valueUn = 0].valueUn = 0
    BY DEF Item
  <2>2. items' = [items EXCEPT ![q.index] = [items[q.index] EXCEPT !.title = Unavailable, !.valueUn = 0]]
    BY <1>1 DEF NotFound, MarkUnavailable
  <2>3. DOMAIN items' = DOMAIN items
    BY <2>2 DEF TypeOK
  <2>4. items[q.index] \in Item
    BY <1>1, ItemAt DEF TypeOK
  <2>5. /\ items'[q.index].id = items[q.index].id
        /\ items'[q.index].title = Unavailable /\ items'[q.index].valueUn = 0
    BY <1>1, <2>1, <2>2, <2>4
  <2>6. \A i \in DOMAIN items : i # q.index => items'[i] = items[i]
    BY <2>2
  <2> QED
    BY <2>3, <2>5, <2>6 DEF MarksOnly
<1>2. CASE q.index \notin DOMAIN items
  BY <1>2 DEF NotFound, MarksOnly
<1> QED
  BY <1>1, <1>2

\* What a step may do to the list on the screen.
LEMMA ListStep ==
  ASSUME TypeOK, [Next]_vars
  PROVE  \/ MarksOnly(items', items)
         \/ \E i \in DOMAIN items : items' = Without(items, i)
         \/ items' = <<>>
         \/ \E r \in Rounds : RunLoad(r)
<1> USE DEF storage, screen, history, vars
<1>1. ASSUME items' = items PROVE MarksOnly(items', items)
  BY <1>1 DEF MarksOnly
<1>2. ASSUME Unpriced(items') = Unpriced(items) PROVE MarksOnly(items', items)
  BY <1>2, UnpricedAt DEF MarksOnly
<1>3. ASSUME NEW i \in DOMAIN items, AddUnit(i) \/ SubUnit(i) PROVE MarksOnly(items', items)
  BY <1>2, <1>3, SetUnitsEffect DEF AddUnit, SubUnit
<1>4. ASSUME NEW i \in DOMAIN items, Remove(i) PROVE items' = Without(items, i)
  BY <1>4 DEF Remove
<1>5. ASSUME NEW q \in queries, Found(q) \/ NotFound(q) PROVE MarksOnly(items', items)
  BY <1>2, <1>5, FoundEffect, NotFoundMarks
<1>6. ASSUME NEW q \in queries, Matched(q) \/ QueryFails(q) PROVE MarksOnly(items', items)
  BY <1>1, <1>6 DEF Matched, QueryFails
<1>7. ASSUME NEW w \in {diskQ[i] : i \in DOMAIN diskQ},
             DiskWrite(w) \/ RepeatSaved(w) \/ RepeatSavedLate(w)
      PROVE  MarksOnly(items', items) \/ items' = <<>>
  BY <1>1, <1>7 DEF DiskWrite, RepeatSaved, RepeatSavedLate, EmptyCart
<1>8. ASSUME NEW p \in Promotions, Withdraw(p) \/ Publish(p) PROVE MarksOnly(items', items)
  BY <1>1, <1>8 DEF Withdraw, Publish
<1>9. CASE RunSave \/ RunSaveInRepeat \/ PrefsReady \/ RecreateRows \/ OrderRefused \/ OrderSent
  BY <1>1, <1>9 DEF RunSave, RunSaveInRepeat, PrefsReady, RecreateRows, OrderRefused, OrderSent
<1>10. CASE OpenCheckout \/ Back \/ Kill \/ Clear
  BY <1>10 DEF OpenCheckout, Back, Kill, Leave, Clear, EmptyCart
<1>11. ASSUME NEW p \in Products, NEW u \in 1 .. MaxUnits, AddProduct(p, u) PROVE MarksOnly(items', items)
  BY <1>1, <1>11 DEF AddProduct
<1>12. ASSUME NEW b \in BOOLEAN, SetDelivery(b) PROVE MarksOnly(items', items)
  BY <1>1, <1>12 DEF SetDelivery
<1>13. CASE UNCHANGED vars
  BY <1>1, <1>13
<1>14. ASSUME NEW r \in Rounds, RunLoad(r) PROVE \E s \in Rounds : RunLoad(s)
  BY <1>14
<1> QED
  BY <1>3, <1>4, <1>5, <1>6, <1>7, <1>8, <1>9, <1>10, <1>11, <1>12, <1>13, <1>14
     DEF Next, User, Microtask, Answer, Platform, Restaurant

\* Only a product screen takes an id.
LEMMA NextIdStep ==
  ASSUME [Next]_vars
  PROVE  nextId' = nextId \/ \E p \in Products, u \in 1 .. MaxUnits : AddProduct(p, u)
<1> USE DEF storage, screen, history, vars
<1>1. CASE User
  BY <1>1 DEF User, OpenCheckout, Back, AddUnit, SubUnit, SetUnits, Remove, Clear, RecreateRows,
     OrderRefused, OrderSent, SetDelivery
<1>2. CASE Microtask \/ PrefsReady \/ Answer \/ Restaurant \/ Kill \/ UNCHANGED vars
  BY <1>2 DEF Microtask, RunLoad, RunSave, RunSaveInRepeat, PrefsReady, Answer, Found, NotFound, Matched, QueryFails,
     Restaurant, Withdraw, Publish, Kill
<1>3. CASE Platform
  BY <1>3 DEF Platform, DiskWrite, RepeatSaved, RepeatSavedLate
<1> QED
  BY <1>1, <1>2, <1>3 DEF Next

LEMMA NoTwinsWithout ==
  ASSUME NEW list \in Seq(Item), NEW n \in Nat, NEW k \in DOMAIN list, NoTwins(list, n)
  PROVE  NoTwins(Without(list, k), n)
<1>1. /\ DOMAIN Without(list, k) = 1 .. Len(list) - 1 /\ DOMAIN list = 1 .. Len(list) /\ Len(list) \in Nat
      /\ \A i \in 1 .. Len(list) - 1 : Without(list, k)[i] = IF i < k THEN list[i] ELSE list[i + 1]
  BY WithoutIsSeq
<1> DEFINE at(i) == IF i < k THEN i ELSE i + 1
<1>2. \A i \in 1 .. Len(list) - 1 : at(i) \in DOMAIN list /\ Without(list, k)[i] = list[at(i)]
  BY <1>1
<1>3. \A i, j \in 1 .. Len(list) - 1 : at(i) = at(j) => i = j
  BY <1>1
<1> HIDE DEF at
<1>4. \A i \in 1 .. Len(list) - 1 : Without(list, k)[i].id < n
  BY <1>2 DEF NoTwins
<1>5. ASSUME NEW i \in 1 .. Len(list) - 1, NEW j \in 1 .. Len(list) - 1,
             Without(list, k)[i].id = Without(list, k)[j].id
      PROVE  i = j
  <2>1. at(i) = at(j)
    BY <1>2, <1>5 DEF NoTwins
  <2> QED
    BY <1>3, <2>1
<1> QED
  BY <1>1, <1>4, <1>5 DEF NoTwins

LEMMA IdIsNat ==
  ASSUME NEW it \in Item
  PROVE  it.id \in Nat
<1>1. it.id \in 1 .. MaxId
  BY DEF Item, Ids
<1> QED
  BY <1>1

LEMMA NoTwinsAppend ==
  ASSUME NEW list \in Seq(Item), NEW n \in Nat, NEW it \in Item, it.id = n, NoTwins(list, n)
  PROVE  NoTwins(Append(list, it), n + 1)
<1>1. /\ DOMAIN Append(list, it) = DOMAIN list \cup {Len(list) + 1} /\ Append(list, it)[Len(list) + 1] = it
      /\ \A k \in DOMAIN list : Append(list, it)[k] = list[k]
  BY AppendAt
<1>2. \A k \in DOMAIN list : list[k].id \in Nat
  BY ItemAt, IdIsNat
<1> QED
  BY <1>1, <1>2 DEF NoTwins

LEMMA NoTwinsLater ==
  ASSUME NEW list \in Seq(Item), NEW n \in Nat, NoTwins(list, n)
  PROVE  NoTwins(list, n + 1)
<1>2. \A k \in DOMAIN list : list[k].id \in Nat
  BY ItemAt, IdIsNat
<1> QED
  BY <1>2 DEF NoTwins

LEMMA SavedListsTyped == TypeOK => SavedLists \subseteq Seq(Item)
<1> SUFFICES ASSUME TypeOK PROVE SavedLists \subseteq Seq(Item)
  OBVIOUS
<1>1. \A k \in DOMAIN diskQ : diskQ[k] \in Write
  BY DEF TypeOK
<1>2. \A w \in Write : w.val \in Seq(Item)
  BY DEF Write
<1> QED
  BY <1>1, <1>2 DEF SavedLists, TypeOK

LEMMA StepNoTwins == TypeOK /\ ListsHaveNoTwins /\ [Next]_vars => ListsHaveNoTwins'
<1> SUFFICES ASSUME TypeOK, ListsHaveNoTwins, [Next]_vars PROVE ListsHaveNoTwins'
  OBVIOUS
<1>0. \A l \in SavedLists \cup {items, <<>>} : l \in Seq(Item) /\ NoTwins(l, nextId)
  <2>1. NoTwins(<<>>, nextId)
    BY DEF NoTwins
  <2> QED
    BY <2>1, SavedListsTyped, NoElements DEF ListsHaveNoTwins, SavedLists, TypeOK
<1>1. SUFFICES \A l \in SavedLists' \cup {items'} : NoTwins(l, nextId')
  BY <1>1 DEF ListsHaveNoTwins, SavedLists
<1>2. prefs.data \in SavedLists
  BY DEF SavedLists
<1>3. nextId \in Nat
  BY BoundsAssumption DEF TypeOK
<1>4. NoTwins(items', nextId)
  <2>1. ASSUME MarksOnly(items', items) PROVE NoTwins(items', nextId)
    BY <1>0, <2>1 DEF MarksOnly, NoTwins
  <2>2. ASSUME NEW i \in DOMAIN items, items' = Without(items, i) PROVE NoTwins(items', nextId)
    BY <1>0, <1>3, <2>2, NoTwinsWithout DEF TypeOK
  <2>3. ASSUME items' = <<>> \/ \E r \in Rounds : RunLoad(r) PROVE NoTwins(items', nextId)
    BY <1>0, <1>2, <2>3 DEF RunLoad
  <2> QED
    BY <2>1, <2>2, <2>3, ListStep
<1>5. ASSUME NEW p \in Products, NEW u \in 1 .. MaxUnits, AddProduct(p, u)
      PROVE  \A l \in SavedLists' \cup {items'} : NoTwins(l, nextId')
  <2> DEFINE it == NewItem(nextId, p, u)
  <2>1. nextId \in Ids /\ nextId' = nextId + 1 /\ items' = items /\ disk' = disk
    BY <1>5 DEF AddProduct, screen, TypeOK, Ids
  <2>2. it \in Item /\ it.id = nextId
    BY <2>1, BoundsAssumption, NewItemIsItem DEF NewItem
  <2>3. SetString("data", Append(prefs.data, it))
    BY <1>5 DEF AddProduct
  <2> HIDE DEF it
  <2>4. Append(prefs.data, it) \in Seq(Item) /\ NoTwins(Append(prefs.data, it), nextId')
    BY <1>0, <1>2, <1>3, <2>1, <2>2, NoTwinsAppend, AppendAt
  <2>5. SavedLists' \subseteq SavedLists \cup {Append(prefs.data, it)}
    BY <2>1, <2>3, <2>4, SetStringSaves
  <2> QED
    BY <1>0, <1>3, <2>1, <2>4, <2>5, NoTwinsLater
<1>6. CASE nextId' = nextId /\ SavedLists' \subseteq SavedLists \cup {items, <<>>}
  BY <1>0, <1>4, <1>6
<1> QED
  BY <1>5, <1>6, NextIdStep, SavedListsStep

-----------------------------------------------------------------------------

\* A frame over a list without twins keeps rows at or in front of their items
\* when the rows before it were: kept ones as they were, new ones on theirs.
LEMMA RebuildAt ==
  ASSUME NEW old \in Seq(Row), NEW list \in Seq(Item), NEW i \in DOMAIN list
  PROVE  Rebuild(old, list)[i] =
           IF i \in DOMAIN old /\ old[i].type = list[i].type THEN old[i] ELSE NewRow(list[i])
<1>1. i \in 1 .. Len(list) /\ Len(old) \in Nat /\ DOMAIN old = 1 .. Len(old)
  OBVIOUS
<1>2. i <= Len(old) <=> i \in DOMAIN old
  BY <1>1
<1> QED
  BY <1>1, <1>2 DEF Rebuild

\* What a row shows of the item it was made for.
LEMMA NewRowShows ==
  ASSUME NEW it
  PROVE  NewRow(it).type = it.type /\ NewRow(it).owner = it.id /\ NewRow(it).units = it.units
  BY DEF NewRow

\* Rows made anew are their items' own.
Fresh(rs, list) == Len(rs) = Len(list) /\ \A i \in DOMAIN list : rs[i] = NewRow(list[i])

\* What the three invariants about rows say of a list and its rows.
Aligned(rs, list, re) ==
  /\ Len(rs) = Len(list)
  /\ \A i, j \in DOMAIN list : rs[i].owner = list[j].id => j <= i
  /\ \A i \in DOMAIN list :
       /\ rs[i].type = list[i].type
       /\ rs[i].owner = list[i].id => rs[i].units = list[i].units
       /\ ~re => rs[i].owner = list[i].id /\ list[i].units >= 1
RowsOK ==
  /\ Aligned(rows, items, rebound)
  /\ ~rebound => \A list \in SavedLists : SomeUnits(list)

LEMMA RowsOKParts == RowsOK <=> RowsTrailItems /\ RowsTellTheTruth /\ UnitsAreGuarded
<1>1. (\A list \in SavedLists : SomeUnits(list)) <=>
        /\ SomeUnits(prefs.data) /\ SomeUnits(disk.data)
        /\ \A k \in DOMAIN diskQ : diskQ[k].key = "data" => SomeUnits(diskQ[k].val)
  BY DEF SavedLists
<1> QED
  BY <1>1 DEF RowsOK, Aligned, RowsTrailItems, RowsTellTheTruth, UnitsAreGuarded

LEMMA FreshIsAligned ==
  ASSUME NEW list \in Seq(Item), NEW n, NoTwins(list, n), NEW rs, Fresh(rs, list),
         NEW re, ~re => SomeUnits(list)
  PROVE  Aligned(rs, list, re)
<1>1. \A i \in DOMAIN list : /\ rs[i].type = list[i].type /\ rs[i].owner = list[i].id
                             /\ rs[i].units = list[i].units
  BY NewRowShows DEF Fresh
<1>2. ASSUME NEW i \in DOMAIN list, NEW j \in DOMAIN list, rs[i].owner = list[j].id PROVE j <= i
  <2>1. i = j
    BY <1>1, <1>2 DEF NoTwins
  <2> QED
    BY <2>1
<1>3. ASSUME ~re, NEW i \in DOMAIN list PROVE list[i].units >= 1
  BY <1>3 DEF SomeUnits
<1> QED
  BY <1>1, <1>2, <1>3 DEF Aligned, Fresh

LEMMA SameIsAligned ==
  ASSUME NEW list \in Seq(Item), NEW new \in Seq(Item), SameProducts(new, list), SameUnits(new, list),
         NEW rs, NEW re, Aligned(rs, list, re)
  PROVE  Aligned(rs, new, re)
<1>1. DOMAIN new = DOMAIN list /\ Len(new) = Len(list)
  BY DEF SameProducts
<1> QED
  BY <1>1 DEF SameProducts, SameUnits, Aligned

\* A frame over the list the rows stand for changes nothing.
LEMMA RebuildKeeps ==
  ASSUME NEW rs \in Seq(Row), NEW list \in Seq(Item), NEW re, Aligned(rs, list, re)
  PROVE  Rebuild(rs, list) = rs
<1>1. DOMAIN rs = DOMAIN list /\ rs = [i \in DOMAIN list |-> rs[i]]
  BY DEF Aligned
<1>2. \A i \in DOMAIN list : Rebuild(rs, list)[i] = rs[i]
  BY <1>1, RebuildAt DEF Aligned
<1>3. Rebuild(rs, list) = [i \in DOMAIN list |-> Rebuild(rs, list)[i]]
  BY RebuildIsRows
<1> QED
  BY <1>1, <1>2, <1>3

\* A removal moves the items behind the removed one, not their rows.
LEMMA RemovalIsAligned ==
  ASSUME NEW rs \in Seq(Row), NEW list \in Seq(Item), NEW re \in BOOLEAN, Aligned(rs, list, re),
         NEW n \in Nat, NoTwins(list, n), NEW k \in DOMAIN list
  PROVE  Aligned(Rebuild(rs, Without(list, k)), Without(list, k), re \/ k < Len(list))
<1> DEFINE new == Without(list, k)
           at(i) == IF i < k THEN i ELSE i + 1
<1>1. /\ new \in Seq(Item) /\ DOMAIN new = 1 .. Len(list) - 1 /\ Len(new) = Len(list) - 1
      /\ DOMAIN list = 1 .. Len(list) /\ Len(list) \in Nat
      /\ \A i \in 1 .. Len(list) - 1 : new[i] = IF i < k THEN list[i] ELSE list[i + 1]
  BY WithoutIsSeq
<1>2. \A i \in DOMAIN new : at(i) \in DOMAIN list /\ new[i] = list[at(i)] /\ i <= at(i) /\ i \in DOMAIN list
  BY <1>1
<1>3. NoTwins(new, n)
  BY NoTwinsWithout
<1>4. k >= Len(list) => \A i \in DOMAIN new : at(i) = i
  BY <1>1
<1> DEFINE frame == Rebuild(rs, new)
<1>0. DOMAIN rs = DOMAIN list
  BY DEF Aligned
<1> HIDE DEF new, at
<1>5. Len(frame) = Len(new)
  BY <1>1, RebuildIsRows
<1>6. \A i \in DOMAIN new : \/ frame[i] = rs[i] /\ rs[i].type = new[i].type
                            \/ frame[i] = NewRow(new[i]) /\ rs[i].type # new[i].type
  BY <1>0, <1>1, <1>2, RebuildAt
<1> HIDE DEF frame
<1>7. ASSUME NEW i \in DOMAIN new, NEW j \in DOMAIN new, frame[i].owner = new[j].id PROVE j <= i
  <2>1. CASE frame[i] = rs[i]
    <3>1. at(j) <= i
      BY <1>2, <1>7, <2>1 DEF Aligned
    <3> QED
      BY <1>1, <1>2, <3>1
  <2>2. CASE frame[i] = NewRow(new[i])
    <3>1. i = j
      BY <1>3, <1>7, <2>2, NewRowShows DEF NoTwins
    <3> QED
      BY <1>1, <3>1
  <2> QED
    BY <1>6, <2>1, <2>2
<1>8. ASSUME NEW i \in DOMAIN new
      PROVE  frame[i].type = new[i].type /\ (frame[i].owner = new[i].id => frame[i].units = new[i].units)
  <2>1. CASE frame[i] = rs[i] /\ rs[i].type = new[i].type
    <3>1. ASSUME rs[i].owner = new[i].id PROVE rs[i].units = new[i].units
      <4>1. at(i) <= i
        BY <1>2, <3>1 DEF Aligned
      <4>2. at(i) = i
        BY <1>1, <1>2, <4>1
      <4> QED
        BY <1>2, <3>1, <4>2 DEF Aligned
    <3> QED
      BY <2>1, <3>1
  <2>2. CASE frame[i] = NewRow(new[i])
    BY <2>2, NewRowShows
  <2> QED
    BY <1>6, <2>1, <2>2
<1>9. ASSUME ~(re \/ k < Len(list)), NEW i \in DOMAIN new PROVE frame[i].owner = new[i].id /\ new[i].units >= 1
  <2>1. ~re /\ at(i) = i
    BY <1>1, <1>4, <1>9
  <2>2. rs[i].owner = new[i].id /\ rs[i].type = new[i].type /\ new[i].units >= 1
    BY <1>2, <2>1 DEF Aligned
  <2> QED
    BY <1>6, <2>2
<1> QED
  BY <1>5, <1>7, <1>8, <1>9 DEF Aligned, new, frame

\* "+" and "-" keep a row and its own item together, and their guard keeps at
\* least one unit.
LEMMA UnitsAreAligned ==
  ASSUME TypeOK, Aligned(rows, items, rebound), NEW i \in DOMAIN items, NEW d \in Int, SetUnits(i, d),
         ~rebound => rows[i].units + d >= 1
  PROVE  Aligned(rows', items', rebound)
<1>1. /\ DOMAIN items' = DOMAIN items /\ Len(items') = Len(items)
      /\ \A j \in DOMAIN items : items'[j].id = items[j].id /\ items'[j].type = items[j].type
      /\ \A j \in DOMAIN items : items'[j].units = IF j = i THEN items[j].units + d ELSE items[j].units
  <2>1. items' \in Seq(Item)
    BY UnitsKeepItems DEF SetUnits, TypeOK
  <2> QED
    BY <2>1, SetUnitsEffect DEF SameProducts, TypeOK
<1>2. /\ Len(rows') = Len(items)
      /\ \A j \in DOMAIN items : /\ rows'[j].owner = rows[j].owner /\ rows'[j].type = rows[j].type
                                 /\ rows'[j].units = IF j = i THEN rows[j].units + d ELSE rows[j].units
  BY SetUnitsRows DEF Aligned
<1> QED
  BY <1>1, <1>2 DEF Aligned

LEMMA StepRows == TypeOK /\ LoadIsSettled /\ ListsHaveNoTwins /\ RowsOK /\ [Next]_vars => RowsOK'
<1> SUFFICES ASSUME TypeOK, LoadIsSettled, ListsHaveNoTwins, RowsOK, [Next]_vars PROVE RowsOK'
  OBVIOUS
<1> USE DEF storage, screen, history, vars
<1>0. TypeOK' /\ ListsHaveNoTwins'
  BY StepTypeOK, StepNoTwins
<1>1. ASSUME Fresh(rows', items'), ~rebound' => SomeUnits(items') PROVE Aligned(rows', items', rebound')
  <2>1. items' \in Seq(Item) /\ NoTwins(items', nextId')
    BY <1>0 DEF TypeOK, ListsHaveNoTwins
  <2> QED
    BY <1>1, <2>1, FreshIsAligned
<1>2. ASSUME rows' = rows, rebound' = rebound, SameProducts(items', items), SameUnits(items', items)
      PROVE  Aligned(rows', items', rebound')
  <2>1. items' \in Seq(Item) /\ items \in Seq(Item)
    BY <1>0 DEF TypeOK
  <2> QED
    BY <1>2, <2>1, SameIsAligned DEF RowsOK
<1>3. ASSUME UNCHANGED <<rows, items, rebound>> PROVE Aligned(rows', items', rebound')
  BY <1>3 DEF RowsOK
<1>4. ASSUME items' = <<>>, rows' = <<>> PROVE Aligned(rows', items', rebound')
  BY <1>1, <1>4 DEF Fresh, SomeUnits
<1>5. ASSUME NEW i \in DOMAIN items, AddUnit(i) \/ SubUnit(i) PROVE Aligned(rows', items', rebound')
  <2>1. rows[i].units \in Int
    <3>1. rows[i] \in Row
      BY DEF TypeOK, RowsOK, Aligned
    <3> QED
      BY <3>1 DEF Row
  <2>2. CASE AddUnit(i)
    <3>1. ~rebound => rows[i].units + 1 >= 1
      BY <2>1 DEF RowsOK, Aligned
    <3>2. SetUnits(i, 1) /\ rebound' = rebound
      BY <2>2 DEF AddUnit, SetUnits
    <3> QED
      BY <3>1, <3>2, UnitsAreAligned DEF RowsOK
  <2>3. CASE SubUnit(i)
    <3>1. rows[i].units + (-1) >= 1
      BY <2>1, <2>3 DEF SubUnit
    <3>2. SetUnits(i, -1) /\ rebound' = rebound /\ -1 \in Int
      BY <2>3 DEF SubUnit, SetUnits
    <3> QED
      BY <3>1, <3>2, UnitsAreAligned DEF RowsOK
  <2> QED
    BY <1>5, <2>2, <2>3
<1>6. ASSUME NEW i \in DOMAIN items, Remove(i) PROVE Aligned(rows', items', rebound')
  <2>1. /\ rows \in Seq(Row) /\ items \in Seq(Item) /\ rebound \in BOOLEAN /\ nextId \in Nat
        /\ NoTwins(items, nextId) /\ Aligned(rows, items, rebound)
    BY BoundsAssumption DEF TypeOK, ListsHaveNoTwins, RowsOK
  <2>2. Aligned(Rebuild(rows, Without(items, i)), Without(items, i), rebound \/ i < Len(items))
    BY <2>1, RemovalIsAligned
  <2> QED
    BY <1>6, <2>2 DEF Remove
<1>7. ASSUME NEW r \in Rounds, RunLoad(r) PROVE Aligned(rows', items', rebound')
  <2>1. (items = <<>> /\ rows = <<>>) \/ prefs.data = items
    BY <1>7 DEF RunLoad, Run, LoadIsSettled, TypeOK
  <2>2. items' = prefs.data /\ rows' = Rebuild(rows, items') /\ rebound' = rebound
    BY <1>7 DEF RunLoad
  <2>3. rows \in Seq(Row) /\ items' \in Seq(Item) /\ items \in Seq(Item)
    BY <1>0 DEF TypeOK
  <2>4. CASE rows = <<>>
    <3>1. Fresh(rows', items')
      <4>1. Len(rows') = Len(items')
        BY <2>2, <2>3, RebuildIsRows
      <4>2. ASSUME NEW i \in DOMAIN items' PROVE rows'[i] = NewRow(items'[i])
        <5>1. i \notin DOMAIN rows
          BY <2>4
        <5> QED
          BY <2>2, <2>3, <5>1, RebuildAt
      <4> QED
        BY <4>1, <4>2 DEF Fresh
    <3>2. ~rebound' => SomeUnits(items')
      BY <2>2 DEF RowsOK, SavedLists
    <3> QED
      BY <1>1, <3>1, <3>2
  <2>5. CASE prefs.data = items
    <3>1. rows' = rows
      BY <2>2, <2>3, <2>5, RebuildKeeps DEF RowsOK
    <3> QED
      BY <1>3, <2>2, <2>5, <3>1
  <2> QED
    BY <2>1, <2>4, <2>5
<1>8. ASSUME RecreateRows
      PROVE  Aligned(rows', items', rebound')
  <2>1. Fresh(rows', items')
    BY <1>8 DEF RecreateRows, Fresh, TypeOK
  <2>2. ~rebound' => SomeUnits(items')
    BY <1>8 DEF RecreateRows, RowsOK, Aligned, SomeUnits
  <2> QED
    BY <1>1, <2>1, <2>2
<1>9. ASSUME NEW q \in queries, Found(q) \/ NotFound(q) PROVE Aligned(rows', items', rebound')
  <2>1. rows' = rows /\ rebound' = rebound
    BY <1>9 DEF Found, NotFound
  <2> QED
    BY <1>2, <1>9, <2>1, FoundEffect, NotFoundEffect
<1>10. ASSUME OpenCheckout \/ Back \/ Kill \/ Clear
       PROVE  Aligned(rows', items', rebound')
  BY <1>4, <1>10 DEF OpenCheckout, Back, Kill, Leave, Clear, EmptyCart
<1>11. ASSUME RunSave \/ RunSaveInRepeat \/ PrefsReady \/ OrderRefused \/ OrderSent \/ UNCHANGED vars
       PROVE  Aligned(rows', items', rebound')
  BY <1>3, <1>11 DEF RunSave, RunSaveInRepeat, PrefsReady, OrderRefused, OrderSent
<1>12. ASSUME NEW w \in {diskQ[i] : i \in DOMAIN diskQ},
              DiskWrite(w) \/ RepeatSaved(w) \/ RepeatSavedLate(w)
       PROVE  Aligned(rows', items', rebound')
  BY <1>3, <1>4, <1>12 DEF DiskWrite, RepeatSaved, RepeatSavedLate, EmptyCart
<1>13. ASSUME NEW q \in queries, Matched(q) \/ QueryFails(q) PROVE Aligned(rows', items', rebound')
  BY <1>3, <1>13 DEF Matched, QueryFails
<1>14. ASSUME NEW p \in Promotions, Withdraw(p) \/ Publish(p) PROVE Aligned(rows', items', rebound')
  BY <1>3, <1>14 DEF Withdraw, Publish
<1>15. ASSUME NEW p \in Products, NEW u \in 1 .. MaxUnits, AddProduct(p, u) PROVE Aligned(rows', items', rebound')
  BY <1>3, <1>15 DEF AddProduct
<1>16. ASSUME NEW b \in BOOLEAN, SetDelivery(b) PROVE Aligned(rows', items', rebound')
  BY <1>3, <1>16 DEF SetDelivery
<1>17. Aligned(rows', items', rebound')
  BY <1>5, <1>6, <1>7, <1>8, <1>9, <1>10, <1>11, <1>12, <1>13, <1>14, <1>15, <1>16
     DEF Next, User, Microtask, Answer, Platform, Restaurant
<1>18. ASSUME NEW p \in Products, NEW u \in 1 .. MaxUnits, AddProduct(p, u)
       PROVE  ~rebound' => \A list \in SavedLists' : SomeUnits(list)
  <2> DEFINE it == NewItem(nextId, p, u)
             new == Append(prefs.data, it)
  <2>1. nextId \in Ids /\ rebound' = rebound /\ disk' = disk /\ SetString("data", new)
    BY <1>18 DEF AddProduct, TypeOK, Ids
  <2>2. u \in Int /\ u >= 1
    BY BoundsAssumption
  <2>3. it \in Item /\ it.units = u
    BY <2>1, <2>2, NewItemIsItem DEF NewItem
  <2> HIDE DEF it
  <2>4. prefs.data \in Seq(Item) /\ prefs.data \in SavedLists
    BY DEF TypeOK, SavedLists
  <2>5. /\ new \in Seq(Item) /\ DOMAIN new = DOMAIN prefs.data \cup {Len(prefs.data) + 1}
        /\ new[Len(prefs.data) + 1] = it
        /\ \A k \in DOMAIN prefs.data : new[k] = prefs.data[k]
    BY <2>3, <2>4, AppendAt
  <2>6. ~rebound => SomeUnits(new)
    BY <2>2, <2>3, <2>4, <2>5 DEF RowsOK, SomeUnits
  <2> HIDE DEF new
  <2>7. SavedLists' \subseteq SavedLists \cup {new}
    BY <2>1, <2>5, SetStringSaves
  <2> QED
    BY <2>1, <2>6, <2>7 DEF RowsOK
<1>19. ASSUME SavedLists' \subseteq SavedLists \cup {items, <<>>}, ~rebound' => ~rebound
       PROVE  ~rebound' => \A list \in SavedLists' : SomeUnits(list)
  <2>1. ~rebound => SomeUnits(items) /\ SomeUnits(<<>>)
    BY DEF RowsOK, Aligned, SomeUnits
  <2> QED
    BY <1>19, <2>1 DEF RowsOK
<1>20. rebound => rebound'
  <2>1. CASE User
    BY <2>1 DEF User, AddProduct, OpenCheckout, Back, AddUnit, SubUnit, SetUnits, Remove, Clear, RecreateRows,
       OrderRefused, OrderSent, SetDelivery
  <2>2. CASE Microtask \/ PrefsReady \/ Answer \/ Restaurant \/ Kill \/ UNCHANGED vars
    BY <2>2 DEF Microtask, RunLoad, RunSave, RunSaveInRepeat, PrefsReady, Answer, Found, NotFound, Matched, QueryFails,
       Restaurant, Withdraw, Publish, Kill
  <2>3. CASE Platform
    BY <2>3 DEF Platform, DiskWrite, RepeatSaved, RepeatSavedLate
  <2> QED
    BY <2>1, <2>2, <2>3 DEF Next
<1> QED
  BY <1>17, <1>18, <1>19, <1>20, SavedListsStep DEF RowsOK

\* There is a row for every item, of its class; one whose State was made for that
\* item shows its units, and until a removal re-binds rows no item falls below
\* one unit, although the guard of "-" looks at the row and not at the item.
THEOREM RowsShowTheirItems == Spec => []RowsTellTheTruth
<1>1. Init => LoadIsSettled /\ ListsHaveNoTwins /\ RowsOK
  <2> SUFFICES ASSUME Init PROVE LoadIsSettled /\ ListsHaveNoTwins /\ RowsOK
    OBVIOUS
  <2>1. LoadIsSettled /\ ListsHaveNoTwins
    BY DEF Init, LoadIsSettled, ListsHaveNoTwins, NoTwins
  <2>2. SavedLists = {<<>>} /\ items = <<>> /\ rows = <<>>
    BY DEF Init, SavedLists
  <2> QED
    BY <2>1, <2>2 DEF RowsOK, Aligned, SomeUnits
<1>2. RowsOK => RowsTellTheTruth
  BY RowsOKParts
<1> QED
  BY <1>1, <1>2, InitTypeOK, StepTypeOK, StepLoadIsSettled, StepNoTwins, StepRows, PTL DEF Spec

-----------------------------------------------------------------------------
(* Continuations in order: what load() finds, and when a save() is coming *)

\* What an event may rely on, once it is known which screens are loaded.
LEMMA EventSettles ==
  ASSUME TypeOK, LoadIsSettled, LoadComesFirst, Quiet
  PROVE  /\ loaded => pending = <<>> /\ open /\ ready
         /\ open /\ ~loaded => /\ ~ready /\ pending # <<>> /\ pending[1] = "load"
                               /\ queries = {} /\ items = <<>> /\ rows = <<>>
         /\ ~open => pending = <<>> /\ ~loaded
<1>1. pending = <<>> \/ ~ready
  BY DEF Quiet
<1> QED
  BY <1>1 DEF LoadIsSettled, LoadComesFirst, TypeOK

\* The head of the tasks runs, the others move up.
LEMMA RunMovesUp ==
  ASSUME TypeOK, NEW task, Run(task)
  PROVE  /\ pending # <<>> /\ pending[1] = task /\ 1 \in DOMAIN pending /\ ready
         /\ \A k \in DOMAIN pending' : k + 1 \in DOMAIN pending /\ pending'[k] = pending[k + 1]
         /\ \A k \in DOMAIN pending : k # 1 => k - 1 \in DOMAIN pending' /\ pending'[k - 1] = pending[k]
<1>1. pending \in Seq(Task) /\ pending # <<>> /\ pending' = Tail(pending) /\ Head(pending) = task /\ ready
  BY DEF Run, TypeOK
<1>2. /\ 1 \in DOMAIN pending /\ Head(pending) = pending[1]
      /\ DOMAIN pending' = 1 .. Len(pending) - 1 /\ DOMAIN pending = 1 .. Len(pending) /\ Len(pending) \in Nat
      /\ \A k \in DOMAIN pending' : k + 1 \in DOMAIN pending /\ pending'[k] = pending[k + 1]
  BY <1>1, TailAt
<1> HIDE DEF Run
<1>3. \A k \in DOMAIN pending : k # 1 => k - 1 \in DOMAIN pending' /\ (k - 1) + 1 = k
  BY <1>2
<1> QED
  BY <1>1, <1>2, <1>3

\* save() and saveInRepeat() run on a loaded screen.
LEMMA RunIsLoaded ==
  ASSUME TypeOK, LoadIsSettled, LoadComesFirst, NEW task, Run(task), task # "load"
  PROVE  loaded /\ open /\ ready
  BY RunMovesUp DEF LoadIsSettled, LoadComesFirst

\* The copies on their way to the disk.
CopyLists == {diskQ[k].val : k \in {j \in DOMAIN diskQ : Copy(j)}}

LEMMA CopyListsParts == CopyLists = {} <=> \A k \in DOMAIN diskQ : ~Copy(k)
  BY DEF CopyLists

LEMMA CopyListsOnceMore == CopyLists' = {} <=> \A k \in DOMAIN diskQ' : ~Copy(k)'
  BY DEF CopyLists

\* setString of the repeat key puts a copy on its way, of the cart none.
LEMMA SetStringCopies ==
  ASSUME TypeOK, NEW key \in {"data", "repeat"}, NEW val \in Seq(Item), SetString(key, val)
  PROVE  /\ key = "data" => CopyLists' \subseteq CopyLists
         /\ key = "repeat" => CopyLists' \subseteq CopyLists \cup {val}
<1> DEFINE w == [key |-> key, val |-> val, live |-> TRUE]
<1>1. w \in Write /\ w.key = key /\ w.val = val
  BY DEF Write
<1>2. diskQ' = Append(diskQ, w)
  BY DEF SetString
<1> HIDE DEF w
<1>3. /\ DOMAIN diskQ' = DOMAIN diskQ \cup {Len(diskQ) + 1} /\ diskQ'[Len(diskQ) + 1] = w
      /\ \A k \in DOMAIN diskQ : diskQ'[k] = diskQ[k]
  BY <1>1, <1>2, AppendAt DEF TypeOK
<1> QED
  BY <1>1, <1>3 DEF CopyLists, Copy

\* A write that leaves the queue puts none on its way.
LEMMA TailCopies ==
  ASSUME TypeOK, diskQ # <<>>, diskQ' = Tail(diskQ)
  PROVE  CopyLists' \subseteq CopyLists
<1>1. \A k \in DOMAIN diskQ' : k + 1 \in DOMAIN diskQ /\ diskQ'[k] = diskQ[k + 1]
  BY TailAt DEF TypeOK
<1> QED
  BY <1>1 DEF CopyLists, Copy

LEMMA CopyListsStep ==
  ASSUME TypeOK, [Next]_vars
  PROVE  /\ \/ CopyLists' \subseteq CopyLists
            \/ RunSaveInRepeat /\ CopyLists' \subseteq CopyLists \cup {items}
         /\ Back \/ Kill => CopyLists' = {}
<1> USE DEF storage, screen, history, vars
<1>1. ASSUME diskQ' = diskQ PROVE CopyLists' \subseteq CopyLists
  BY <1>1 DEF CopyLists, Copy
<1>2. ASSUME Back PROVE CopyLists' = {}
  <2>1. DOMAIN diskQ' = DOMAIN diskQ
    BY <1>2 DEF Back, TypeOK
  <2>2. ASSUME NEW w \in Write, NEW b \in BOOLEAN
        PROVE  [w EXCEPT !.live = b].key = w.key /\ [w EXCEPT !.live = b].live = b
    BY DEF Write
  <2>3. ASSUME NEW k \in DOMAIN diskQ PROVE ~(diskQ'[k].key = "repeat" /\ diskQ'[k].live)
    <3>1. PICK b \in BOOLEAN : b = (diskQ[k].key = "data")
      OBVIOUS
    <3>2. diskQ[k] \in Write
      BY DEF TypeOK
    <3>3. diskQ'[k] = [diskQ[k] EXCEPT !.live = (diskQ[k].key = "data")]
      BY <1>2 DEF Back, TypeOK
    <3>4. diskQ'[k] = [diskQ[k] EXCEPT !.live = b]
      BY <3>1, <3>3, Zenon
    <3>5. diskQ'[k].key = diskQ[k].key /\ diskQ'[k].live = b
      BY <2>2, <3>2, <3>4
    <3>6. diskQ[k].key = "repeat" => ~b
      BY <3>1
    <3> QED
      BY <3>5, <3>6
  <2> QED
    BY <2>1, <2>3 DEF CopyLists, Copy
<1>3. ASSUME Kill PROVE CopyLists' = {}
  BY <1>3 DEF Kill, CopyLists
<1>4. ASSUME RunSave PROVE CopyLists' \subseteq CopyLists
  BY <1>4, SetStringCopies DEF RunSave, TypeOK
<1>5. ASSUME RunSaveInRepeat PROVE CopyLists' \subseteq CopyLists \cup {items}
  BY <1>5, SetStringCopies DEF RunSaveInRepeat, TypeOK
<1>6. ASSUME NEW w \in {diskQ[i] : i \in DOMAIN diskQ}, DiskWrite(w) \/ RepeatSaved(w)
      PROVE  CopyLists' \subseteq CopyLists
  BY <1>6, TailCopies DEF DiskWrite, RepeatSaved, Acknowledge
<1>7. ASSUME NEW w \in {diskQ[i] : i \in DOMAIN diskQ}, RepeatSavedLate(w)
      PROVE  CopyLists' \subseteq CopyLists
  <2> DEFINE e == [key |-> "data", val |-> <<>>, live |-> TRUE]
  <2>1. e \in Write /\ e.key = "data"
    BY DEF Write
  <2>2. diskQ' = Append(Tail(diskQ), e) /\ diskQ # <<>> /\ diskQ \in Seq(Write)
    BY <1>7 DEF RepeatSavedLate, Acknowledge, TypeOK
  <2> HIDE DEF e
  <2>3. /\ Tail(diskQ) \in Seq(Write)
        /\ \A k \in DOMAIN Tail(diskQ) : k + 1 \in DOMAIN diskQ /\ Tail(diskQ)[k] = diskQ[k + 1]
    BY <2>2, TailAt
  <2>4. \A k \in DOMAIN diskQ' : (k \in DOMAIN Tail(diskQ) /\ diskQ'[k] = Tail(diskQ)[k]) \/ diskQ'[k] = e
    BY <2>1, <2>2, <2>3, AppendAt
  <2>5. \A k \in DOMAIN diskQ' : diskQ'[k].key = "data" \/ \E j \in DOMAIN diskQ : diskQ'[k] = diskQ[j]
    BY <2>1, <2>3, <2>4
  <2> QED
    BY <2>5 DEF CopyLists, Copy
<1>8. ASSUME NEW p \in Products, NEW u \in 1 .. MaxUnits, AddProduct(p, u) PROVE CopyLists' \subseteq CopyLists
  <2>1. nextId \in Ids /\ u \in Int
    BY <1>8, BoundsAssumption DEF AddProduct, TypeOK, Ids
  <2>2. Append(prefs.data, NewItem(nextId, p, u)) \in Seq(Item)
    BY <2>1, NewItemIsItem, AppendAt DEF TypeOK
  <2> QED
    BY <1>8, <2>2, SetStringCopies DEF AddProduct
<1>9. ASSUME OpenCheckout \/ Clear \/ RecreateRows \/ OrderRefused \/ OrderSent \/ PrefsReady \/ UNCHANGED vars
      PROVE  CopyLists' \subseteq CopyLists
  BY <1>1, <1>9 DEF OpenCheckout, Clear, RecreateRows, OrderRefused, OrderSent, PrefsReady
<1>10. ASSUME NEW i \in DOMAIN items, AddUnit(i) \/ SubUnit(i) \/ Remove(i) PROVE CopyLists' \subseteq CopyLists
  BY <1>1, <1>10 DEF AddUnit, SubUnit, SetUnits, Remove
<1>11. ASSUME NEW q \in queries, Found(q) \/ NotFound(q) \/ Matched(q) \/ QueryFails(q) PROVE CopyLists' \subseteq CopyLists
  BY <1>1, <1>11 DEF Found, NotFound, Matched, QueryFails
<1>12. ASSUME NEW b \in BOOLEAN, SetDelivery(b) PROVE CopyLists' \subseteq CopyLists
  BY <1>1, <1>12 DEF SetDelivery
<1>13. ASSUME NEW p \in Promotions, Withdraw(p) \/ Publish(p) PROVE CopyLists' \subseteq CopyLists
  BY <1>1, <1>13 DEF Withdraw, Publish
<1>14. ASSUME NEW r \in Rounds, RunLoad(r) PROVE CopyLists' \subseteq CopyLists
  BY <1>1, <1>14 DEF RunLoad
<1>15. \/ CopyLists' \subseteq CopyLists
       \/ RunSaveInRepeat /\ CopyLists' \subseteq CopyLists \cup {items}
  BY <1>2, <1>3, <1>4, <1>5, <1>6, <1>7, <1>8, <1>9, <1>10, <1>11, <1>12, <1>13, <1>14
     DEF Next, User, Microtask, Answer, Platform, Restaurant
<1> QED
  BY <1>2, <1>3, <1>15

\* What an event may leave behind: one more task, or save() and load() on a
\* screen whose tasks were done.
Queues ==
  \/ pending' = pending
  \/ \E t \in {"save", "saveInRepeat"} : pending' = Append(pending, t)
  \/ ready /\ pending' = pending \o <<"save", "load">>

LEMMA EventLoadsFirst ==
  ASSUME TypeOK, LoadIsSettled, LoadComesFirst, Quiet, UNCHANGED <<open, ready, loaded>>,
         CopyLists' \subseteq CopyLists, Queues
  PROVE  LoadComesFirst'
<1>1. ~loaded' => CopyLists' = {}
  BY CopyListsParts DEF LoadComesFirst
<1>2. CASE loaded
  <2>1. pending = <<>> /\ open /\ ready
    BY <1>2, EventSettles
  <2>2. pending' \in {<<>>, <<"save">>, <<"saveInRepeat">>, <<"save", "load">>}
    BY <2>1 DEF Queues
  <2>3. \A k \in DOMAIN pending' : pending'[k] = "load" => k = 2 /\ pending'[1] = "save"
    BY <2>2
  <2> QED
    BY <1>2, <2>1, <2>3 DEF LoadComesFirst
<1>3. CASE ~loaded /\ open
  <2>1. ~ready /\ pending # <<>> /\ pending[1] = "load"
    BY <1>3, EventSettles
  <2>2. pending' # <<>> /\ pending'[1] = "load"
    <3>1. CASE pending' = pending
      BY <2>1, <3>1
    <3>2. ASSUME NEW t \in {"save", "saveInRepeat"}, pending' = Append(pending, t)
          PROVE  pending' # <<>> /\ pending'[1] = "load"
      <4>1. pending \in Seq(Task) /\ t \in Task /\ 1 \in DOMAIN pending
        BY <2>1 DEF TypeOK, Task
      <4> QED
        BY <2>1, <3>2, <4>1, AppendAt
    <3> QED
      BY <2>1, <3>1, <3>2 DEF Queues
  <2> QED
    BY <1>1, <1>3, <2>2, CopyListsOnceMore DEF LoadComesFirst
<1>4. CASE ~loaded /\ ~open
  BY <1>1, <1>4, CopyListsOnceMore DEF LoadComesFirst
<1> QED
  BY <1>2, <1>3, <1>4

LEMMA StepLoadsFirst == TypeOK /\ LoadIsSettled /\ LoadComesFirst /\ [Next]_vars => LoadComesFirst'
<1> SUFFICES ASSUME TypeOK, LoadIsSettled, LoadComesFirst, [Next]_vars PROVE LoadComesFirst'
  OBVIOUS
<1> USE DEF storage, screen, history, vars
<1>0. CopyLists' \subseteq CopyLists \/ RunSaveInRepeat
  BY CopyListsStep
<1>16. \A k \in DOMAIN pending' : k \in Nat \ {0}
  <2>1. TypeOK'
    BY StepTypeOK
  <2>2. pending' \in Seq(Task)
    BY <2>1 DEF TypeOK
  <2> HIDE DEF vars
  <2> QED
    BY <2>2
<1>1. CASE Back \/ Kill
  <2>1. ~open' /\ ~loaded' /\ CopyLists' = {}
    BY <1>1, CopyListsStep DEF Back, Kill, Leave
  <2> QED
    BY <2>1, CopyListsOnceMore DEF LoadComesFirst
<1>2. CASE OpenCheckout
  <2>1. pending = <<>> /\ ~loaded
    BY <1>2, EventSettles DEF OpenCheckout
  <2>2. open' /\ ~loaded' /\ pending' = <<"load">> /\ diskQ' = diskQ
    BY <1>2, <2>1 DEF OpenCheckout
  <2>3. \A k \in DOMAIN diskQ' : ~Copy(k)'
    BY <2>1, <2>2 DEF LoadComesFirst, Copy
  <2> QED
    BY <2>2, <2>3 DEF LoadComesFirst
<1>3. ASSUME NEW p \in Products, NEW u \in 1 .. MaxUnits, AddProduct(p, u) PROVE LoadComesFirst'
  <2>1. ~open' /\ ~loaded' /\ ~RunSaveInRepeat /\ ~loaded
    BY <1>3, EventSettles DEF AddProduct, RunSaveInRepeat, Run, Quiet, LoadComesFirst
  <2> QED
    BY <1>0, <2>1, CopyListsParts, CopyListsOnceMore DEF LoadComesFirst
<1>4. ASSUME NEW r \in Rounds, RunLoad(r) PROVE LoadComesFirst'
  <2>1. /\ loaded' /\ open' = open /\ ready' = ready /\ Run("load")
    BY <1>4 DEF RunLoad
  <2>2. open /\ ready
    BY <2>1, RunMovesUp DEF LoadIsSettled
  <2>3. \A k \in DOMAIN pending' : pending'[k] # "load"
    <3>1. \A k \in DOMAIN pending' : k + 1 \in DOMAIN pending /\ pending'[k] = pending[k + 1] /\ k \in Nat \ {0}
      BY <1>16, <2>1, RunMovesUp
    <3>2. pending[1] # "save"
      BY <2>1, RunMovesUp
    <3>3. \A k \in DOMAIN pending : pending[k] = "load" => k = 1
      BY <3>2 DEF LoadIsSettled
    <3> QED
      BY <3>1, <3>3
  <2> QED
    BY <2>1, <2>2, <2>3 DEF LoadComesFirst
<1>5. CASE RunSave \/ RunSaveInRepeat
  <2> DEFINE task == IF RunSave THEN "save" ELSE "saveInRepeat"
  <2>1. Run(task) /\ task # "load" /\ UNCHANGED <<open, ready, loaded, items>>
    BY <1>5 DEF RunSave, RunSaveInRepeat
  <2>2. task = "save" => prefs'.data = items'
    BY <1>5 DEF RunSave, SetString, TypeOK
  <2> HIDE DEF task
  <2>3. loaded /\ open /\ ready
    BY <2>1, RunIsLoaded
  <2>4. /\ pending[1] = task /\ \A k \in DOMAIN pending' : k + 1 \in DOMAIN pending /\ pending'[k] = pending[k + 1]
    BY <2>1, RunMovesUp
  <2>6. \A k \in DOMAIN pending' : pending'[k] = "load" => k = 1 /\ task = "save"
    BY <1>16, <2>3, <2>4 DEF LoadComesFirst
  <2> QED
    BY <2>1, <2>2, <2>3, <2>6 DEF LoadComesFirst
<1>6. CASE PrefsReady
  <2>1. ~loaded /\ ~loaded' /\ UNCHANGED <<open, pending, diskQ>>
    BY <1>6 DEF PrefsReady, LoadComesFirst
  <2>2. \A k \in DOMAIN diskQ' : ~Copy(k)'
    BY <2>1 DEF LoadComesFirst, Copy
  <2> QED
    BY <2>1, <2>2 DEF LoadComesFirst
<1>7. ASSUME Quiet, UNCHANGED <<open, ready, loaded>>, Queues PROVE LoadComesFirst'
  <2>1. ASSUME RunSaveInRepeat PROVE FALSE
    BY <1>7, <2>1 DEF RunSaveInRepeat, Run, Quiet
  <2> QED
    BY <1>0, <1>7, <2>1, EventLoadsFirst
<1>8. ASSUME NEW i \in DOMAIN items, AddUnit(i) \/ SubUnit(i) \/ Remove(i) PROVE LoadComesFirst'
  BY <1>7, <1>8 DEF AddUnit, SubUnit, SetUnits, Remove, Event, Queues
<1>9. CASE Clear \/ RecreateRows \/ OrderRefused \/ OrderSent
  BY <1>7, <1>9 DEF Clear, EmptyCart, RecreateRows, OrderRefused, OrderSent, CreateMessangeSend, Event, Queues
<1>10. ASSUME NEW b \in BOOLEAN, SetDelivery(b) PROVE LoadComesFirst'
  BY <1>7, <1>10 DEF SetDelivery, Event, Queues
<1>11. ASSUME NEW q \in queries, Found(q) \/ Matched(q) \/ QueryFails(q) PROVE LoadComesFirst'
  BY <1>7, <1>11 DEF Found, Matched, QueryFails, Event, Queues
<1>12. ASSUME NEW q \in queries, NotFound(q) PROVE LoadComesFirst'
  <2>1. Quiet /\ ready
    BY <1>12 DEF NotFound, Event, LoadIsSettled
  <2>2. Queues /\ UNCHANGED <<open, ready, loaded>>
    BY <1>12, <2>1 DEF NotFound, Queues
  <2> QED
    BY <1>7, <2>1, <2>2
<1>13. ASSUME NEW w \in {diskQ[i] : i \in DOMAIN diskQ},
              DiskWrite(w) \/ RepeatSaved(w) \/ RepeatSavedLate(w) PROVE LoadComesFirst'
  BY <1>7, <1>13 DEF DiskWrite, RepeatSaved, RepeatSavedLate, Acknowledge, EmptyCart, Queues
<1>14. ASSUME NEW p \in Promotions, Withdraw(p) \/ Publish(p) PROVE LoadComesFirst'
  BY <1>7, <1>14 DEF Withdraw, Publish, Queues
<1>15. CASE UNCHANGED vars
  BY <1>15 DEF LoadComesFirst, Copy
<1> QED
  BY <1>1, <1>2, <1>3, <1>4, <1>5, <1>6, <1>8, <1>9, <1>10, <1>11, <1>12, <1>13, <1>14, <1>15
     DEF Next, User, Microtask, Answer, Platform, Restaurant

-----------------------------------------------------------------------------
(* What is saved, and what is copied *)

LEMMA WaitsAppend ==
  ASSUME TypeOK, NEW t \in Task, pending' = Append(pending, t)
  PROVE  \A task : Waits(task)' <=> Waits(task) \/ task = t
<1>1. /\ DOMAIN pending' = DOMAIN pending \cup {Len(pending) + 1} /\ pending'[Len(pending) + 1] = t
      /\ \A k \in DOMAIN pending : pending'[k] = pending[k]
  BY AppendAt DEF TypeOK
<1> QED
  BY <1>1 DEF Waits

LEMMA WaitsRun ==
  ASSUME TypeOK, NEW t, Run(t)
  PROVE  \A task : /\ Waits(task)' => Waits(task)
                   /\ Waits(task) /\ task # t => Waits(task)'
  BY RunMovesUp DEF Waits

LEMMA WaitsSame ==
  ASSUME pending' = pending
  PROVE  \A task : Waits(task)' <=> Waits(task)
  BY DEF Waits

\* Tasks of a given kind do not wait through an event of a ready plug-in.
LEMMA NothingWaits ==
  ASSUME Quiet, ready
  PROVE  \A task : ~Waits(task)
  BY DEF Quiet, Waits

LEMMA UnpricedIds ==
  ASSUME NEW l1, NEW l2, Unpriced(l1) = Unpriced(l2)
  PROVE  IdsOf(l1) = IdsOf(l2)
<1>1. DOMAIN l1 = DOMAIN Unpriced(l1) /\ DOMAIN l2 = DOMAIN Unpriced(l2)
  BY DEF Unpriced
<1>2. /\ \A i \in DOMAIN l1 : Unpriced(l1)[i].id = l1[i].id
      /\ \A i \in DOMAIN l2 : Unpriced(l2)[i].id = l2[i].id
  BY DEF Unpriced
<1> QED
  BY <1>1, <1>2 DEF IdsOf

LEMMA SameIds ==
  ASSUME NEW l1, NEW l2, SameProducts(l1, l2)
  PROVE  IdsOf(l1) = IdsOf(l2)
  BY DEF SameProducts, IdsOf

LEMMA NoIds == IdsOf(<<>>) = {}
  BY DEF IdsOf

LEMMA IdsWithout ==
  ASSUME NEW list \in Seq(Item), NEW k \in DOMAIN list
  PROVE  IdsOf(Without(list, k)) \subseteq IdsOf(list) /\ IdsOf(list) \subseteq IdsOf(Without(list, k)) \cup {list[k].id}
<1>1. /\ DOMAIN Without(list, k) = 1 .. Len(list) - 1 /\ DOMAIN list = 1 .. Len(list) /\ Len(list) \in Nat
      /\ \A i \in 1 .. Len(list) - 1 : Without(list, k)[i] = IF i < k THEN list[i] ELSE list[i + 1]
  BY WithoutIsSeq
<1> DEFINE new == Without(list, k)
<1> HIDE DEF new
<1>2. ASSUME NEW i \in DOMAIN new PROVE \E j \in DOMAIN list : new[i] = list[j]
  BY <1>1, <1>2 DEF new
<1>3. ASSUME NEW j \in DOMAIN list, j # k PROVE \E i \in DOMAIN new : new[i] = list[j]
  <2>1. CASE j < k
    BY <1>1, <2>1 DEF new
  <2>2. CASE j > k
    <3>1. j - 1 \in 1 .. Len(list) - 1 /\ ~(j - 1 < k) /\ (j - 1) + 1 = j
      BY <1>1, <2>2
    <3>2. j - 1 \in DOMAIN new /\ new[j - 1] = list[j]
      BY <1>1, <3>1 DEF new
    <3> QED
      BY <3>2
  <2> QED
    BY <1>1, <1>3, <2>1, <2>2
<1> QED
  BY <1>2, <1>3 DEF IdsOf, new

LEMMA IdsAppend ==
  ASSUME NEW list \in Seq(Item), NEW it \in Item
  PROVE  IdsOf(Append(list, it)) = IdsOf(list) \cup {it.id}
<1>1. /\ DOMAIN Append(list, it) = DOMAIN list \cup {Len(list) + 1} /\ Append(list, it)[Len(list) + 1] = it
      /\ \A k \in DOMAIN list : Append(list, it)[k] = list[k]
  BY AppendAt
<1> DEFINE new == Append(list, it)
<1> HIDE DEF new
<1>2. IdsOf(new) = IdsOf(list) \cup {it.id}
  BY <1>1 DEF IdsOf, new
<1> QED
  BY <1>2 DEF new

\* What shortens or renames the list has queued its save().
LEMMA StepSaveIsComing ==
  TypeOK /\ LoadIsSettled /\ LoadComesFirst /\ SaveIsComing /\ [Next]_vars => SaveIsComing'
<1> SUFFICES ASSUME TypeOK, LoadIsSettled, LoadComesFirst, SaveIsComing, [Next]_vars PROVE SaveIsComing'
  OBVIOUS
<1> USE DEF storage, screen, history, vars
<1>1. ASSUME ~loaded' \/ "late" \in mishap' PROVE SaveIsComing'
  BY <1>1 DEF SaveIsComing
<1>2. ASSUME prefs'.data = items' PROVE SaveIsComing'
  BY <1>2 DEF SaveIsComing
<1>3. ASSUME prefs'.data = prefs.data, loaded' = loaded, mishap \subseteq mishap', Unpriced(items') = Unpriced(items),
             Waits("save") => Waits("save")' PROVE SaveIsComing'
  BY <1>3, UnpricedIds DEF SaveIsComing
<1>4. ASSUME prefs'.data = prefs.data, loaded' = loaded, mishap \subseteq mishap', IdsOf(items') \subseteq IdsOf(items),
             Waits("save")' PROVE SaveIsComing'
  BY <1>4 DEF SaveIsComing
<1>5. ASSUME UNCHANGED <<prefs, loaded, items, pending>>, mishap \subseteq mishap' PROVE SaveIsComing'
  BY <1>3, <1>5, WaitsSame
<1>6. CASE OpenCheckout \/ Back \/ Kill
  BY <1>1, <1>6 DEF OpenCheckout, Back, Kill, Leave
<1>7. ASSUME NEW p \in Products, NEW u \in 1 .. MaxUnits, AddProduct(p, u) PROVE SaveIsComing'
  BY <1>1, <1>7 DEF AddProduct, LoadComesFirst
<1>8. ASSUME NEW i \in DOMAIN items, AddUnit(i) \/ SubUnit(i) PROVE SaveIsComing'
  <2>1. PICK d \in Int : SetUnits(i, d)
    BY <1>8 DEF AddUnit, SubUnit
  <2>2. Unpriced(items') = Unpriced(items)
    BY <2>1, SetUnitsEffect
  <2> QED
    BY <1>3, <2>1, <2>2, WaitsSame DEF SetUnits
<1>9. ASSUME NEW i \in DOMAIN items, Remove(i) PROVE SaveIsComing'
  <2>1. IdsOf(items') \subseteq IdsOf(items)
    BY <1>9, IdsWithout DEF Remove, TypeOK
  <2>2. Waits("save")'
    BY <1>9, WaitsAppend DEF Remove, Task
  <2> QED
    BY <1>4, <1>9, <2>1, <2>2 DEF Remove
<1>10. ASSUME EmptyCart, prefs' = prefs, loaded' = loaded, mishap' = mishap PROVE SaveIsComing'
  <2>1. IdsOf(items') \subseteq IdsOf(items)
    BY <1>10, NoIds DEF EmptyCart
  <2>2. Waits("save")'
    BY <1>10, WaitsAppend DEF EmptyCart, Task
  <2> QED
    BY <1>4, <1>10, <2>1, <2>2
<1>11. CASE Clear
  BY <1>10, <1>11 DEF Clear
<1>12. CASE RecreateRows \/ OrderRefused \/ PrefsReady \/ UNCHANGED vars
  BY <1>5, <1>12 DEF RecreateRows, OrderRefused, PrefsReady
<1>13. CASE OrderSent
  <2>1. Waits("save") => Waits("save")'
    BY <1>13, WaitsAppend DEF OrderSent, CreateMessangeSend, Task
  <2> QED
    BY <1>3, <1>13, <2>1 DEF OrderSent, CreateMessangeSend
<1>14. ASSUME NEW b \in BOOLEAN, SetDelivery(b) PROVE SaveIsComing'
  BY <1>5, <1>14 DEF SetDelivery
<1>15. ASSUME NEW r \in Rounds, RunLoad(r) PROVE SaveIsComing'
  BY <1>2, <1>15 DEF RunLoad
<1>16. CASE RunSave
  <2>1. prefs'.data = items'
    BY <1>16 DEF RunSave, SetString, TypeOK
  <2> QED
    BY <1>2, <2>1
<1>17. CASE RunSaveInRepeat
  <2>1. prefs'.data = prefs.data /\ UNCHANGED <<items, loaded, mishap>> /\ Run("saveInRepeat")
    BY <1>17 DEF RunSaveInRepeat, SetString, TypeOK
  <2> QED
    BY <1>3, <2>1, WaitsRun
<1>18. ASSUME NEW q \in queries, Found(q) PROVE SaveIsComing'
  <2>1. Unpriced(items') = Unpriced(items)
    BY <1>18, FoundEffect
  <2> QED
    BY <1>3, <1>18, <2>1, WaitsSame DEF Found
<1>19. ASSUME NEW q \in queries, NotFound(q) PROVE SaveIsComing'
  <2>1. CASE q.index \in DOMAIN items
    <3>1. IdsOf(items') = IdsOf(items)
      BY <1>19, NotFoundEffect, SameIds
    <3>2. pending' = pending \o <<"save", "load">> /\ pending \in Seq(Task)
      BY <1>19, <2>1 DEF NotFound, TypeOK
    <3>3. Len(pending) + 1 \in DOMAIN pending' /\ pending'[Len(pending) + 1] = "save"
      BY <3>2
    <3>4. Waits("save")'
      BY <3>3 DEF Waits
    <3> QED
      BY <1>4, <1>19, <3>1, <3>4 DEF NotFound
  <2>2. CASE q.index \notin DOMAIN items
    BY <1>5, <1>19, <2>2 DEF NotFound
  <2> QED
    BY <2>1, <2>2
<1>20. ASSUME NEW q \in queries, Matched(q) \/ QueryFails(q) PROVE SaveIsComing'
  BY <1>5, <1>20 DEF Matched, QueryFails
<1>21. ASSUME NEW w \in {diskQ[i] : i \in DOMAIN diskQ}, DiskWrite(w) PROVE SaveIsComing'
  BY <1>5, <1>21 DEF DiskWrite
<1>22. ASSUME NEW w \in {diskQ[i] : i \in DOMAIN diskQ}, RepeatSaved(w) PROVE SaveIsComing'
  BY <1>10, <1>22 DEF RepeatSaved
<1>23. ASSUME NEW w \in {diskQ[i] : i \in DOMAIN diskQ}, RepeatSavedLate(w) PROVE SaveIsComing'
  BY <1>1, <1>23 DEF RepeatSavedLate
<1>24. ASSUME NEW p \in Promotions, Withdraw(p) \/ Publish(p) PROVE SaveIsComing'
  BY <1>5, <1>24 DEF Withdraw, Publish
<1> QED
  BY <1>6, <1>7, <1>8, <1>9, <1>11, <1>12, <1>13, <1>14, <1>15, <1>16, <1>17, <1>18, <1>19,
     <1>20, <1>21, <1>22, <1>23, <1>24
     DEF Next, User, Microtask, Answer, Platform, Restaurant

\* What every invariant below rests on.
Settled == TypeOK /\ LoadIsSettled /\ LoadComesFirst /\ SaveIsComing

LEMMA InitSettled == Init => Settled
<1> SUFFICES ASSUME Init PROVE Settled
  OBVIOUS
<1> QED
  BY InitTypeOK DEF Settled, Init, LoadIsSettled, LoadComesFirst, SaveIsComing

LEMMA StepSettled == Settled /\ [Next]_vars => Settled'
  BY StepTypeOK, StepLoadIsSettled, StepLoadsFirst, StepSaveIsComing DEF Settled

\* Between events the saved cart and the list on the screen name the same
\* products, at the same prices, in the same order: whatever shortens or renames
\* the list has called save(), and its load() finds what was saved.
THEOREM UnitsAreAllThatIsLost == Spec => []OnlyUnitsUnsaved
<1>1. Settled => OnlyUnitsUnsaved
  <2> SUFFICES ASSUME Settled, open, loaded, Quiet, "late" \notin mishap
               PROVE  Unpriced(prefs.data) = Unpriced(items)
    BY DEF OnlyUnitsUnsaved
  <2>1. ready
    BY DEF Settled, LoadComesFirst
  <2> QED
    BY <2>1, NothingWaits DEF Settled, SaveIsComing
<1> QED
  BY <1>1, InitSettled, StepSettled, PTL DEF Spec

-----------------------------------------------------------------------------

\* Another action than Kill and an order leaves the record of the last order.
LEMMA StepCopyIsComing == Settled /\ CopyIsComing /\ [Next]_vars => CopyIsComing'
<1> SUFFICES ASSUME Settled, CopyIsComing, [Next]_vars PROVE CopyIsComing'
  OBVIOUS
<1> USE DEF storage, screen, history, vars
<1>0. TypeOK /\ LoadIsSettled /\ LoadComesFirst
  BY DEF Settled
<1>1. ASSUME ~Waits("saveInRepeat"), ~Waits("saveInRepeat")', last' = last, prefs'.repeat = prefs.repeat
      PROVE  CopyIsComing'
  BY <1>1 DEF CopyIsComing
<1>2. ASSUME Quiet, last.loaded PROVE ~Waits("saveInRepeat")
  BY <1>2, NothingWaits DEF CopyIsComing
<1>3. ASSUME ~last'.loaded PROVE CopyIsComing'
  BY <1>3 DEF CopyIsComing
<1>4. ASSUME Quiet, last' = last, prefs'.repeat = prefs.repeat, Waits("saveInRepeat")' => Waits("saveInRepeat")
      PROVE  CopyIsComing'
  BY <1>1, <1>2, <1>3, <1>4
<1>5. ASSUME Quiet, UNCHANGED <<last, prefs, pending>> PROVE CopyIsComing'
  BY <1>4, <1>5, WaitsSame
<1>6. CASE OpenCheckout \/ Clear
  <2>1. Quiet /\ UNCHANGED <<last, prefs>> /\ \E t \in {"load", "save"} : pending' = Append(pending, t)
    BY <1>6 DEF OpenCheckout, Clear, EmptyCart, Event
  <2> QED
    BY <1>0, <1>4, <2>1, WaitsAppend DEF Task
<1>7. CASE Back \/ RecreateRows \/ OrderRefused
  BY <1>5, <1>7 DEF Back, RecreateRows, OrderRefused, Event
<1>8. ASSUME NEW p \in Products, NEW u \in 1 .. MaxUnits, AddProduct(p, u) PROVE CopyIsComing'
  <2>1. Quiet /\ last' = last /\ prefs'.repeat = prefs.repeat /\ pending' = pending
    BY <1>0, <1>8 DEF AddProduct, SetString, TypeOK
  <2> QED
    BY <1>4, <2>1, WaitsSame
<1>9. ASSUME NEW i \in DOMAIN items, AddUnit(i) \/ SubUnit(i) PROVE CopyIsComing'
  BY <1>5, <1>9 DEF AddUnit, SubUnit, SetUnits, Event
<1>10. ASSUME NEW i \in DOMAIN items, Remove(i) PROVE CopyIsComing'
  <2>1. Quiet /\ UNCHANGED <<last, prefs>> /\ pending' = Append(pending, "save")
    BY <1>10 DEF Remove, Event
  <2> QED
    BY <1>0, <1>4, <2>1, WaitsAppend DEF Task
<1>11. CASE OrderSent
  <2>1. last' = [items |-> items, loaded |-> loaded, live |-> TRUE, durable |-> IdsOf(items) \cap IdsOf(disk.data)]
    BY <1>11 DEF OrderSent, CreateMessangeSend
  <2>2. last'.items = items /\ last'.loaded = loaded /\ last'.durable \subseteq IdsOf(last'.items)
    BY <2>1
  <2>3. CASE loaded
    <3>1. pending = <<>> /\ ready
      BY <1>0, <1>11, <2>3, EventSettles DEF OrderSent, Event
    <3>2. pending' = <<"saveInRepeat">> /\ UNCHANGED <<ready, loaded, items>>
      BY <1>11, <3>1 DEF OrderSent, CreateMessangeSend
    <3>3. Waits("saveInRepeat")'
      BY <3>2 DEF Waits
    <3> QED
      BY <2>2, <2>3, <3>1, <3>2, <3>3 DEF CopyIsComing
  <2>4. CASE ~loaded
    BY <1>3, <2>2, <2>4
  <2> QED
    BY <2>3, <2>4
<1>12. ASSUME NEW b \in BOOLEAN, SetDelivery(b) PROVE CopyIsComing'
  BY <1>5, <1>12 DEF SetDelivery, Event
<1>13. ASSUME NEW t, Run(t), t # "saveInRepeat", last' = last, prefs'.repeat = prefs.repeat PROVE CopyIsComing'
  <2>1. CASE last.loaded
    <3>1. ~Waits("saveInRepeat")
      BY <1>0, <1>13, <2>1, RunMovesUp DEF CopyIsComing
    <3> QED
      BY <1>0, <1>1, <1>13, <3>1, WaitsRun
  <2>2. CASE ~last.loaded
    BY <1>3, <1>13, <2>2
  <2> QED
    BY <2>1, <2>2
<1>14. ASSUME NEW r \in Rounds, RunLoad(r) PROVE CopyIsComing'
  BY <1>13, <1>14 DEF RunLoad
<1>15. CASE RunSave
  <2>1. Run("save") /\ last' = last /\ prefs'.repeat = prefs.repeat
    BY <1>0, <1>15 DEF RunSave, SetString, TypeOK
  <2> QED
    BY <1>13, <2>1
<1>16. CASE RunSaveInRepeat
  <2>1. Run("saveInRepeat") /\ last' = last /\ prefs'.repeat = items
    BY <1>0, <1>16 DEF RunSaveInRepeat, SetString, TypeOK
  <2>2. CASE last.loaded
    <3>1. Waits("saveInRepeat")
      BY <1>0, <2>1, RunMovesUp DEF Waits
    <3>2. pending = <<"saveInRepeat">> /\ items = last.items /\ last.durable \subseteq IdsOf(last.items)
      BY <2>2, <3>1 DEF CopyIsComing
    <3>3. pending' = <<>>
      BY <2>1, <3>2 DEF Run
    <3>4. ~Waits("saveInRepeat")'
      BY <3>3 DEF Waits
    <3> QED
      BY <2>1, <3>2, <3>4 DEF CopyIsComing
  <2>3. CASE ~last.loaded
    BY <1>3, <2>1, <2>3
  <2> QED
    BY <2>2, <2>3
<1>17. CASE PrefsReady
  <2>1. UNCHANGED <<last, prefs, pending>> /\ ~ready
    BY <1>17 DEF PrefsReady
  <2>2. CASE last.loaded
    BY <1>1, <2>1, <2>2, WaitsSame DEF CopyIsComing
  <2>3. CASE ~last.loaded
    BY <1>3, <2>1, <2>3
  <2> QED
    BY <2>2, <2>3
<1>18. ASSUME NEW q \in queries, Found(q) \/ Matched(q) \/ QueryFails(q) PROVE CopyIsComing'
  BY <1>5, <1>18 DEF Found, Matched, QueryFails, Event
<1>19. ASSUME NEW q \in queries, NotFound(q) PROVE CopyIsComing'
  <2>1. Quiet /\ ready /\ UNCHANGED <<last, prefs>>
    BY <1>0, <1>19 DEF NotFound, Event, LoadIsSettled
  <2>2. pending = <<>>
    BY <2>1 DEF Quiet
  <2>3. pending' = pending \/ pending' = <<"save", "load">>
    BY <1>19, <2>2 DEF NotFound
  <2>4. ~Waits("saveInRepeat")'
    BY <2>2, <2>3 DEF Waits
  <2> QED
    BY <1>4, <2>1, <2>4
<1>20. ASSUME NEW w \in {diskQ[i] : i \in DOMAIN diskQ}, DiskWrite(w) PROVE CopyIsComing'
  BY <1>5, <1>20 DEF DiskWrite, Acknowledge
<1>21. ASSUME NEW w \in {diskQ[i] : i \in DOMAIN diskQ}, RepeatSaved(w) PROVE CopyIsComing'
  <2>1. Quiet /\ UNCHANGED <<last, prefs>> /\ pending' = Append(pending, "save")
    BY <1>21 DEF RepeatSaved, Acknowledge, EmptyCart
  <2> QED
    BY <1>0, <1>4, <2>1, WaitsAppend DEF Task
<1>22. ASSUME NEW w \in {diskQ[i] : i \in DOMAIN diskQ}, RepeatSavedLate(w) PROVE CopyIsComing'
  <2>1. Quiet /\ last' = last /\ prefs'.repeat = prefs.repeat /\ pending' = pending
    BY <1>0, <1>22 DEF RepeatSavedLate, Acknowledge, TypeOK
  <2> QED
    BY <1>4, <2>1, WaitsSame
<1>23. ASSUME NEW p \in Promotions, Withdraw(p) \/ Publish(p) PROVE CopyIsComing'
  BY <1>5, <1>23 DEF Withdraw, Publish
<1>24. CASE Kill
  <2>1. last' = [last EXCEPT !.live = FALSE] /\ pending' = <<>>
    BY <1>24 DEF Kill
  <2>2. last'.items = last.items /\ last'.loaded = last.loaded /\ last'.durable = last.durable /\ ~last'.live
    BY <1>0, <2>1 DEF TypeOK
  <2>3. ~Waits("saveInRepeat")'
    BY <2>1 DEF Waits
  <2> QED
    BY <2>2, <2>3 DEF CopyIsComing
<1>25. CASE UNCHANGED vars
  BY <1>25 DEF CopyIsComing, Waits
<1> QED
  BY <1>6, <1>7, <1>8, <1>9, <1>10, <1>11, <1>12, <1>14, <1>15, <1>16, <1>17, <1>18, <1>19,
     <1>20, <1>21, <1>22, <1>23, <1>24, <1>25
     DEF Next, User, Microtask, Answer, Platform, Restaurant

LEMMA InitCopyIsComing == Init => CopyIsComing
  BY DEF Init, CopyIsComing

\* The list "repeat the last order" offers is the one that was sent last from a
\* loaded screen, until the process dies: nothing runs between the order and
\* the encoding of its copy, although an await stands between them.
THEOREM RepeatOffersLastOrder == Spec => []RepeatIsLastOrder
<1>1. CopyIsComing => RepeatIsLastOrder
  BY NothingWaits DEF CopyIsComing, RepeatIsLastOrder
<1> QED
  BY <1>1, InitSettled, StepSettled, InitCopyIsComing, StepCopyIsComing, PTL DEF Spec

-----------------------------------------------------------------------------
(* No product is lost *)

LEMMA InitNothingIsLost == Init => NothingIsLost
  BY DEF Init, NothingIsLost, Accounted, Waits

LEMMA MishapStays == [Next]_vars => mishap \subseteq mishap'
<1> SUFFICES ASSUME [Next]_vars PROVE mishap \subseteq mishap'
  OBVIOUS
<1> USE DEF storage, screen, history, vars
<1>1. CASE User
  BY <1>1 DEF User, AddProduct, OpenCheckout, Back, AddUnit, SubUnit, SetUnits, Remove, Clear, RecreateRows,
     OrderRefused, OrderSent, SetDelivery
<1>2. CASE Microtask \/ PrefsReady \/ Answer \/ Restaurant \/ Kill \/ UNCHANGED vars
  BY <1>2 DEF Microtask, RunLoad, RunSave, RunSaveInRepeat, PrefsReady, Answer, Found, NotFound, Matched, QueryFails,
     Restaurant, Withdraw, Publish, Kill
<1>3. CASE Platform
  BY <1>3 DEF Platform, DiskWrite, RepeatSaved, RepeatSavedLate
<1> QED
  BY <1>1, <1>2, <1>3 DEF Next

\* A copy that was acknowledged was on its way.
LEMMA AcknowledgedCopy ==
  ASSUME TypeOK, NEW w, RepeatSaved(w)
  PROVE  w.val \in CopyLists /\ disk'.repeat = w.val /\ disk'.data = disk.data
<1>1. diskQ # <<>> /\ w = Head(diskQ) /\ w.key = "repeat" /\ w.live /\ disk' = [disk EXCEPT ![w.key] = w.val]
  BY DEF RepeatSaved, Acknowledge
<1>2. 1 \in DOMAIN diskQ /\ w = diskQ[1]
  BY <1>1, TailAt DEF TypeOK
<1>3. disk'.repeat = w.val /\ disk'.data = disk.data
  BY <1>1 DEF TypeOK
<1> QED
  BY <1>1, <1>2, <1>3 DEF CopyLists, Copy

LEMMA StepNothingIsLost == Settled /\ NothingIsLost /\ [Next]_vars => NothingIsLost'
<1> SUFFICES ASSUME Settled, NothingIsLost, [Next]_vars, mishap' = {} PROVE NothingIsLost'
  BY DEF NothingIsLost
<1> USE DEF storage, screen, history, vars
<1>0. TypeOK /\ LoadIsSettled /\ LoadComesFirst
  BY DEF Settled
<1>1. /\ Accounted(prefs.data) /\ (loaded => Accounted(items)) /\ (Waits("saveInRepeat") => loaded)
      /\ Waits("saveInRepeat") \/ CopyLists # {} => IdsOf(items) \subseteq ordered
      /\ ~loaded => CopyLists = {}
  <2>1. mishap = {}
    BY MishapStays
  <2> QED
    BY <1>0, <2>1, CopyListsParts DEF NothingIsLost, LoadComesFirst
<1>2. ASSUME Accounted(prefs.data)', loaded' => Accounted(items)', Waits("saveInRepeat")' => loaded',
             Waits("saveInRepeat")' \/ CopyLists' # {} => IdsOf(items') \subseteq ordered'
      PROVE  NothingIsLost'
  BY <1>2, CopyListsOnceMore DEF NothingIsLost
<1>3. ASSUME nextId' = nextId, prefs'.data = prefs.data, loaded' = loaded,
             discarded \subseteq discarded', ordered \subseteq ordered',
             Waits("saveInRepeat")' => Waits("saveInRepeat"), CopyLists' \subseteq CopyLists,
             IdsOf(items') \subseteq IdsOf(items),
             IdsOf(items) \subseteq IdsOf(items') \cup discarded' \cup ordered'
      PROVE  NothingIsLost'
  <2>1. Accounted(prefs.data)' /\ (loaded' => Accounted(items)')
    BY <1>1, <1>3 DEF Accounted
  <2> QED
    BY <1>1, <1>2, <1>3, <2>1
<1>4. ASSUME nextId' = nextId, prefs'.data = prefs.data, loaded' = loaded,
             discarded \subseteq discarded', ordered \subseteq ordered',
             Waits("saveInRepeat")' => Waits("saveInRepeat"), diskQ' = diskQ,
             IdsOf(items') = IdsOf(items)
      PROVE  NothingIsLost'
  BY <1>3, <1>4 DEF CopyLists, Copy
<1>5. ASSUME UNCHANGED <<storage, items, loaded, pending, nextId, discarded, ordered>>
      PROVE  NothingIsLost'
  BY <1>4, <1>5, WaitsSame
<1>6. ASSUME NEW p \in Products, NEW u \in 1 .. MaxUnits, AddProduct(p, u) PROVE NothingIsLost'
  <2>1. nextId \in Ids /\ u \in Int /\ nextId \in Nat \ {0}
    BY <1>0, <1>6, BoundsAssumption DEF AddProduct, TypeOK, Ids
  <2>2. NewItem(nextId, p, u) \in Item /\ NewItem(nextId, p, u).id = nextId
    BY <2>1, NewItemIsItem DEF NewItem
  <2>3. prefs'.data = Append(prefs.data, NewItem(nextId, p, u)) /\ prefs.data \in Seq(Item)
    BY <1>0, <1>6 DEF AddProduct, SetString, TypeOK
  <2>4. IdsOf(prefs'.data) = IdsOf(prefs.data) \cup {nextId}
    BY <2>2, <2>3, IdsAppend
  <2>5. nextId' = nextId + 1 /\ UNCHANGED <<discarded, ordered, loaded, pending, items>> /\ ~loaded
    BY <1>0, <1>6 DEF AddProduct, LoadComesFirst
  <2>6. 1 .. nextId' - 1 = (1 .. nextId - 1) \cup {nextId}
    BY <2>1, <2>5
  <2>7. Accounted(prefs.data)'
    BY <1>1, <2>4, <2>5, <2>6 DEF Accounted
  <2>8. ~RunSaveInRepeat
    BY <1>0, <1>6, EventSettles DEF AddProduct, RunSaveInRepeat, Run
  <2>9. CopyLists' = {}
    BY <1>0, <1>1, <2>5, <2>8, CopyListsStep
  <2>10. ~Waits("saveInRepeat")'
    BY <1>1, <2>5, WaitsSame
  <2> QED
    BY <1>2, <2>5, <2>7, <2>9, <2>10
<1>7. CASE OpenCheckout \/ Back
  <2>1. Quiet /\ ~loaded' /\ UNCHANGED <<prefs, nextId, discarded, ordered>>
    BY <1>7 DEF OpenCheckout, Back, Event, Leave
  <2>2. Accounted(prefs.data)'
    BY <1>1, <2>1 DEF Accounted
  <2>3. CopyLists' = {} /\ ~Waits("saveInRepeat")'
    <3>1. CASE OpenCheckout
      <4>1. pending = <<>> /\ ~loaded /\ pending' = Append(pending, "load") /\ diskQ' = diskQ
        BY <1>0, <3>1, EventSettles DEF OpenCheckout
      <4>2. pending' = <<"load">> /\ CopyLists' = CopyLists
        BY <4>1 DEF CopyLists, Copy
      <4> QED
        BY <1>1, <4>1, <4>2 DEF Waits
    <3>2. CASE Back
      <4>1. CopyLists' = {}
        BY <1>0, <3>2, CopyListsStep
      <4>2. ~Waits("saveInRepeat")
        BY <2>1, <3>2, NothingWaits DEF Back
      <4> QED
        BY <3>2, <4>1, <4>2, WaitsSame DEF Back
    <3> QED
      BY <1>7, <3>1, <3>2
  <2> QED
    BY <1>2, <2>1, <2>2, <2>3
<1>8. ASSUME NEW i \in DOMAIN items, AddUnit(i) \/ SubUnit(i) PROVE NothingIsLost'
  <2>1. PICK d \in Int : SetUnits(i, d)
    BY <1>8 DEF AddUnit, SubUnit
  <2>2. IdsOf(items') = IdsOf(items)
    BY <1>0, <2>1, SetUnitsEffect, SameIds
  <2>3. UNCHANGED <<storage, loaded, pending, nextId, discarded, ordered>>
    BY <2>1 DEF SetUnits
  <2> QED
    BY <1>4, <2>2, <2>3, WaitsSame
<1>9. ASSUME NEW i \in DOMAIN items, Remove(i) PROVE NothingIsLost'
  <2>1. /\ IdsOf(items') \subseteq IdsOf(items)
        /\ IdsOf(items) \subseteq IdsOf(items') \cup {items[i].id}
    BY <1>0, <1>9, IdsWithout DEF Remove, TypeOK
  <2>2. pending' = Append(pending, "save") /\ discarded' = discarded \cup {items[i].id}
    BY <1>9 DEF Remove
  <2>3. Waits("saveInRepeat")' => Waits("saveInRepeat")
    BY <1>0, <2>2, WaitsAppend DEF Task
  <2>4. UNCHANGED <<storage, loaded, nextId, ordered>>
    BY <1>9 DEF Remove
  <2>5. CopyLists' = CopyLists
    BY <2>4 DEF CopyLists, Copy
  <2> QED
    BY <1>3, <2>1, <2>2, <2>3, <2>4, <2>5
<1>10. ASSUME EmptyCart, UNCHANGED <<prefs, loaded, nextId>>, discarded \subseteq discarded', ordered \subseteq ordered',
              IdsOf(items) \subseteq discarded' \cup ordered', CopyLists' \subseteq CopyLists
       PROVE  NothingIsLost'
  <2>1. IdsOf(items') = {} /\ pending' = Append(pending, "save")
    BY <1>10, NoIds DEF EmptyCart
  <2>2. Waits("saveInRepeat")' => Waits("saveInRepeat")
    BY <1>0, <2>1, WaitsAppend DEF Task
  <2> QED
    BY <1>3, <1>10, <2>1, <2>2
<1>11. CASE Clear
  <2>1. CopyLists' = CopyLists
    BY <1>11 DEF Clear, CopyLists, Copy
  <2> QED
    BY <1>10, <1>11, <2>1 DEF Clear
<1>12. CASE RecreateRows \/ OrderRefused \/ PrefsReady \/ UNCHANGED vars
  BY <1>5, <1>12 DEF RecreateRows, OrderRefused, CreateMessangeSend, PrefsReady
<1>13. CASE OrderSent
  <2>1. loaded
    BY <1>13 DEF OrderSent, CreateMessangeSend
  <2>2. /\ UNCHANGED <<storage, items, loaded, nextId, discarded>>
        /\ ordered' = ordered \cup IdsOf(items)
    BY <1>13 DEF OrderSent, CreateMessangeSend
  <2>3. Accounted(prefs.data)' /\ Accounted(items)'
    BY <1>1, <2>1, <2>2 DEF Accounted
  <2> QED
    BY <1>2, <2>1, <2>2, <2>3
<1>14. ASSUME NEW b \in BOOLEAN, SetDelivery(b) PROVE NothingIsLost'
  BY <1>5, <1>14 DEF SetDelivery
<1>15. ASSUME NEW r \in Rounds, RunLoad(r) PROVE NothingIsLost'
  <2>1. /\ items' = prefs.data /\ loaded' /\ UNCHANGED <<storage, nextId, discarded, ordered>> /\ Run("load")
    BY <1>15 DEF RunLoad
  <2>2. Accounted(prefs.data)' /\ Accounted(items)'
    BY <1>1, <2>1 DEF Accounted
  <2>3. Waits("saveInRepeat")' => Waits("saveInRepeat")
    BY <1>0, <2>1, WaitsRun
  <2>4. loaded => items' = items
    <3>1. pending[1] = "load" /\ 1 \in DOMAIN pending
      BY <1>0, <2>1, RunMovesUp
    <3> QED
      BY <1>0, <2>1, <3>1 DEF LoadComesFirst
  <2>5. CopyLists' = CopyLists
    BY <2>1 DEF CopyLists, Copy
  <2> QED
    BY <1>1, <1>2, <2>1, <2>2, <2>3, <2>4, <2>5
<1>16. CASE RunSave
  <2>1. prefs'.data = items /\ UNCHANGED <<items, loaded, nextId, discarded, ordered>> /\ Run("save")
    BY <1>0, <1>16 DEF RunSave, SetString, TypeOK
  <2>2. loaded
    BY <1>0, <2>1, RunIsLoaded
  <2>3. Accounted(prefs.data)' /\ Accounted(items)'
    BY <1>1, <2>1, <2>2 DEF Accounted
  <2>4. Waits("saveInRepeat")' => Waits("saveInRepeat")
    BY <1>0, <2>1, WaitsRun
  <2>5. CopyLists' \subseteq CopyLists
    <3>1. ~RunSaveInRepeat
      BY <2>1 DEF RunSaveInRepeat, Run
    <3> QED
      BY <1>0, <3>1, CopyListsStep
  <2> QED
    BY <1>1, <1>2, <2>1, <2>2, <2>3, <2>4, <2>5
<1>17. CASE RunSaveInRepeat
  <2>1. prefs'.data = prefs.data /\ UNCHANGED <<items, loaded, nextId, discarded, ordered>> /\ Run("saveInRepeat")
    BY <1>0, <1>17 DEF RunSaveInRepeat, SetString, TypeOK
  <2>2. loaded
    BY <1>0, <2>1, RunIsLoaded
  <2>3. Waits("saveInRepeat")
    BY <1>0, <2>1, RunMovesUp DEF Waits
  <2>4. Accounted(prefs.data)' /\ Accounted(items)'
    BY <1>1, <2>1, <2>2 DEF Accounted
  <2> QED
    BY <1>1, <1>2, <2>1, <2>2, <2>3, <2>4
<1>18. ASSUME NEW q \in queries, Found(q) PROVE NothingIsLost'
  <2>1. IdsOf(items') = IdsOf(items)
    BY <1>0, <1>18, FoundEffect, SameIds
  <2> QED
    BY <1>4, <1>18, <2>1, WaitsSame DEF Found
<1>19. ASSUME NEW q \in queries, NotFound(q) PROVE NothingIsLost'
  <2>1. IdsOf(items') = IdsOf(items)
    BY <1>0, <1>19, NotFoundEffect, SameIds
  <2>2. Quiet /\ ready
    BY <1>0, <1>19 DEF NotFound, Event, LoadIsSettled
  <2>3. pending = <<>>
    BY <2>2 DEF Quiet
  <2>4. pending' = pending \/ pending' = <<"save", "load">>
    BY <1>19, <2>3 DEF NotFound
  <2>5. ~Waits("saveInRepeat")'
    BY <2>3, <2>4 DEF Waits
  <2> QED
    BY <1>4, <1>19, <2>1, <2>5 DEF NotFound
<1>20. ASSUME NEW q \in queries, Matched(q) \/ QueryFails(q) PROVE NothingIsLost'
  BY <1>5, <1>20 DEF Matched, QueryFails
<1>21. ASSUME NEW w \in {diskQ[i] : i \in DOMAIN diskQ}, DiskWrite(w) PROVE NothingIsLost'
  <2>1. CopyLists' \subseteq CopyLists
    BY <1>0, <1>21, TailCopies DEF DiskWrite, Acknowledge
  <2> QED
    BY <1>3, <1>21, <2>1, WaitsSame DEF DiskWrite
<1>22. ASSUME NEW w \in {diskQ[i] : i \in DOMAIN diskQ}, RepeatSaved(w) PROVE NothingIsLost'
  <2>1. CopyLists' \subseteq CopyLists
    BY <1>0, <1>22, TailCopies DEF RepeatSaved, Acknowledge
  <2>2. IdsOf(items) \subseteq ordered
    BY <1>0, <1>1, <1>22, AcknowledgedCopy
  <2> QED
    BY <1>10, <1>22, <2>1, <2>2 DEF RepeatSaved
<1>23. ASSUME NEW w \in {diskQ[i] : i \in DOMAIN diskQ}, RepeatSavedLate(w) PROVE NothingIsLost'
  BY <1>23 DEF RepeatSavedLate
<1>24. ASSUME NEW p \in Promotions, Withdraw(p) \/ Publish(p) PROVE NothingIsLost'
  BY <1>5, <1>24 DEF Withdraw, Publish
<1>25. CASE Kill
  BY <1>25 DEF Kill
<1> QED
  BY <1>6, <1>7, <1>8, <1>9, <1>11, <1>12, <1>13, <1>14, <1>15, <1>16, <1>17, <1>18, <1>19,
     <1>20, <1>21, <1>22, <1>23, <1>24, <1>25
     DEF Next, User, Microtask, Answer, Platform, Restaurant

\* Without a kill, an order sent before the cart was loaded, a failed query or a
\* late clear, every product ever added is in the saved cart, was ordered, or
\* was removed by the customer: no two saves overtake each other.
THEOREM ProductsAreAccountedFor == Spec => []EveryProductAccounted
<1>1. NothingIsLost => EveryProductAccounted
  BY DEF NothingIsLost, EveryProductAccounted, Accounted
<1> QED
  BY <1>1, InitSettled, StepSettled, InitNothingIsLost, StepNothingIsLost, PTL DEF Spec

-----------------------------------------------------------------------------
(* A kill leaves the order in one list or the other *)

\* The pending writes of the cart, and what joins or leaves them.
LEMMA WrittenAppend ==
  ASSUME TypeOK, NEW key \in {"data", "repeat"}, NEW val \in Seq(Item), SetString(key, val)
  PROVE  /\ DOMAIN diskQ' = DOMAIN diskQ \cup {Len(diskQ) + 1}
         /\ diskQ'[Len(diskQ) + 1].key = key /\ diskQ'[Len(diskQ) + 1].val = val
         /\ \A k \in DOMAIN diskQ : diskQ'[k] = diskQ[k] /\ k < Len(diskQ) + 1
<1> DEFINE w == [key |-> key, val |-> val, live |-> TRUE]
<1>1. w \in Write /\ w.key = key /\ w.val = val
  BY DEF Write
<1>2. diskQ' = Append(diskQ, w)
  BY DEF SetString
<1> HIDE DEF w
<1>3. diskQ \in Seq(Write)
  BY DEF TypeOK
<1>4. \A k \in DOMAIN diskQ : k < Len(diskQ) + 1
  BY <1>3
<1> QED
  BY <1>1, <1>2, <1>3, <1>4, AppendAt

\* A cart written from one that has the product, or taken a new one, keeps the
\* order of writes.
LEMMA CartWriteOrdered ==
  ASSUME TypeOK, WritesAreOrdered, NEW val \in Seq(Item), SetString("data", val), disk' = disk,
         \A id \in IdsOf(val) : \/ id \in IdsOf(prefs.data)
                                \/ \A list \in SavedLists : id \notin IdsOf(list)
  PROVE  WritesAreOrdered'
<1>1. /\ DOMAIN diskQ' = DOMAIN diskQ \cup {Len(diskQ) + 1}
      /\ diskQ'[Len(diskQ) + 1].key = "data" /\ diskQ'[Len(diskQ) + 1].val = val
      /\ \A k \in DOMAIN diskQ : diskQ'[k] = diskQ[k] /\ k < Len(diskQ) + 1
  BY WrittenAppend
<1>2. prefs'.data = val
  BY DEF SetString, TypeOK
<1>3. DOMAIN diskQ \subseteq Nat /\ Len(diskQ) \in Nat
  BY DEF TypeOK
<1>4. ASSUME NEW id \in IdsOf(val)
      PROVE  /\ id \in IdsOf(disk.data) => Written(id)'
             /\ \A j, k \in DOMAIN diskQ' :
                  j < k /\ diskQ'[j].key = "data" /\ diskQ'[k].key = "data" /\ id \in IdsOf(diskQ'[j].val)
                    => id \in IdsOf(diskQ'[k].val)
  <2>1. CASE id \in IdsOf(prefs.data)
    <3>1. id \in IdsOf(disk.data) => Written(id)'
      BY <1>1, <1>4, <2>1 DEF WritesAreOrdered, Written
    <3>2. ASSUME NEW j \in DOMAIN diskQ', NEW k \in DOMAIN diskQ', j < k,
                 diskQ'[j].key = "data", diskQ'[k].key = "data", id \in IdsOf(diskQ'[j].val)
          PROVE  id \in IdsOf(diskQ'[k].val)
      <4>1. CASE k = Len(diskQ) + 1
        BY <1>1, <1>4, <4>1
      <4>2. CASE k \in DOMAIN diskQ
        <5>1. j \in DOMAIN diskQ
          BY <1>1, <1>3, <3>2, <4>2
        <5> QED
          BY <1>1, <2>1, <3>2, <4>2, <5>1 DEF WritesAreOrdered
      <4> QED
        BY <1>1, <4>1, <4>2
    <3> QED
      BY <3>1, <3>2
  <2>2. CASE \A list \in SavedLists : id \notin IdsOf(list)
    <3>1. id \notin IdsOf(disk.data)
      BY <2>2 DEF SavedLists
    <3>2. \A j \in DOMAIN diskQ : diskQ[j].key = "data" => id \notin IdsOf(diskQ[j].val)
      BY <2>2 DEF SavedLists
    <3>3. ASSUME NEW j \in DOMAIN diskQ', NEW k \in DOMAIN diskQ', j < k,
                 diskQ'[j].key = "data", diskQ'[k].key = "data", id \in IdsOf(diskQ'[j].val)
          PROVE  id \in IdsOf(diskQ'[k].val)
      <4>1. j = Len(diskQ) + 1
        BY <1>1, <3>2, <3>3
      <4> QED
        BY <1>1, <1>3, <3>3, <4>1
    <3> QED
      BY <3>1, <3>3
  <2> QED
    BY <1>4, <2>1, <2>2
<1> QED
  BY <1>2, <1>4 DEF WritesAreOrdered

\* A copy among the writes does not disturb them.
LEMMA CopyWriteOrdered ==
  ASSUME TypeOK, NEW val \in Seq(Item), SetString("repeat", val), disk' = disk
  PROVE  /\ prefs'.data = prefs.data
         /\ \A id : Written(id) => Written(id)'
         /\ WritesAreOrdered => WritesAreOrdered'
<1>1. /\ DOMAIN diskQ' = DOMAIN diskQ \cup {Len(diskQ) + 1}
      /\ diskQ'[Len(diskQ) + 1].key = "repeat"
      /\ \A k \in DOMAIN diskQ : diskQ'[k] = diskQ[k]
  BY WrittenAppend
<1>2. prefs'.data = prefs.data
  BY DEF SetString, TypeOK
<1>3. \A id : Written(id) => Written(id)'
  BY <1>1 DEF Written
<1>4. \A k \in DOMAIN diskQ' : diskQ'[k].key = "data" => k \in DOMAIN diskQ
  BY <1>1
<1>5. ASSUME WritesAreOrdered, NEW id \in IdsOf(prefs.data), NEW j \in DOMAIN diskQ', NEW k \in DOMAIN diskQ', j < k,
             diskQ'[j].key = "data", diskQ'[k].key = "data", id \in IdsOf(diskQ'[j].val)
      PROVE  id \in IdsOf(diskQ'[k].val)
  BY <1>1, <1>4, <1>5 DEF WritesAreOrdered
<1> QED
  BY <1>2, <1>3, <1>5 DEF WritesAreOrdered

\* The oldest write moves to the disk, the others move up.
LEMMA AcknowledgeOrdered ==
  ASSUME TypeOK, WritesAreOrdered, NEW w, Acknowledge(w), diskQ' = Tail(diskQ), prefs' = prefs
  PROVE  /\ WritesAreOrdered'
         /\ \A id : Written(id) => Written(id)' /\ (id \in IdsOf(disk.data) => id \in IdsOf(disk'.data))
<1>1. diskQ # <<>> /\ diskQ \in Seq(Write)
  BY DEF Acknowledge, TypeOK
<1>2. /\ 1 \in DOMAIN diskQ /\ w = diskQ[1]
      /\ \A k \in DOMAIN diskQ' : k + 1 \in DOMAIN diskQ /\ diskQ'[k] = diskQ[k + 1]
  BY <1>1, TailAt DEF Acknowledge
<1>3. disk'.data = IF w.key = "data" THEN w.val ELSE disk.data
  <2>1. w \in Write
    BY <1>1, <1>2
  <2> QED
    BY <2>1 DEF Acknowledge, TypeOK, Write
<1>4. \A id : Written(id) => Written(id)' /\ (id \in IdsOf(disk.data) => id \in IdsOf(disk'.data))
  BY <1>2, <1>3 DEF Written
<1>5. DOMAIN diskQ' \subseteq Nat \ {0}
  <2>1. Tail(diskQ) \in Seq(Write)
    BY <1>1, TailAt
  <2> QED
    BY <2>1
<1>6. ASSUME NEW id \in IdsOf(prefs.data), id \in IdsOf(disk'.data) PROVE Written(id)'
  <2>1. CASE w.key = "data"
    <3>1. ASSUME NEW k \in DOMAIN diskQ', diskQ'[k].key = "data" PROVE id \in IdsOf(diskQ'[k].val)
      <4>1. k + 1 \in DOMAIN diskQ /\ 1 < k + 1 /\ diskQ'[k] = diskQ[k + 1]
        BY <1>2, <1>5
      <4> QED
        BY <1>2, <1>3, <1>6, <2>1, <3>1, <4>1 DEF WritesAreOrdered
    <3> QED
      BY <3>1 DEF Written
  <2>2. CASE w.key # "data"
    BY <1>3, <1>4, <1>6, <2>2 DEF WritesAreOrdered
  <2> QED
    BY <2>1, <2>2
<1>7. ASSUME NEW id \in IdsOf(prefs.data), NEW j \in DOMAIN diskQ', NEW k \in DOMAIN diskQ', j < k,
             diskQ'[j].key = "data", diskQ'[k].key = "data", id \in IdsOf(diskQ'[j].val)
      PROVE  id \in IdsOf(diskQ'[k].val)
  <2>1. j + 1 < k + 1
    BY <1>5, <1>7
  <2> QED
    BY <1>2, <1>7, <2>1 DEF WritesAreOrdered
<1> QED
  BY <1>4, <1>6, <1>7 DEF WritesAreOrdered

\* Leaving the screen turns its copies late; the writes stay what they were.
LEMMA BackOrdered ==
  ASSUME TypeOK, Back
  PROVE  /\ \A id : Written(id) => Written(id)'
         /\ WritesAreOrdered => WritesAreOrdered'
<1>1. DOMAIN diskQ' = DOMAIN diskQ /\ prefs' = prefs /\ disk' = disk
  BY DEF Back, TypeOK
<1>2. ASSUME NEW k \in DOMAIN diskQ PROVE diskQ'[k].key = diskQ[k].key /\ diskQ'[k].val = diskQ[k].val
  <2>1. ASSUME NEW w \in Write, NEW b \in BOOLEAN
        PROVE  [w EXCEPT !.live = b].key = w.key /\ [w EXCEPT !.live = b].val = w.val
    BY DEF Write
  <2>2. PICK b \in BOOLEAN : b = (diskQ[k].key = "data")
    OBVIOUS
  <2>3. diskQ[k] \in Write
    BY DEF TypeOK
  <2>4. diskQ'[k] = [diskQ[k] EXCEPT !.live = (diskQ[k].key = "data")]
    BY DEF Back, TypeOK
  <2>5. diskQ'[k] = [diskQ[k] EXCEPT !.live = b]
    BY <2>2, <2>4, Zenon
  <2> QED
    BY <2>1, <2>3, <2>5
<1> HIDE DEF Back
<1> QED
  BY <1>1, <1>2 DEF Written, WritesAreOrdered

\* A product of the last order is in the cart's lists or in the copies.
CopiesHold == \A list \in CopyLists : IdsOf(items) \subseteq IdsOf(list)
Kept(id)   == InCart(id) \/ Copied(id)

LEMMA CopiedParts == \A id : Copied(id) <=> id \in IdsOf(disk.repeat) /\ \A list \in CopyLists : id \in IdsOf(list)
  BY DEF Copied, CopyLists

LEMMA CopiedOnceMore ==
  \A id : Copied(id)' <=> id \in IdsOf(disk'.repeat) /\ \A list \in CopyLists' : id \in IdsOf(list)
  BY DEF Copied, CopyLists

LEMMA OrderIsKeptParts ==
  OrderIsKept <=>
    /\ CopiesHold
    /\ "late" \notin mishap => WritesAreOrdered
    /\ last.loaded /\ "late" \notin mishap => \A id \in last.durable \ discarded : Kept(id)
<1>1. CopiesHold <=> \A k \in DOMAIN diskQ : Copy(k) => IdsOf(items) \subseteq IdsOf(diskQ[k].val)
  BY DEF CopiesHold, CopyLists
<1> QED
  BY <1>1 DEF OrderIsKept, Kept

\* The copies on their way hold all of the list: it only shrinks behind them.
LEMMA StepCopiesHold == Settled /\ CopiesHold /\ [Next]_vars => CopiesHold'
<1> SUFFICES ASSUME Settled, CopiesHold, [Next]_vars PROVE CopiesHold'
  OBVIOUS
<1>0. TypeOK /\ LoadIsSettled /\ LoadComesFirst
  BY DEF Settled
<1>1. ASSUME NEW r \in Rounds, RunLoad(r) PROVE CopiesHold'
  <2>1. items' = prefs.data /\ CopyLists' = CopyLists /\ Run("load")
    BY <1>1 DEF RunLoad, storage, CopyLists, Copy
  <2>2. pending[1] = "load" /\ 1 \in DOMAIN pending
    BY <1>0, <2>1, RunMovesUp
  <2>3. loaded => items' = items
    BY <1>0, <2>1, <2>2 DEF LoadComesFirst
  <2>4. ~loaded => CopyLists = {}
    BY <1>0, CopyListsParts DEF LoadComesFirst
  <2> QED
    BY <2>1, <2>3, <2>4 DEF CopiesHold
<1>2. ASSUME IdsOf(items') \subseteq IdsOf(items) PROVE CopiesHold'
  <2>1. CASE CopyLists' \subseteq CopyLists
    BY <1>2, <2>1 DEF CopiesHold
  <2>2. ASSUME RunSaveInRepeat, CopyLists' \subseteq CopyLists \cup {items} PROVE CopiesHold'
    BY <1>2, <2>2 DEF CopiesHold
  <2> QED
    BY <1>0, <2>1, <2>2, CopyListsStep
<1>3. ASSUME MarksOnly(items', items) PROVE IdsOf(items') \subseteq IdsOf(items)
  BY <1>3 DEF MarksOnly, IdsOf
<1>4. ASSUME NEW i \in DOMAIN items, items' = Without(items, i) PROVE IdsOf(items') \subseteq IdsOf(items)
  BY <1>0, <1>4, IdsWithout DEF TypeOK
<1>5. ASSUME items' = <<>> PROVE IdsOf(items') \subseteq IdsOf(items)
  BY <1>5, NoIds
<1> QED
  BY <1>0, <1>1, <1>2, <1>3, <1>4, <1>5, ListStep

\* Between the disk and the cart in memory no write misses a product that both have.
LEMMA StepWritesAreOrdered ==
  ASSUME Settled, ListsHaveNoTwins, WritesAreOrdered, [Next]_vars, "late" \notin mishap'
  PROVE  WritesAreOrdered'
<1> USE DEF storage, screen, history, vars
<1>0. TypeOK /\ LoadIsSettled /\ LoadComesFirst /\ SaveIsComing
  BY DEF Settled
<1>1. ASSUME UNCHANGED storage PROVE WritesAreOrdered'
  BY <1>1 DEF WritesAreOrdered, Written
<1>2. ASSUME NEW p \in Products, NEW u \in 1 .. MaxUnits, AddProduct(p, u) PROVE WritesAreOrdered'
  <2> DEFINE new == Append(prefs.data, NewItem(nextId, p, u))
  <2>1. nextId \in Ids /\ u \in Int /\ nextId \in Nat
    BY <1>0, <1>2, BoundsAssumption DEF AddProduct, TypeOK, Ids
  <2>2. NewItem(nextId, p, u) \in Item /\ NewItem(nextId, p, u).id = nextId
    BY <2>1, NewItemIsItem DEF NewItem
  <2>3. new \in Seq(Item) /\ IdsOf(new) = IdsOf(prefs.data) \cup {nextId}
    BY <1>0, <2>2, IdsAppend, AppendAt DEF TypeOK
  <2>4. \A list \in SavedLists : list \in Seq(Item) /\ NoTwins(list, nextId)
    BY <1>0, SavedListsTyped DEF ListsHaveNoTwins, SavedLists
  <2>5. ASSUME NEW list \in SavedLists PROVE nextId \notin IdsOf(list)
    <3>1. \A i \in DOMAIN list : list[i].id \in Nat /\ list[i].id < nextId
      BY <2>4, ItemAt, IdIsNat DEF NoTwins
    <3> QED
      BY <2>1, <3>1 DEF IdsOf
  <2>6. SetString("data", new) /\ disk' = disk
    BY <1>2 DEF AddProduct
  <2> HIDE DEF new
  <2> QED
    BY <1>0, <2>3, <2>5, <2>6, CartWriteOrdered
<1>3. CASE RunSave
  <2>1. SetString("data", items) /\ disk' = disk /\ Run("save") /\ mishap' = mishap
    BY <1>3 DEF RunSave
  <2>2. loaded
    BY <1>0, <2>1, RunIsLoaded
  <2>3. IdsOf(items) \subseteq IdsOf(prefs.data) /\ items \in Seq(Item)
    BY <1>0, <2>1, <2>2 DEF SaveIsComing, TypeOK
  <2> QED
    BY <1>0, <2>1, <2>3, CartWriteOrdered
<1>4. CASE RunSaveInRepeat
  BY <1>0, <1>4, CopyWriteOrdered DEF RunSaveInRepeat, TypeOK
<1>5. ASSUME NEW w \in {diskQ[i] : i \in DOMAIN diskQ}, DiskWrite(w) \/ RepeatSaved(w) PROVE WritesAreOrdered'
  BY <1>0, <1>5, AcknowledgeOrdered DEF DiskWrite, RepeatSaved
<1>6. CASE Back
  BY <1>0, <1>6, BackOrdered
<1>7. CASE Kill
  BY <1>7 DEF Kill, WritesAreOrdered, Written
<1>8. ASSUME NEW w \in {diskQ[i] : i \in DOMAIN diskQ}, RepeatSavedLate(w) PROVE FALSE
  BY <1>8 DEF RepeatSavedLate
<1>9. CASE OpenCheckout \/ Clear \/ RecreateRows \/ OrderRefused \/ OrderSent \/ PrefsReady \/ UNCHANGED vars
  BY <1>1, <1>9 DEF OpenCheckout, Clear, RecreateRows, OrderRefused, OrderSent, PrefsReady
<1>10. ASSUME NEW i \in DOMAIN items, AddUnit(i) \/ SubUnit(i) \/ Remove(i) PROVE WritesAreOrdered'
  BY <1>1, <1>10 DEF AddUnit, SubUnit, SetUnits, Remove
<1>11. ASSUME NEW q \in queries, Found(q) \/ NotFound(q) \/ Matched(q) \/ QueryFails(q) PROVE WritesAreOrdered'
  BY <1>1, <1>11 DEF Found, NotFound, Matched, QueryFails
<1>12. ASSUME NEW b \in BOOLEAN, SetDelivery(b) PROVE WritesAreOrdered'
  BY <1>1, <1>12 DEF SetDelivery
<1>13. ASSUME NEW p \in Promotions, Withdraw(p) \/ Publish(p) PROVE WritesAreOrdered'
  BY <1>1, <1>13 DEF Withdraw, Publish
<1>14. ASSUME NEW r \in Rounds, RunLoad(r) PROVE WritesAreOrdered'
  BY <1>1, <1>14 DEF RunLoad
<1> QED
  BY <1>2, <1>3, <1>4, <1>5, <1>6, <1>7, <1>8, <1>9, <1>10, <1>11, <1>12, <1>13, <1>14
     DEF Next, User, Microtask, Answer, Platform, Restaurant

\* A product of the order leaves the cart's lists only behind its copy, or by
\* the customer's hand.
LEMMA StepKept ==
  ASSUME Settled, CopyIsComing, CopiesHold, WritesAreOrdered, [Next]_vars, "late" \notin mishap', ~OrderSent,
         last.loaded, NEW id \in last.durable, id \notin discarded', Kept(id)
  PROVE  Kept(id)'
<1> USE DEF storage, screen, history, vars
<1>0. TypeOK /\ LoadIsSettled /\ LoadComesFirst
  BY DEF Settled
<1>1. ASSUME UNCHANGED storage, InCart(id), loaded' => id \in IdsOf(items') PROVE Kept(id)'
  BY <1>1 DEF Kept, InCart, Written
<1>2. ASSUME Copied(id), disk'.repeat = disk.repeat, CopyLists' \subseteq CopyLists PROVE Kept(id)'
  BY <1>2, CopiedParts, CopiedOnceMore DEF Kept
<1>3. ASSUME UNCHANGED storage, Copied(id) PROVE Kept(id)'
  <2>1. CopyLists' = CopyLists
    BY <1>3 DEF CopyLists, Copy
  <2> QED
    BY <1>2, <1>3, <2>1
<1>4. ASSUME UNCHANGED storage, loaded' => loaded /\ IdsOf(items) \subseteq IdsOf(items') \cup discarded' PROVE Kept(id)'
  BY <1>1, <1>3, <1>4 DEF Kept, InCart
<1>5. ASSUME NEW p \in Products, NEW u \in 1 .. MaxUnits, AddProduct(p, u) PROVE Kept(id)'
  <2> DEFINE new == Append(prefs.data, NewItem(nextId, p, u))
  <2>1. nextId \in Ids /\ u \in Int
    BY <1>0, <1>5, BoundsAssumption DEF AddProduct, TypeOK, Ids
  <2>2. new \in Seq(Item) /\ IdsOf(prefs.data) \subseteq IdsOf(new)
    BY <1>0, <2>1, NewItemIsItem, IdsAppend, AppendAt DEF TypeOK
  <2>3. SetString("data", new) /\ disk' = disk /\ ~loaded'
    BY <1>0, <1>5 DEF AddProduct, LoadComesFirst
  <2> HIDE DEF new
  <2>4. CASE InCart(id)
    <3>1. Written(id)'
      BY <1>0, <2>2, <2>3, <2>4, WrittenAppend DEF InCart, Written
    <3>2. prefs'.data = new
      BY <1>0, <2>3 DEF SetString, TypeOK
    <3> QED
      BY <2>2, <2>3, <2>4, <3>1, <3>2 DEF Kept, InCart
  <2>5. CASE Copied(id)
    BY <1>0, <1>2, <2>2, <2>3, <2>5, SetStringCopies
  <2> QED
    BY <2>4, <2>5 DEF Kept
<1>6. CASE Back
  <2>1. ~loaded' /\ prefs' = prefs /\ disk' = disk /\ CopyLists' = {}
    BY <1>0, <1>6, CopyListsStep DEF Back, Leave
  <2>2. CASE InCart(id)
    BY <1>0, <1>6, <2>1, <2>2, BackOrdered DEF Kept, InCart
  <2>3. CASE Copied(id)
    BY <1>2, <2>1, <2>3
  <2> QED
    BY <2>2, <2>3 DEF Kept
<1>7. CASE Kill
  <2>1. ~loaded' /\ prefs' = disk /\ disk' = disk /\ diskQ' = <<>>
    BY <1>7 DEF Kill, Leave
  <2>2. CASE InCart(id)
    BY <2>1, <2>2 DEF Kept, InCart, Written
  <2>3. CASE Copied(id)
    BY <2>1, <2>3 DEF Kept, Copied, Copy
  <2> QED
    BY <2>2, <2>3 DEF Kept
<1>8. ASSUME NEW r \in Rounds, RunLoad(r) PROVE Kept(id)'
  <2>1. UNCHANGED storage /\ items' = prefs.data
    BY <1>8 DEF RunLoad
  <2> QED
    BY <1>1, <1>3, <2>1 DEF Kept, InCart
<1>9. CASE RunSave
  <2>1. SetString("data", items) /\ disk' = disk /\ Run("save") /\ items' = items
    BY <1>9 DEF RunSave
  <2>2. loaded /\ items \in Seq(Item)
    BY <1>0, <2>1, RunIsLoaded DEF TypeOK
  <2>3. CASE InCart(id)
    <3>1. Written(id)'
      BY <1>0, <2>1, <2>2, <2>3, WrittenAppend DEF InCart, Written
    <3>2. prefs'.data = items
      BY <1>0, <2>1 DEF SetString, TypeOK
    <3> QED
      BY <2>1, <2>2, <2>3, <3>1, <3>2 DEF Kept, InCart
  <2>4. CASE Copied(id)
    BY <1>0, <1>2, <2>1, <2>2, <2>4, SetStringCopies
  <2> QED
    BY <2>3, <2>4 DEF Kept
<1>10. CASE RunSaveInRepeat
  <2>1. SetString("repeat", items) /\ UNCHANGED <<disk, items, loaded>> /\ Run("saveInRepeat") /\ items \in Seq(Item)
    BY <1>0, <1>10 DEF RunSaveInRepeat, TypeOK
  <2>2. Waits("saveInRepeat")
    BY <1>0, <2>1, RunMovesUp DEF Waits
  <2>3. id \in IdsOf(items)
    BY <2>2 DEF CopyIsComing
  <2>4. CASE InCart(id)
    BY <1>0, <2>1, <2>4, CopyWriteOrdered DEF Kept, InCart
  <2>5. CASE Copied(id)
    BY <1>0, <2>1, <2>3, <2>5, SetStringCopies, CopiedParts, CopiedOnceMore DEF Kept
  <2> QED
    BY <2>4, <2>5 DEF Kept
<1>11. ASSUME NEW w \in {diskQ[i] : i \in DOMAIN diskQ}, DiskWrite(w) PROVE Kept(id)'
  <2>1. /\ Acknowledge(w) /\ diskQ' = Tail(diskQ) /\ diskQ # <<>> /\ w.key = "data"
        /\ UNCHANGED <<prefs, items, loaded>>
    BY <1>11 DEF DiskWrite, Acknowledge
  <2>2. disk'.repeat = disk.repeat
    BY <1>0, <2>1 DEF Acknowledge, TypeOK
  <2>3. CASE InCart(id)
    BY <1>0, <2>1, <2>3, AcknowledgeOrdered DEF Kept, InCart
  <2>4. CASE Copied(id)
    BY <1>0, <1>2, <2>1, <2>2, <2>4, TailCopies
  <2> QED
    BY <2>3, <2>4 DEF Kept
<1>12. ASSUME NEW w \in {diskQ[i] : i \in DOMAIN diskQ}, RepeatSaved(w) PROVE Kept(id)'
  <2>1. w.val \in CopyLists /\ disk'.repeat = w.val
    BY <1>0, <1>12, AcknowledgedCopy
  <2>2. CopyLists' \subseteq CopyLists
    BY <1>0, <1>12, TailCopies DEF RepeatSaved, Acknowledge
  <2>3. loaded
    BY <1>0, <2>1, CopyListsParts DEF LoadComesFirst
  <2>4. CASE InCart(id)
    <3>1. \A list \in CopyLists : id \in IdsOf(list)
      BY <2>3, <2>4 DEF InCart, CopiesHold
    <3> QED
      BY <2>1, <2>2, <3>1, CopiedOnceMore DEF Kept
  <2>5. CASE Copied(id)
    BY <2>1, <2>2, <2>5, CopiedParts, CopiedOnceMore DEF Kept
  <2> QED
    BY <2>4, <2>5 DEF Kept
<1>13. ASSUME NEW w \in {diskQ[i] : i \in DOMAIN diskQ}, RepeatSavedLate(w) PROVE FALSE
  BY <1>13 DEF RepeatSavedLate
<1>14. ASSUME NEW i \in DOMAIN items, AddUnit(i) \/ SubUnit(i) PROVE Kept(id)'
  <2>1. PICK d \in Int : SetUnits(i, d)
    BY <1>14 DEF AddUnit, SubUnit
  <2>2. IdsOf(items') = IdsOf(items)
    BY <1>0, <2>1, SetUnitsEffect, SameIds
  <2> QED
    BY <1>4, <2>1, <2>2 DEF SetUnits
<1>15. ASSUME NEW i \in DOMAIN items, Remove(i) PROVE Kept(id)'
  <2>1. IdsOf(items) \subseteq IdsOf(items') \cup {items[i].id}
    BY <1>0, <1>15, IdsWithout DEF Remove, TypeOK
  <2> QED
    BY <1>4, <1>15, <2>1 DEF Remove
<1>16. CASE Clear
  BY <1>4, <1>16 DEF Clear
<1>17. ASSUME NEW q \in queries, Found(q) \/ NotFound(q) PROVE Kept(id)'
  <2>1. IdsOf(items') = IdsOf(items)
    BY <1>0, <1>17, FoundEffect, NotFoundEffect, SameIds
  <2> QED
    BY <1>4, <1>17, <2>1 DEF Found, NotFound
<1>18. ASSUME UNCHANGED <<storage, items, loaded>> PROVE Kept(id)'
  BY <1>4, <1>18
<1>19. ASSUME NEW q \in queries, Matched(q) \/ QueryFails(q) PROVE Kept(id)'
  BY <1>18, <1>19 DEF Matched, QueryFails
<1>20. CASE RecreateRows \/ OrderRefused \/ PrefsReady \/ UNCHANGED vars
  BY <1>18, <1>20 DEF RecreateRows, OrderRefused, CreateMessangeSend, PrefsReady
<1>21. ASSUME NEW b \in BOOLEAN, SetDelivery(b) PROVE Kept(id)'
  BY <1>18, <1>21 DEF SetDelivery
<1>22. ASSUME NEW p \in Promotions, Withdraw(p) \/ Publish(p) PROVE Kept(id)'
  BY <1>18, <1>22 DEF Withdraw, Publish
<1>23. CASE OpenCheckout
  BY <1>4, <1>23 DEF OpenCheckout
<1> QED
  BY <1>5, <1>6, <1>7, <1>8, <1>9, <1>10, <1>11, <1>12, <1>13, <1>14, <1>15, <1>16, <1>17, <1>19,
     <1>20, <1>21, <1>22, <1>23
     DEF Next, User, Microtask, Answer, Platform, Restaurant

\* Only an order and a kill touch the record of the last order, and nothing
\* takes a product back from those the customer removed.
LEMMA LastStep ==
  ASSUME TypeOK, [Next]_vars
  PROVE  /\ discarded \subseteq discarded'
         /\ OrderSent \/ (last'.loaded = last.loaded /\ last'.durable = last.durable)
<1> USE DEF storage, screen, history, vars
<1>1. CASE User
  BY <1>1 DEF User, AddProduct, OpenCheckout, Back, AddUnit, SubUnit, SetUnits, Remove, Clear, RecreateRows,
     OrderRefused, OrderSent, SetDelivery
<1>2. CASE Microtask \/ PrefsReady \/ Answer \/ Restaurant \/ UNCHANGED vars
  BY <1>2 DEF Microtask, RunLoad, RunSave, RunSaveInRepeat, PrefsReady, Answer, Found, NotFound, Matched, QueryFails,
     Restaurant, Withdraw, Publish
<1>3. CASE Platform
  BY <1>3 DEF Platform, DiskWrite, RepeatSaved, RepeatSavedLate
<1>4. CASE Kill
  BY <1>4 DEF Kill, TypeOK
<1> QED
  BY <1>1, <1>2, <1>3, <1>4 DEF Next

LEMMA StepOrderIsKept ==
  Settled /\ ListsHaveNoTwins /\ CopyIsComing /\ OrderIsKept /\ [Next]_vars => OrderIsKept'
<1> SUFFICES ASSUME Settled, ListsHaveNoTwins, CopyIsComing, OrderIsKept, [Next]_vars PROVE OrderIsKept'
  OBVIOUS
<1>0. TypeOK /\ LoadIsSettled /\ LoadComesFirst /\ SaveIsComing
  BY DEF Settled
<1>1. /\ CopiesHold
      /\ "late" \notin mishap => WritesAreOrdered
      /\ last.loaded /\ "late" \notin mishap => \A id \in last.durable \ discarded : Kept(id)
  BY OrderIsKeptParts
<1>2. CopiesHold'
  BY <1>1, StepCopiesHold
<1>3. "late" \notin mishap' => "late" \notin mishap /\ WritesAreOrdered'
  BY <1>1, MishapStays, StepWritesAreOrdered
<1>4. ASSUME last'.loaded, "late" \notin mishap', NEW id \in last'.durable \ discarded' PROVE Kept(id)'
  <2>1. CASE OrderSent
    <3>1. last' = [items |-> items, loaded |-> loaded, live |-> TRUE, durable |-> IdsOf(items) \cap IdsOf(disk.data)]
      BY <2>1 DEF OrderSent, CreateMessangeSend
    <3>2. loaded /\ id \in IdsOf(items) /\ id \in IdsOf(disk.data)
      BY <1>4, <3>1
    <3>3. UNCHANGED <<storage, items, loaded>> /\ Quiet /\ mishap' = mishap
      BY <2>1, <3>2 DEF OrderSent, CreateMessangeSend, Event
    <3>4. id \in IdsOf(prefs.data)
      BY <1>0, <1>4, <3>2, <3>3 DEF SaveIsComing
    <3>5. Written(id)
      BY <1>3, <1>1, <1>4, <3>2, <3>4 DEF WritesAreOrdered
    <3> QED
      BY <3>2, <3>3, <3>4, <3>5 DEF Kept, InCart, Written, storage
  <2>2. CASE ~OrderSent
    <3>1. last.loaded /\ id \in last.durable \ discarded /\ id \notin discarded'
      BY <1>0, <1>4, <2>2, LastStep
    <3>2. Kept(id) /\ WritesAreOrdered
      BY <1>1, <1>3, <1>4, <3>1
    <3> QED
      BY <1>1, <1>4, <2>2, <3>1, <3>2, StepKept
  <2> QED
    BY <2>1, <2>2
<1>5. CopiesHold' => \A k \in DOMAIN diskQ' : Copy(k)' => IdsOf(items') \subseteq IdsOf(diskQ'[k].val)
  BY DEF CopiesHold, CopyLists
<1> QED
  BY <1>2, <1>3, <1>4, <1>5 DEF OrderIsKept, Kept

LEMMA InitOrderIsKept == Init => OrderIsKept /\ ListsHaveNoTwins
  BY DEF Init, OrderIsKept, WritesAreOrdered, IdsOf, ListsHaveNoTwins, NoTwins

\* Whenever the process dies, every product of the last order that was on disk
\* and was not removed is in the saved cart or in the repeat list: the cart is
\* emptied by a write that the platform gets after it acknowledged the copy.
THEOREM KillsLeaveTheOrder == Spec => []OrderSurvivesKill
<1>1. OrderIsKept => OrderSurvivesKill
  BY DEF OrderIsKept, InCart, Copied, OrderSurvivesKill
<1> QED
  BY <1>1, InitSettled, StepSettled, InitCopyIsComing, StepCopyIsComing, InitOrderIsKept, StepOrderIsKept,
     StepNoTwins, PTL DEF Spec, Settled

-----------------------------------------------------------------------------
(* A renamed item stays renamed *)

\* Every source of the saved cart.
LEMMA SavedCartStep ==
  ASSUME TypeOK, [Next]_vars
  PROVE  \/ prefs'.data = prefs.data
         \/ prefs'.data = items /\ items' = items
         \/ prefs'.data = <<>>
         \/ Kill
         \/ \E p \in Products, u \in 1 .. MaxUnits : AddProduct(p, u)
<1> USE DEF storage, screen, history, vars
<1>1. CASE User
  BY <1>1 DEF User, OpenCheckout, Back, AddUnit, SubUnit, SetUnits, Remove, Clear, RecreateRows,
     OrderRefused, OrderSent, SetDelivery
<1>2. CASE PrefsReady \/ Answer \/ Restaurant \/ Kill \/ UNCHANGED vars
  BY <1>2 DEF PrefsReady, Answer, Found, NotFound, Matched, QueryFails, Restaurant, Withdraw, Publish
<1>3. CASE Platform
  BY <1>3 DEF Platform, DiskWrite, RepeatSaved, RepeatSavedLate, TypeOK
<1>4. CASE Microtask
  BY <1>4 DEF Microtask, RunLoad, RunSave, RunSaveInRepeat, SetString, TypeOK
<1> QED
  BY <1>1, <1>2, <1>3, <1>4 DEF Next

LEMMA MarksWithout ==
  ASSUME NEW list \in Seq(Item), NEW k \in DOMAIN list
  PROVE  \A i \in DOMAIN Without(list, k) : \E j \in DOMAIN list : Without(list, k)[i] = list[j]
<1>1. /\ DOMAIN Without(list, k) = 1 .. Len(list) - 1 /\ DOMAIN list = 1 .. Len(list) /\ Len(list) \in Nat
      /\ \A i \in 1 .. Len(list) - 1 : Without(list, k)[i] = IF i < k THEN list[i] ELSE list[i + 1]
  BY WithoutIsSeq
<1> DEFINE new == Without(list, k)
<1> HIDE DEF new
<1>2. ASSUME NEW i \in DOMAIN new PROVE \E j \in DOMAIN list : new[i] = list[j]
  BY <1>1, <1>2 DEF new
<1> QED
  BY <1>2 DEF new

\* The two halves of MarksStay.
Free == MarksAreFree(items) /\ \A list \in SavedLists : MarksAreFree(list)
MarksSeen ==
  \A i \in DOMAIN prefs.data, j \in DOMAIN items :
    prefs.data[i].id = items[j].id /\ prefs.data[i].title = Unavailable => items[j].title = Unavailable

LEMMA MarksStayParts == MarksStay <=> Free /\ MarksSeen
  BY DEF MarksStay, Free, MarksSeen, SavedLists

LEMMA StepFree == TypeOK /\ Free /\ [Next]_vars => Free'
<1> SUFFICES ASSUME TypeOK, Free, [Next]_vars PROVE Free'
  OBVIOUS
<1>1. MarksAreFree(items')
  <2>1. ASSUME MarksOnly(items', items) PROVE MarksAreFree(items')
    BY <2>1 DEF MarksOnly, MarksAreFree, Free
  <2>2. ASSUME NEW i \in DOMAIN items, items' = Without(items, i) PROVE MarksAreFree(items')
    BY <2>2, MarksWithout DEF MarksAreFree, Free, TypeOK
  <2>3. ASSUME NEW r \in Rounds, RunLoad(r) PROVE MarksAreFree(items')
    BY <2>3 DEF RunLoad, Free, SavedLists
  <2>4. ASSUME items' = <<>> PROVE MarksAreFree(items')
    BY <2>4 DEF MarksAreFree
  <2> QED
    BY <2>1, <2>2, <2>3, <2>4, ListStep
<1>2. ASSUME NEW p \in Products, NEW u \in 1 .. MaxUnits, AddProduct(p, u)
      PROVE  \A list \in SavedLists' : MarksAreFree(list)
  <2> DEFINE it == NewItem(nextId, p, u)
             new == Append(prefs.data, it)
  <2>1. nextId \in Ids /\ u \in Int /\ disk' = disk /\ SetString("data", new)
    BY <1>2, BoundsAssumption DEF AddProduct, TypeOK, Ids
  <2>2. it \in Item /\ it.title # Unavailable
    BY <2>1, NewItemIsItem, ProductsAssumption DEF NewItem
  <2> HIDE DEF it
  <2>3. prefs.data \in Seq(Item) /\ prefs.data \in SavedLists
    BY DEF TypeOK, SavedLists
  <2>4. /\ new \in Seq(Item) /\ DOMAIN new = DOMAIN prefs.data \cup {Len(prefs.data) + 1}
        /\ new[Len(prefs.data) + 1] = it
        /\ \A k \in DOMAIN prefs.data : new[k] = prefs.data[k]
    BY <2>2, <2>3, AppendAt
  <2>5. MarksAreFree(new)
    BY <2>2, <2>3, <2>4 DEF Free, MarksAreFree
  <2> HIDE DEF new
  <2>6. SavedLists' \subseteq SavedLists \cup {new}
    BY <2>1, <2>4, SetStringSaves
  <2> QED
    BY <2>5, <2>6 DEF Free
<1>3. ASSUME SavedLists' \subseteq SavedLists \cup {items, <<>>}
      PROVE  \A list \in SavedLists' : MarksAreFree(list)
  BY <1>3 DEF Free, MarksAreFree
<1> QED
  BY <1>1, <1>2, <1>3, SavedListsStep DEF Free

\* What the customer's product screens add is none of the list's business.
LEMMA AddedApart ==
  ASSUME TypeOK, LoadIsSettled, NEW p \in Products, NEW u \in 1 .. MaxUnits, AddProduct(p, u)
  PROVE  /\ items' = <<>>
         /\ \E it \in Item : it.id = nextId /\ prefs'.data = Append(prefs.data, it)
<1>1. nextId \in Ids /\ u \in Int /\ items' = items /\ items = <<>>
  BY BoundsAssumption DEF AddProduct, screen, LoadIsSettled, TypeOK, Ids
<1>2. NewItem(nextId, p, u) \in Item /\ NewItem(nextId, p, u).id = nextId
  BY <1>1, NewItemIsItem DEF NewItem
<1>3. prefs'.data = Append(prefs.data, NewItem(nextId, p, u))
  BY DEF AddProduct, SetString, TypeOK
<1> QED
  BY <1>1, <1>2, <1>3

LEMMA StepMarksSeen ==
  TypeOK /\ LoadIsSettled /\ ListsHaveNoTwins /\ MarksSeen /\ [Next]_vars => MarksSeen'
<1> SUFFICES ASSUME TypeOK, LoadIsSettled, ListsHaveNoTwins, MarksSeen, [Next]_vars PROVE MarksSeen'
  OBVIOUS
<1>0. NoTwins(items', nextId') /\ NoTwins(prefs'.data, nextId')
  BY StepNoTwins DEF ListsHaveNoTwins
<1>1. ASSUME prefs'.data = items' PROVE MarksSeen'
  BY <1>0, <1>1 DEF MarksSeen, NoTwins
<1>2. ASSUME items' = <<>> \/ prefs'.data = <<>> PROVE MarksSeen'
  BY <1>2 DEF MarksSeen
<1>3. CASE prefs'.data = prefs.data
  <2>1. CASE MarksOnly(items', items)
    BY <1>3, <2>1 DEF MarksOnly, MarksSeen
  <2>2. ASSUME NEW k \in DOMAIN items, items' = Without(items, k) PROVE MarksSeen'
    <3>1. \A i \in DOMAIN items' : \E j \in DOMAIN items : items'[i] = items[j]
      BY <2>2, MarksWithout DEF TypeOK
    <3> QED
      BY <1>3, <3>1 DEF MarksSeen
  <2>3. ASSUME NEW r \in Rounds, RunLoad(r) PROVE MarksSeen'
    BY <1>1, <2>3 DEF RunLoad, storage
  <2> QED
    BY <1>2, <2>1, <2>2, <2>3, ListStep
<1>4. CASE Kill
  BY <1>2, <1>4 DEF Kill, Leave
<1>5. ASSUME NEW p \in Products, NEW u \in 1 .. MaxUnits, AddProduct(p, u) PROVE MarksSeen'
  BY <1>2, <1>5, AddedApart
<1> QED
  BY <1>1, <1>2, <1>3, <1>4, <1>5, SavedCartStep

\* "Produto indisponível" is for ever: once the saved cart says so of an item, no
\* step but a kill brings back its title or its price.
THEOREM RenamedForGood == Spec => UnavailableForever
<1> DEFINE Inv == TypeOK /\ LoadIsSettled /\ ListsHaveNoTwins /\ Free /\ MarksSeen
<1>1. Init => Inv
  <2> SUFFICES ASSUME Init PROVE Inv
    OBVIOUS
  <2>1. SavedLists = {<<>>} /\ items = <<>>
    BY DEF Init, SavedLists
  <2> QED
    BY <2>1, InitTypeOK DEF Init, LoadIsSettled, ListsHaveNoTwins, NoTwins, Free, MarksAreFree, MarksSeen
<1>2. Inv /\ [Next]_vars => Inv'
  BY StepTypeOK, StepLoadIsSettled, StepNoTwins, StepFree, StepMarksSeen
<1>3. Inv /\ [Next]_vars => StaysUnavailable
  <2> SUFFICES ASSUME Inv, [Next]_vars, NEW i \in DOMAIN prefs.data, NEW j \in DOMAIN prefs'.data,
                      prefs.data[i].id = prefs'.data[j].id, prefs.data[i].title = Unavailable, "kill" \notin mishap'
               PROVE  prefs'.data[j].title = Unavailable /\ prefs'.data[j].valueUn = 0
    BY DEF StaysUnavailable
  <2>0. NoTwins(prefs.data, nextId) /\ MarksAreFree(prefs.data)
    BY DEF ListsHaveNoTwins, Free, SavedLists
  <2>1. CASE prefs'.data = prefs.data
    BY <2>0, <2>1 DEF NoTwins, MarksAreFree
  <2>2. CASE prefs'.data = items
    BY <2>2 DEF MarksSeen, Free, MarksAreFree
  <2>3. CASE prefs'.data = <<>>
    BY <2>3
  <2>4. CASE Kill
    BY <2>4 DEF Kill
  <2>5. ASSUME NEW p \in Products, NEW u \in 1 .. MaxUnits, AddProduct(p, u)
        PROVE  prefs'.data[j].title = Unavailable /\ prefs'.data[j].valueUn = 0
    <3>1. PICK it \in Item : it.id = nextId /\ prefs'.data = Append(prefs.data, it)
      BY <2>5, AddedApart
    <3>2. /\ DOMAIN prefs'.data = DOMAIN prefs.data \cup {Len(prefs.data) + 1}
          /\ prefs'.data[Len(prefs.data) + 1] = it
          /\ \A k \in DOMAIN prefs.data : prefs'.data[k] = prefs.data[k]
      <4>1. prefs.data \in Seq(Item)
        BY DEF TypeOK
      <4> QED
        BY <3>1, <4>1, AppendAt
    <3>3. prefs.data[i].id \in Nat /\ prefs.data[i].id < nextId /\ nextId \in Nat
      BY <2>0, ItemAt, IdIsNat, BoundsAssumption DEF NoTwins, TypeOK
    <3>4. j \in DOMAIN prefs.data
      BY <3>1, <3>2, <3>3
    <3> QED
      BY <2>0, <3>2, <3>4 DEF NoTwins, MarksAreFree
  <2> QED
    BY <2>1, <2>2, <2>3, <2>4, <2>5, SavedCartStep
<1> HIDE DEF Inv
<1> QED
  BY <1>1, <1>2, <1>3, PTL DEF Spec, UnavailableForever
=============================================================================
