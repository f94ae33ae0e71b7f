------------------------- MODULE FlutterRepeat_proofs -------------------------
(***************************************************************************)
(* Theorems about the Flutter repeat screen, for every set of last orders, *)
(* every price and every bound of FlutterRepeat.                           *)
(***************************************************************************)
EXTENDS FlutterRepeat, DataTheorems

\* Removing position k from a list leaves a list of the same kind, one shorter.
LEMMA WithoutIsSeq ==
  ASSUME NEW S, NEW list \in Seq(S), NEW k \in DOMAIN list
  PROVE  /\ Without(list, k) \in Seq(S)
         /\ Len(Without(list, k)) = Len(list) - 1
         /\ DOMAIN Without(list, k) = 1 .. Len(list) - 1
         /\ \A i \in 1 .. Len(list) - 1 :
              Without(list, k)[i] = IF i < k THEN list[i] ELSE list[i + 1]
<1>1. Len(list) - 1 \in Nat /\ k \in 1 .. Len(list)
  OBVIOUS
<1>2. Without(list, k) \in [1 .. Len(list) - 1 -> S]
  BY <1>1 DEF Without
<1> QED
  BY <1>1, <1>2 DEF Without

LEMMA ItemAt ==
  ASSUME NEW list \in Seq(Item), NEW i \in DOMAIN list
  PROVE  list[i] \in Item
  OBVIOUS

\* A frame gives every item a row of its class, whatever rows there were.
LEMMA RebuildIsRows ==
  ASSUME NEW old \in Seq(Row), NEW list \in Seq(Item)
  PROVE  Rebuild(old, list) \in Seq(Row) /\ Len(Rebuild(old, list)) = Len(list)
<1>1. ASSUME NEW i \in 1 .. Len(list) PROVE NewRow(list[i]) \in Row
  <2>1. ASSUME NEW it \in Item PROVE NewRow(it) \in Row
    BY DEF NewRow, Row, Item
  <2> QED
    BY <2>1, ItemAt
<1>2. Rebuild(old, list) \in [1 .. Len(list) -> Row]
  BY <1>1 DEF Rebuild
<1> QED
  BY <1>2 DEF Rebuild

LEMMA FreshRowsAreRows ==
  ASSUME NEW list \in Seq(Item)
  PROVE  LET fresh == [i \in 1 .. Len(list) |-> NewRow(list[i])]
         IN  fresh \in Seq(Row) /\ Len(fresh) = Len(list)
<1>1. ASSUME NEW it \in Item PROVE NewRow(it) \in Row
  BY DEF NewRow, Row, Item
<1>2. \A i \in 1 .. Len(list) : NewRow(list[i]) \in Row
  BY <1>1, ItemAt
<1> QED
  BY <1>2

\* Changing the units of one item, or marking it, changes that item only.
LEMMA UnitsOfOne ==
  ASSUME NEW list \in Seq(Item), NEW i \in DOMAIN list, NEW d \in Int,
         NEW new, new = [list EXCEPT ![i].units = @ + d]
  PROVE  /\ new \in Seq(Item) /\ DOMAIN new = DOMAIN list /\ Len(new) = Len(list)
         /\ \A j \in DOMAIN list : /\ new[j].id = list[j].id /\ new[j].type = list[j].type
                                   /\ new[j].renamed = list[j].renamed
                                   /\ new[j].valueUn = list[j].valueUn
<1> DEFINE it == [list[i] EXCEPT !.units = @ + d]
<1>1. it \in Item /\ it.id = list[i].id /\ it.type = list[i].type /\ it.renamed = list[i].renamed
      /\ it.valueUn = list[i].valueUn
  <2>1. ASSUME NEW r \in Item
        PROVE  LET s == [r EXCEPT !.units = @ + d]
               IN  s \in Item /\ s.id = r.id /\ s.type = r.type /\ s.renamed = r.renamed /\ s.valueUn = r.valueUn
    <3>1. ASSUME NEW u \in Int
          PROVE  LET s == [r EXCEPT !.units = u]
                 IN  s \in Item /\ s.id = r.id /\ s.type = r.type /\ s.renamed = r.renamed /\ s.valueUn = r.valueUn
      BY DEF Item
    <3>2. r.units + d \in Int
      BY DEF Item
    <3> QED
      BY <3>1, <3>2
  <2> QED
    BY <2>1, ItemAt
<1>2. new = [list EXCEPT ![i] = it]
  OBVIOUS
<1> HIDE DEF it
<1>3. new \in Seq(Item) /\ DOMAIN new = DOMAIN list /\ Len(new) = Len(list)
  BY <1>1, <1>2
<1>4. new[i] = it /\ \A j \in DOMAIN list : j # i => new[j] = list[j]
  BY <1>2
<1> QED
  BY <1>1, <1>3, <1>4

LEMMA MarkOfOne ==
  ASSUME NEW list \in Seq(Item), NEW i \in DOMAIN list
  PROVE  LET new == MarkUnavailable(list, i)
         IN  /\ new \in Seq(Item) /\ DOMAIN new = DOMAIN list /\ Len(new) = Len(list)
             /\ \A j \in DOMAIN list : new[j].id = list[j].id /\ new[j].type = list[j].type
             /\ \A j \in DOMAIN list : j # i => new[j] = list[j]
<1> DEFINE it == [list[i] EXCEPT !.renamed = TRUE, !.valueUn = 0]
           new == MarkUnavailable(list, i)
<1>1. it \in Item /\ it.id = list[i].id /\ it.type = list[i].type
  <2>1. ASSUME NEW r \in Item, NEW b \in BOOLEAN, NEW n \in Nat
        PROVE  LET s == [r EXCEPT !.renamed = b, !.valueUn = n]
               IN  s \in Item /\ s.id = r.id /\ s.type = r.type
    BY DEF Item
  <2>2. TRUE \in BOOLEAN /\ 0 \in Nat
    OBVIOUS
  <2> QED
    BY <2>1, <2>2, ItemAt
<1>2. new = [list EXCEPT ![i] = it]
  BY DEF MarkUnavailable
<1> HIDE DEF it, new
<1>3. new \in Seq(Item) /\ DOMAIN new = DOMAIN list /\ Len(new) = Len(list)
  BY <1>1, <1>2
<1>4. new[i] = it /\ \A j \in DOMAIN list : j # i => new[j] = list[j]
  BY <1>2
<1>5. \A j \in DOMAIN list : new[j].id = list[j].id /\ new[j].type = list[j].type
  BY <1>1, <1>4
<1> QED
  BY <1>3, <1>4, <1>5 DEF new

\* The value of a list is a number, however long the list is.
LEMMA TotalIsInt ==
  ASSUME NEW list \in Seq(Item), NEW dlv
  PROVE  Total(list, dlv) \in Int
<1> DEFINE f == [i \in DOMAIN list |-> list[i].valueUn * list[i].units]
<1>1. \A i \in DOMAIN f : f[i] \in Int
  <2>1. ASSUME NEW it \in Item PROVE it.valueUn * it.units \in Int
    BY DEF Item
  <2> QED
    BY <2>1, ItemAt
<1>2. IsFiniteSet(DOMAIN f)
  <2>1. DOMAIN f = 1 .. Len(list) /\ Len(list) \in Nat
    OBVIOUS
  <2> QED
    BY <2>1, FS_Interval
<1> HIDE DEF f
<1>3. SumFunction(f) \in Int
  BY <1>1, <1>2, SumOfFunction
<1>4. Amount(list) \in Int
  BY <1>3 DEF Amount, f
<1> QED
  BY <1>4 DEF Total, Fee

LEMMA EmptyTotal == Total(<<>>, FALSE) = 0
<1> DEFINE f == [i \in DOMAIN <<>> |-> <<>>[i].valueUn * <<>>[i].units]
<1>1. DOMAIN f = {}
  OBVIOUS
<1> HIDE DEF f
<1>2. SumFunction(f) = 0
  BY <1>1, FS_EmptySet, SumOverSet DEF SumFunction
<1> QED
  BY <1>2 DEF Total, Amount, f

\* The questions of a load() are questions; marking them stale leaves them so.
LEMMA AskIsQueries ==
  ASSUME NEW list \in Seq(Item), NEW r \in 1 .. MaxRounds
  PROVE  Ask(list, r) \subseteq Query
<1>1. ASSUME NEW i \in DOMAIN list
      PROVE  [id |-> list[i].id, renamed |-> list[i].renamed, index |-> i, round |-> r, stale |-> FALSE,
               found |-> FALSE] \in Query
  <2>1. list[i].id \in Nat /\ list[i].renamed \in BOOLEAN /\ i \in Nat
    <3>1. ASSUME NEW it \in Item PROVE it.id \in Nat /\ it.renamed \in BOOLEAN
      BY DEF Item
    <3> QED
      BY <3>1, ItemAt
  <2> QED
    BY <2>1 DEF Query
<1> QED
  BY <1>1 DEF Ask

LEMMA ShiftIsQueries ==
  ASSUME queries \subseteq Query, Shift
  PROVE  queries' \subseteq Query
<1>1. ASSUME NEW q \in Query PROVE [q EXCEPT !.stale = TRUE] \in Query
  BY DEF Query
<1> QED
  BY <1>1 DEF Shift

-----------------------------------------------------------------------------
(* Type correctness *)

LEMMA ElementAt ==
  ASSUME NEW S, NEW list \in Seq(S), NEW i \in DOMAIN list
  PROVE  list[i] \in S
  OBVIOUS

LEMMA InitTypeOK == Init => TypeOK
<1> SUFFICES ASSUME Init PROVE TypeOK
  OBVIOUS
<1>1. PICK o \in Orders : saved = [i \in 1 .. Len(o) |-> [id |-> i, type |-> o[i].type, renamed |-> FALSE,
                                                         units |-> o[i].units, valueUn |-> Price]]
  BY DEF Init
<1>2. o \in Seq([type : Kinds, units : Nat \ {0}])
  BY RepeatAssumption
<1>3. ASSUME NEW i \in 1 .. Len(o)
      PROVE  [id |-> i, type |-> o[i].type, renamed |-> FALSE, units |-> o[i].units, valueUn |-> Price] \in Item
  <2>1. o[i] \in [type : Kinds, units : Nat \ {0}]
    <3>1. i \in DOMAIN o
      BY <1>2
    <3> QED
      BY <1>2, <3>1, ElementAt
  <2>2. o[i].type \in Kinds /\ o[i].units \in Int /\ Price \in Nat /\ i \in Nat
    BY <2>1, RepeatAssumption
  <2> QED
    BY <2>2 DEF Item
<1>4. saved \in Seq(Item)
  BY <1>1, <1>2, <1>3
<1>5. catalog \subseteq Nat
  BY <1>4 DEF Init
<1>6. Cardinality(message) <= 1
  BY FS_EmptySet DEF Init
<1>7. /\ items \in Seq(Item) /\ rows \in Seq(Row) /\ pending \in Seq({"load", "save"})
      /\ Len(rows) = Len(items) /\ total \in Int /\ queries \subseteq Query /\ opens \in 0 .. MaxOpens
  BY RepeatAssumption DEF Init
<1>8. {ready, open, delivery, loaded, bare, slipped} \subseteq BOOLEAN /\ missed \subseteq Nat
  BY DEF Init
<1> QED
  BY <1>4, <1>5, <1>6, <1>7, <1>8 DEF TypeOK

\* "+" and "-" change a row and the item under it alike.
LEMMA SetUnitsTypes ==
  ASSUME TypeOK, NEW i \in DOMAIN items, NEW d \in Int, NEW dlv \in BOOLEAN, SetUnits(i, d, dlv)
  PROVE  TypeOK'
<1>1. items' \in Seq(Item) /\ Len(items') = Len(items)
  <2>1. items \in Seq(Item) /\ items' = [items EXCEPT ![i].units = @ + d]
    BY DEF SetUnits, TypeOK
  <2> QED
    BY <2>1, UnitsOfOne
<1>2. rows' \in Seq(Row) /\ Len(rows') = Len(rows)
  <2>1. ASSUME NEW row \in Row PROVE [row EXCEPT !.units = @ + d] \in Row
    BY DEF Row
  <2>2. rows \in Seq(Row) /\ i \in DOMAIN rows
    BY DEF TypeOK
  <2>3. [rows[i] EXCEPT !.units = @ + d] \in Row
    BY <2>1, <2>2
  <2> QED
    BY <2>2, <2>3 DEF SetUnits
<1>3. total' \in Int
  BY <1>1, TotalIsInt DEF SetUnits
<1>4. bare' \in BOOLEAN
  BY DEF SetUnits, TypeOK
<1> QED
  BY <1>1, <1>2, <1>3, <1>4 DEF SetUnits, TypeOK

LEMMA StepTypeOK == TypeOK /\ [Next]_vars => TypeOK'
<1> SUFFICES ASSUME TypeOK, [Next]_vars PROVE TypeOK'
  OBVIOUS
<1> USE DEF screen, history, vars
<1>0. /\ <<>> \in Seq(Item) /\ <<>> \in Seq(Row) /\ Len(<<>>) = 0
      /\ \A list \in Seq({"load", "save"}), t \in {"load", "save"} : Append(list, t) \in Seq({"load", "save"})
  OBVIOUS
<1>1. CASE Open
  <2>1. pending' \in Seq({"load", "save"})
    BY <1>0, <1>1 DEF Open, TypeOK
  <2>2. opens' \in 0 .. MaxOpens
    BY <1>1, RepeatAssumption DEF Open, TypeOK
  <2>3. Cardinality(message') <= 1
    BY <1>1, FS_EmptySet DEF Open
  <2>4. {open', delivery', loaded', bare', slipped', ready'} \subseteq BOOLEAN /\ missed' \subseteq Nat
    BY <1>1 DEF Open, TypeOK
  <2>5. /\ items' \in Seq(Item) /\ rows' \in Seq(Row) /\ Len(rows') = Len(items') /\ total' \in Int
        /\ queries' \subseteq Query /\ saved' \in Seq(Item) /\ catalog' \subseteq Nat
    BY <1>0, <1>1 DEF Open, TypeOK
  <2> QED
    BY <2>1, <2>2, <2>3, <2>4, <2>5 DEF TypeOK
<1>2. CASE Back
  BY <1>2 DEF Back, TypeOK
<1>3. CASE PrefsReady
  BY <1>3 DEF PrefsReady, TypeOK
<1>4. ASSUME NEW task, Run(task) PROVE pending' \in Seq({"load", "save"})
  BY <1>4 DEF Run, TypeOK
<1>5. CASE RunLoad
  <2>1. PICK r \in 1 .. MaxRounds : queries' = queries \cup Ask(saved, r)
    <3> DEFINE free == 1 .. MaxRounds \ {q.round : q \in queries}
               r == IF free = {} THEN MaxRounds ELSE CHOOSE n \in free : \A m \in free : n <= m
    <3>1. queries' = queries \cup Ask(saved, r)
      BY <1>5 DEF RunLoad
    <3>2. r \in 1 .. MaxRounds
      <4>1. CASE free = {}
        BY <4>1, RepeatAssumption
      <4>2. CASE free # {}
        <5>1. free \subseteq 1 .. MaxRounds /\ free \subseteq Nat
          OBVIOUS
        <5> HIDE DEF free
        <5>2. \E n \in free : \A m \in free : n <= m
          BY <4>2, <5>1, SmallestNumber
        <5>3. r \in free
          BY <4>2, <5>2
        <5> QED
          BY <5>1, <5>3
      <4> QED
        BY <4>1, <4>2
    <3> QED
      BY <3>1, <3>2
  <2>2. queries' \subseteq Query
    BY <2>1, AskIsQueries DEF TypeOK
  <2>3. rows' \in Seq(Row) /\ Len(rows') = Len(saved)
    BY <1>5, RebuildIsRows DEF RunLoad, TypeOK
  <2>4. total' \in Int
    BY <1>5, TotalIsInt DEF RunLoad, TypeOK
  <2>5. pending' \in Seq({"load", "save"})
    BY <1>4, <1>5 DEF RunLoad
  <2> QED
    BY <1>5, <2>2, <2>3, <2>4, <2>5 DEF RunLoad, TypeOK
<1>6. CASE RunSave
  <2>1. pending' \in Seq({"load", "save"})
    BY <1>4, <1>6 DEF RunSave
  <2> QED
    BY <1>6, <2>1 DEF RunSave, TypeOK
<1>7. ASSUME NEW i \in DOMAIN items, AddUnit(i) PROVE TypeOK'
  <2>1. SetUnits(i, 1, FALSE)
    BY <1>7, Zenon DEF AddUnit
  <2>2. FALSE \in BOOLEAN /\ 1 \in Int
    OBVIOUS
  <2> QED
    BY <2>1, <2>2, SetUnitsTypes
<1>8. ASSUME NEW i \in DOMAIN items, SubUnit(i) PROVE TypeOK'
  <2>1. delivery \in BOOLEAN
    BY DEF TypeOK
  <2> QED
    BY <1>8, <2>1, SetUnitsTypes DEF SubUnit
<1>9. ASSUME NEW i \in DOMAIN items, Remove(i) PROVE TypeOK'
  <2>1. items' \in Seq(Item)
    BY <1>9, WithoutIsSeq DEF Remove, TypeOK
  <2>2. rows' \in Seq(Row) /\ Len(rows') = Len(items')
    BY <1>9, <2>1, RebuildIsRows DEF Remove, TypeOK
  <2>3. queries' \subseteq Query /\ total' \in Int
    BY <1>9, <2>1, ShiftIsQueries, TotalIsInt DEF Remove, TypeOK
  <2>4. pending' \in Seq({"load", "save"})
    BY <1>0, <1>9 DEF Remove, TypeOK
  <2> QED
    BY <1>9, <2>1, <2>2, <2>3, <2>4 DEF Remove, TypeOK
<1>10. CASE Clear
  <2>1. queries' \subseteq Query /\ total' \in Int
    BY <1>0, <1>10, ShiftIsQueries, TotalIsInt DEF Clear, TypeOK
  <2>2. pending' \in Seq({"load", "save"})
    BY <1>0, <1>10 DEF Clear, TypeOK
  <2> QED
    BY <1>0, <1>10, <2>1, <2>2 DEF Clear, TypeOK
<1>11. CASE RecreateRows
  <2>1. rows' \in Seq(Row) /\ Len(rows') = Len(items)
    BY <1>11, FreshRowsAreRows DEF RecreateRows, TypeOK
  <2> QED
    BY <1>11, <2>1 DEF RecreateRows, TypeOK
<1>12. ASSUME NEW b \in BOOLEAN, SetDelivery(b) PROVE TypeOK'
  <2>1. total' \in Int
    BY <1>12, TotalIsInt DEF SetDelivery, TypeOK
  <2> QED
    BY <1>12, <2>1 DEF SetDelivery, TypeOK
<1>13. ASSUME NEW b \in BOOLEAN, Order(b) PROVE TypeOK'
  <2>1. total' \in Int /\ bare' \in BOOLEAN
    BY <1>13, TotalIsInt DEF Order, TypeOK
  <2>2. Cardinality(message') <= 1
    <3>1. CASE message' = message
      BY <3>1 DEF TypeOK
    <3>2. ASSUME NEW m, message' = {m} PROVE Cardinality(message') <= 1
      <4>1. Cardinality({m}) = 1
        BY FS_Singleton
      <4>2. Cardinality(message') = 1
        BY <3>2, <4>1
      <4> QED
        BY <4>2
    <3>3. message' = message \/ \E m : message' = {m}
      BY <1>13 DEF Order
    <3> QED
      BY <3>1, <3>2, <3>3, Zenon
  <2> QED
    BY <1>13, <2>1, <2>2 DEF Order, TypeOK
<1>14. ASSUME NEW q \in queries, Matched(q) \/ Dropped(q) PROVE TypeOK'
  <2>1. ASSUME NEW f \in Query PROVE [f EXCEPT !.found = TRUE] \in Query
    BY DEF Query
  <2>2. queries' \subseteq Query
    BY <1>14, <2>1 DEF Matched, Dropped, TypeOK
  <2> QED
    BY <1>14, <2>2 DEF Matched, Dropped, TypeOK
<1>15. ASSUME NEW q \in queries, NotFound(q) PROVE TypeOK'
  <2>1. q.stale \in BOOLEAN /\ missed' \subseteq Nat
    <3>1. q.stale \in BOOLEAN /\ q.id \in Nat
      BY DEF TypeOK, Query
    <3> QED
      BY <1>15, <3>1 DEF NotFound, TypeOK
  <2>2. CASE q.index \in DOMAIN items
    <3>1. items' \in Seq(Item) /\ Len(items') = Len(items)
      BY <1>15, <2>2, MarkOfOne DEF NotFound, TypeOK
    <3>2. pending' \in Seq({"load", "save"})
      <4>1. pending' = pending \o <<"save", "load">>
        BY <1>15, <2>2 DEF NotFound
      <4> QED
        BY <4>1 DEF TypeOK
    <3>3. slipped' \in BOOLEAN
      BY <1>15, <2>1, <2>2 DEF NotFound, TypeOK
    <3> QED
      BY <1>15, <2>1, <3>1, <3>2, <3>3 DEF NotFound, TypeOK
  <2>3. CASE q.index \notin DOMAIN items
    BY <1>15, <2>1, <2>3 DEF NotFound, TypeOK
  <2> QED
    BY <2>2, <2>3
<1>16. ASSUME NEW id \in catalog, Withdraw(id) PROVE TypeOK'
  BY <1>16 DEF Withdraw, TypeOK
<1>17. ASSUME NEW i \in DOMAIN saved, Publish(saved[i].id) PROVE TypeOK'
  <2>1. ASSUME NEW it \in Item PROVE it.id \in Nat
    BY DEF Item
  <2>2. saved[i].id \in Nat
    BY <2>1, ItemAt DEF TypeOK
  <2> QED
    BY <1>17, <2>2 DEF Publish, TypeOK
<1>18. CASE UNCHANGED vars
  BY <1>18 DEF TypeOK
<1> QED
  BY <1>1, <1>2, <1>3, <1>5, <1>6, <1>7, <1>8, <1>9, <1>10, <1>11, <1>12, <1>13, <1>14, <1>15, <1>16, <1>17,
     <1>18 DEF Next

\* Typing: whatever the orders and prices, the screen's rows stay as many as its
\* items, and its total a number.
THEOREM TypeCorrect == Spec => []TypeOK
  BY InitTypeOK, StepTypeOK, PTL DEF Spec

-----------------------------------------------------------------------------
(* The order of the continuations *)

\* Between events of a screen that can still be used nothing is pending, unless
\* the storage plug-in is not ready: then the screen is still empty.
LEMMA EventIsSettled ==
  ASSUME TasksInOrder, Event
  PROVE  /\ loaded => pending = <<>>
         /\ ready => loaded
         /\ items # <<>> \/ queries # {} => loaded
  BY DEF TasksInOrder, Event, Quiet

\* The next continuation of a list of tasks is its first.
LEMMA NextTask ==
  ASSUME NEW task \in {"load", "save"}, Run(task),
         pending \in {<<>>, <<"save">>, <<"save", "load">>, <<"load">>, <<"load", "save">>}
  PROVE  \/ pending = <<task>> /\ pending' = <<>>
         \/ task = "save" /\ pending = <<"save", "load">> /\ pending' = <<"load">>
         \/ task = "load" /\ pending = <<"load", "save">> /\ pending' = <<"save">>
<1>1. /\ Head(<<"save">>) = "save" /\ Tail(<<"save">>) = <<>>
      /\ Head(<<"load">>) = "load" /\ Tail(<<"load">>) = <<>>
  OBVIOUS
<1>2. /\ Head(<<"save", "load">>) = "save" /\ Tail(<<"save", "load">>) = <<"load">>
      /\ Head(<<"load", "save">>) = "load" /\ Tail(<<"load", "save">>) = <<"save">>
  OBVIOUS
<1>3. pending # <<>> /\ Head(pending) = task /\ pending' = Tail(pending)
  BY DEF Run
<1>4. CASE pending = <<"save">>
  BY <1>1, <1>3, <1>4
<1>5. CASE pending = <<"load">>
  BY <1>1, <1>3, <1>5
<1>6. CASE pending = <<"save", "load">>
  BY <1>2, <1>3, <1>6
<1>7. CASE pending = <<"load", "save">>
  BY <1>2, <1>3, <1>7
<1> QED
  BY <1>3, <1>4, <1>5, <1>6, <1>7

\* Lists of tasks that begin differently differ.
LEMMA SaveFirst ==
  ASSUME NEW list \in {<<"save">>, <<"save", "load">>}
  PROVE  list # <<>> /\ list # <<"load">> /\ list # <<"load", "save">>
<1>1. /\ <<"save">>[1] = "save" /\ <<"save", "load">>[1] = "save"
      /\ <<"load">>[1] = "load" /\ <<"load", "save">>[1] = "load"
  OBVIOUS
<1>2. list[1] = "save" /\ list # <<>>
  BY <1>1
<1> QED
  BY <1>1, <1>2

LEMMA StepInOrder == TypeOK /\ TasksInOrder /\ [Next]_vars => TasksInOrder'
<1> SUFFICES ASSUME TypeOK, TasksInOrder, [Next]_vars PROVE TasksInOrder'
  OBVIOUS
<1> USE DEF screen, history, vars
<1>0. /\ Append(<<>>, "load") = <<"load">> /\ Append(<<>>, "save") = <<"save">>
      /\ Append(<<"load">>, "save") = <<"load", "save">> /\ <<>> \o <<"save", "load">> = <<"save", "load">>
      /\ DOMAIN <<>> = {}
  <2>1. Append(<<>>, "load") = <<"load">> /\ Append(<<>>, "save") = <<"save">>
    OBVIOUS
  <2>2. Append(<<"load">>, "save") = <<"load", "save">>
    <3> DEFINE a == Append(<<"load">>, "save")
               b == <<"load", "save">>
    <3>1. a \in Seq({"load", "save"}) /\ Len(a) = 2 /\ a[1] = "load" /\ a[2] = "save"
      OBVIOUS
    <3>2. b \in Seq({"load", "save"}) /\ Len(b) = 2 /\ b[1] = "load" /\ b[2] = "save"
      OBVIOUS
    <3> HIDE DEF a, b
    <3>3. a = [i \in 1 .. 2 |-> a[i]] /\ b = [i \in 1 .. 2 |-> b[i]]
      BY <3>1, <3>2
    <3>4. \A i \in 1 .. 2 : a[i] = b[i]
      BY <3>1, <3>2
    <3>5. a = b
      BY <3>3, <3>4
    <3> QED
      BY <3>5 DEF a, b
  <2>3. <<>> \o <<"save", "load">> = <<"save", "load">>
    <3>1. \A s \in Seq({"save", "load"}) : <<>> \o s = s
      OBVIOUS
    <3> QED
      BY <3>1
  <2>4. DOMAIN <<>> = {}
    OBVIOUS
  <2> QED
    BY <2>1, <2>2, <2>3, <2>4
<1>1. CASE Open
  BY <1>0, <1>1 DEF Open, TasksInOrder
<1>2. CASE Back
  <2>1. pending = <<>>
    BY <1>2, EventIsSettled DEF Back
  <2> QED
    BY <1>2, <2>1 DEF Back, TasksInOrder
<1>3. CASE PrefsReady
  BY <1>3 DEF PrefsReady, TasksInOrder
<1>4. pending \in {<<>>, <<"save">>, <<"save", "load">>, <<"load">>, <<"load", "save">>}
  BY DEF TasksInOrder, TypeOK
<1>5. CASE RunLoad
  <2>1. \/ pending = <<"load">> /\ pending' = <<>>
        \/ pending = <<"load", "save">> /\ pending' = <<"save">>
    BY <1>4, <1>5, NextTask DEF RunLoad
  <2>2. ready /\ open
    BY <1>5, <2>1 DEF RunLoad, Run, TasksInOrder
  <2> QED
    BY <1>5, <2>1, <2>2 DEF RunLoad, TasksInOrder
<1>6. CASE RunSave
  <2>1. \/ pending = <<"save">> /\ pending' = <<>>
        \/ pending = <<"save", "load">> /\ pending' = <<"load">>
    BY <1>4, <1>6, NextTask DEF RunSave
  <2>2. loaded /\ open
    BY <2>1, SaveFirst DEF TasksInOrder, TypeOK
  <2> QED
    BY <1>6, <2>1, <2>2 DEF RunSave, TasksInOrder
<1>7. ASSUME NEW i \in DOMAIN items, NEW d, NEW dlv, Event, SetUnits(i, d, dlv) PROVE TasksInOrder'
  <2>1. loaded /\ pending = <<>> /\ ready /\ open
    BY <1>0, <1>7, EventIsSettled DEF TasksInOrder, Event
  <2> QED
    BY <1>7, <2>1 DEF SetUnits, TasksInOrder
<1>8. ASSUME NEW i \in DOMAIN items, Remove(i) PROVE TasksInOrder'
  <2>1. loaded /\ pending = <<>> /\ ready /\ open
    BY <1>0, <1>8, EventIsSettled DEF TasksInOrder, Event, Remove
  <2> QED
    BY <1>0, <1>8, <2>1 DEF Remove, TasksInOrder
<1>9. CASE Clear
  <2>1. open /\ items' = <<>> /\ UNCHANGED <<open, loaded, ready, saved>> /\ pending' = Append(pending, "save")
    BY <1>9 DEF Clear, Event
  <2>2. CASE loaded
    <3>1. pending = <<>> /\ ready
      BY <1>9, <2>2, EventIsSettled DEF Clear, TasksInOrder
    <3> QED
      BY <1>0, <2>1, <2>2, <3>1 DEF TasksInOrder
  <2>3. CASE ~loaded
    <3>1. ~ready /\ Len(pending) < 2 /\ pending \in {<<"load">>, <<"load", "save">>} /\ queries = {}
      BY <1>9, <2>1, <2>3, EventIsSettled DEF Clear, TasksInOrder
    <3>2. pending = <<"load">>
      BY <3>1
    <3>3. queries' = {}
      BY <1>9, <3>1 DEF Clear, Shift
    <3> QED
      BY <1>0, <2>1, <2>3, <3>2, <3>3 DEF TasksInOrder
  <2> QED
    BY <2>2, <2>3
<1>10. ASSUME NEW q \in queries, NotFound(q) PROVE TasksInOrder'
  <2>1. loaded /\ pending = <<>> /\ ready /\ open
    BY <1>10, EventIsSettled DEF TasksInOrder, Event, NotFound
  <2> QED
    BY <1>0, <1>10, <2>1 DEF NotFound, TasksInOrder
<1>11. ASSUME NEW q \in queries, Matched(q) \/ Dropped(q) PROVE TasksInOrder'
  BY <1>11 DEF Matched, Dropped, TasksInOrder
<1>12. ASSUME UNCHANGED <<saved, ready, pending, open, items, queries, loaded>> PROVE TasksInOrder'
  BY <1>12 DEF TasksInOrder
<1>13. ASSUME NEW b, SetDelivery(b) \/ Order(b) PROVE TasksInOrder'
  BY <1>12, <1>13 DEF SetDelivery, Order
<1>14. CASE RecreateRows
  BY <1>12, <1>14 DEF RecreateRows
<1>15. ASSUME NEW id, Withdraw(id) \/ Publish(id) PROVE TasksInOrder'
  BY <1>12, <1>15 DEF Withdraw, Publish
<1>16. CASE UNCHANGED vars
  BY <1>12, <1>16
<1> QED
  BY <1>1, <1>2, <1>3, <1>5, <1>6, <1>7, <1>8, <1>9, <1>10, <1>11, <1>13, <1>14, <1>15, <1>16
     DEF Next, AddUnit, SubUnit

LEMMA InitInOrder == Init => TasksInOrder
  BY DEF Init, TasksInOrder

-----------------------------------------------------------------------------
(* The total *)

LEMMA Both == \A b \in BOOLEAN : (b /\ ~FALSE) = b /\ (b /\ ~b) = FALSE
  OBVIOUS

\* What "+", "-" and an order leave out of the sum is what bare says.
LEMMA BareFee ==
  ASSUME NEW b \in BOOLEAN, NEW dlv \in {FALSE, b}
  PROVE  (b /\ ~(b /\ ~dlv)) = dlv
  OBVIOUS

LEMMA StepTotal == TypeOK /\ TasksInOrder /\ TotalIsComing /\ [Next]_vars => TotalIsComing'
<1> SUFFICES ASSUME TypeOK, TasksInOrder, TotalIsComing, [Next]_vars PROVE TotalIsComing'
  OBVIOUS
<1> USE DEF screen, history, vars
<1>1. delivery \in BOOLEAN
  BY DEF TypeOK
<1>2. ASSUME NEW dlv \in BOOLEAN, total' = Total(items', dlv), (delivery' /\ ~bare') = dlv PROVE TotalIsComing'
  BY <1>2 DEF TotalIsComing
<1>3. ASSUME UNCHANGED <<open, pending, items, delivery, total, bare, loaded>> PROVE TotalIsComing'
  BY <1>3 DEF TotalIsComing
<1>4. ASSUME ~open' PROVE TotalIsComing'
  BY <1>4 DEF TotalIsComing
<1>5. CASE Open
  <2>1. total' = Total(items', FALSE) /\ (delivery' /\ ~bare') = FALSE
    BY <1>5, EmptyTotal DEF Open
  <2> QED
    BY <1>2, <2>1
<1>6. CASE Back
  BY <1>4, <1>6 DEF Back
<1>7. CASE RunLoad
  <2>1. total' = Total(items', delivery) /\ delivery' = delivery /\ bare' = FALSE
    BY <1>7 DEF RunLoad
  <2>2. (delivery' /\ ~bare') = delivery
    BY <1>1, <2>1, Both
  <2> QED
    BY <1>1, <1>2, <2>1, <2>2
<1>8. CASE RunSave
  <2>1. \/ pending = <<"save">> /\ pending' = <<>>
        \/ pending = <<"save", "load">> /\ pending' = <<"load">>
    BY <1>8, NextTask DEF RunSave, TasksInOrder, TypeOK
  <2> QED
    BY <1>8, <2>1 DEF RunSave, TotalIsComing
<1>9. ASSUME NEW i, NEW d, NEW dlv \in {FALSE, delivery}, SetUnits(i, d, dlv) PROVE TotalIsComing'
  <2>1. total' = Total(items', dlv) /\ delivery' = delivery /\ bare' = (delivery /\ ~dlv) /\ dlv \in BOOLEAN
    BY <1>1, <1>9 DEF SetUnits
  <2>2. (delivery' /\ ~bare') = dlv
    BY <1>1, <2>1, BareFee
  <2> QED
    BY <1>2, <2>1, <2>2
<1>10. ASSUME delivery' \in BOOLEAN, total' = Total(items', delivery'), bare' = FALSE PROVE TotalIsComing'
  <2>1. (delivery' /\ ~bare') = delivery'
    BY <1>10, Both
  <2> QED
    BY <1>2, <1>10, <2>1
<1>11. ASSUME NEW i \in DOMAIN items, Remove(i) PROVE TotalIsComing'
  BY <1>1, <1>10, <1>11 DEF Remove
<1>12. CASE Clear
  BY <1>1, <1>10, <1>12 DEF Clear
<1>13. ASSUME NEW b \in BOOLEAN, SetDelivery(b) PROVE TotalIsComing'
  BY <1>10, <1>13 DEF SetDelivery
<1>14. ASSUME NEW b \in BOOLEAN, Order(b) PROVE TotalIsComing'
  <2>1. total' = Total(items', FALSE) /\ delivery' = delivery /\ bare' = delivery
    BY <1>14 DEF Order
  <2>2. (delivery' /\ ~bare') = FALSE
    BY <1>1, <2>1, Both
  <2> QED
    BY <1>2, <2>1, <2>2
<1>15. ASSUME NEW q \in queries, NotFound(q) PROVE TotalIsComing'
  <2>1. CASE q.index \in DOMAIN items
    <3>1. pending = <<>> /\ loaded
      BY <1>15, EventIsSettled DEF NotFound
    <3>2. pending' = <<"save", "load">> /\ loaded'
      BY <1>15, <2>1, <3>1 DEF NotFound
    <3> QED
      BY <3>2 DEF TotalIsComing
  <2>2. CASE q.index \notin DOMAIN items
    BY <1>3, <1>15, <2>2 DEF NotFound
  <2> QED
    BY <2>1, <2>2
<1>16. ASSUME PrefsReady \/ RecreateRows \/ (\E q \in queries : Matched(q) \/ Dropped(q))
              \/ \E id : Withdraw(id) \/ Publish(id)
       PROVE  TotalIsComing'
  BY <1>3, <1>16 DEF PrefsReady, RecreateRows, Matched, Dropped, Withdraw, Publish
<1>17. CASE UNCHANGED vars
  BY <1>3, <1>17
<1>18. ASSUME NEW i \in DOMAIN items, AddUnit(i) \/ SubUnit(i) PROVE TotalIsComing'
  <2>1. \/ SetUnits(i, 1, FALSE)
        \/ SetUnits(i, -1, delivery)
    BY <1>18, Zenon DEF AddUnit, SubUnit
  <2>2. FALSE \in {FALSE, delivery} /\ delivery \in {FALSE, delivery}
    OBVIOUS
  <2> QED
    BY <1>9, <2>1, <2>2
<1> QED
  BY <1>5, <1>6, <1>7, <1>8, <1>11, <1>12, <1>13, <1>14, <1>15, <1>16, <1>17, <1>18 DEF Next

\* The total: between events the screen shows the value of its items and the fee
\* of the mode chosen, or exactly that without the fee, for lists of any length.
THEOREM TotalIsCurrent == Spec => []TotalAgreesUnlessBare
<1>1. Init => TotalIsComing
  BY DEF Init, TotalIsComing
<1>2. TasksInOrder /\ TotalIsComing => TotalAgreesUnlessBare
  <2> SUFFICES ASSUME TasksInOrder, TotalIsComing, Event PROVE total = Total(items, delivery /\ ~bare)
    BY DEF TotalAgreesUnlessBare
  <2>1. open /\ (loaded => pending = <<>>)
    BY EventIsSettled DEF Event
  <2> QED
    BY <2>1 DEF TotalIsComing
<1> QED
  BY <1>1, <1>2, InitTypeOK, StepTypeOK, InitInOrder, StepInOrder, StepTotal, PTL DEF Spec

-----------------------------------------------------------------------------
(* What leaving the screen forgets *)

LEMMA SameUnpriced ==
  ASSUME NEW l1, NEW l2, DOMAIN l1 = DOMAIN l2,
         \A j \in DOMAIN l2 : l1[j].id = l2[j].id /\ l1[j].renamed = l2[j].renamed /\ l1[j].valueUn = l2[j].valueUn
  PROVE  Unpriced(l1) = Unpriced(l2)
  BY DEF Unpriced

LEMMA StepSaveIsComing == TypeOK /\ TasksInOrder /\ SaveIsComing /\ [Next]_vars => SaveIsComing'
<1> SUFFICES ASSUME TypeOK, TasksInOrder, SaveIsComing, [Next]_vars PROVE SaveIsComing'
  OBVIOUS
<1> USE DEF screen, history, vars
<1>1. ASSUME UNCHANGED <<saved, pending, loaded>>, Unpriced(items') = Unpriced(items) PROVE SaveIsComing'
  BY <1>1 DEF SaveIsComing, Unpriced
<1>2. ASSUME saved' = items' PROVE SaveIsComing'
  BY <1>2 DEF SaveIsComing, Unpriced
<1>3. ASSUME pending = <<>>, pending' = Append(pending, "save") PROVE SaveIsComing'
  <2>1. Append(<<>>, "save") = <<"save">>
    OBVIOUS
  <2> QED
    BY <1>3, <2>1 DEF SaveIsComing
<1>4. CASE Open
  BY <1>4 DEF Open, SaveIsComing
<1>5. CASE RunLoad
  BY <1>2, <1>5 DEF RunLoad
<1>6. CASE RunSave
  BY <1>2, <1>6 DEF RunSave
<1>7. ASSUME NEW i \in DOMAIN items, NEW d \in Int, NEW dlv, SetUnits(i, d, dlv) PROVE SaveIsComing'
  <2>1. items \in Seq(Item) /\ items' = [items EXCEPT ![i].units = @ + d]
    BY <1>7 DEF SetUnits, TypeOK
  <2>2. Unpriced(items') = Unpriced(items)
    <3>1. /\ DOMAIN items' = DOMAIN items
          /\ \A j \in DOMAIN items : /\ items'[j].id = items[j].id /\ items'[j].renamed = items[j].renamed
                                     /\ items'[j].valueUn = items[j].valueUn
      BY <2>1, UnitsOfOne
    <3> QED
      BY <3>1, SameUnpriced
  <2> QED
    BY <1>1, <1>7, <2>2 DEF SetUnits
<1>8. ASSUME NEW i \in DOMAIN items, AddUnit(i) \/ SubUnit(i) PROVE SaveIsComing'
  <2>1. SetUnits(i, 1, FALSE) \/ SetUnits(i, -1, delivery)
    BY <1>8, Zenon DEF AddUnit, SubUnit
  <2>2. 1 \in Int /\ -1 \in Int
    OBVIOUS
  <2> QED
    BY <1>7, <2>1, <2>2
<1>9. ASSUME NEW i \in DOMAIN items, Remove(i) PROVE SaveIsComing'
  <2>1. items # <<>>
    OBVIOUS
  <2>2. pending = <<>>
    BY <1>9, <2>1, EventIsSettled DEF Remove
  <2> QED
    BY <1>3, <1>9, <2>2 DEF Remove
<1>10. CASE Clear
  <2>1. CASE loaded
    BY <1>3, <1>10, <2>1, EventIsSettled DEF Clear
  <2>2. CASE ~loaded
    BY <1>10, <2>2 DEF Clear, SaveIsComing
  <2> QED
    BY <2>1, <2>2
<1>11. ASSUME NEW q \in queries, NotFound(q) PROVE SaveIsComing'
  <2>1. CASE q.index \in DOMAIN items
    <3>1. pending = <<>> /\ pending' = pending \o <<"save", "load">>
      BY <1>11, <2>1, EventIsSettled DEF NotFound
    <3>2. pending' = <<"save", "load">>
      BY <3>1
    <3> QED
      BY <3>2 DEF SaveIsComing
  <2>2. CASE q.index \notin DOMAIN items
    BY <1>1, <1>11, <2>2 DEF NotFound
  <2> QED
    BY <2>1, <2>2
<1>12. ASSUME UNCHANGED <<saved, pending, loaded, items>> PROVE SaveIsComing'
  BY <1>1, <1>12
<1>13. ASSUME Back \/ PrefsReady \/ RecreateRows \/ (\E q \in queries : Matched(q) \/ Dropped(q))
              \/ \E id : Withdraw(id) \/ Publish(id)
       PROVE  SaveIsComing'
  BY <1>12, <1>13 DEF Back, PrefsReady, RecreateRows, Matched, Dropped, Withdraw, Publish
<1>14. ASSUME NEW b \in BOOLEAN, SetDelivery(b) \/ Order(b) PROVE SaveIsComing'
  BY <1>12, <1>14 DEF SetDelivery, Order
<1>15. CASE UNCHANGED vars
  BY <1>12, <1>15
<1> QED
  BY <1>4, <1>5, <1>6, <1>8, <1>9, <1>10, <1>11, <1>13, <1>14, <1>15 DEF Next

\* Leaving the screen between events forgets units and nothing else, whatever
\* answers saved and reloaded the list meanwhile.
THEOREM UnitsAreAllThatIsLost == Spec => []OnlyUnitsUnsaved
<1>1. Init => SaveIsComing
  BY DEF Init, SaveIsComing
<1>2. TasksInOrder /\ SaveIsComing => OnlyUnitsUnsaved
  <2> SUFFICES ASSUME TasksInOrder, SaveIsComing, Event, loaded PROVE Unpriced(saved) = Unpriced(items)
    BY DEF OnlyUnitsUnsaved
  <2>1. pending = <<>>
    BY EventIsSettled
  <2> QED
    BY <2>1, SaveFirst DEF SaveIsComing
<1> QED
  BY <1>1, <1>2, InitTypeOK, StepTypeOK, InitInOrder, StepInOrder, StepSaveIsComing, PTL DEF Spec

-----------------------------------------------------------------------------
(* Undeserved marks *)

\* Earned, and what is asked of a question, with the state they are read in.
Justified(list, slip, gone) ==
  \A i \in DOMAIN list : list[i].renamed => slip \/ (list[i].type = "promotion" /\ list[i].id \in gone)
Sound(q, list, slip, gone) ==
  /\ q.renamed => slip \/ q.id \in gone
  /\ ~q.stale => q.index \in DOMAIN list /\ list[q.index].id = q.id /\ list[q.index].type = "promotion"

LEMMA MarksParts ==
  MarksAreSound <=> /\ Justified(items, slipped, missed) /\ Justified(saved, slipped, missed)
                       /\ \A q \in queries : Sound(q, items, slipped, missed)
  BY DEF MarksAreSound, OnlyMissingIsMarked, Earned, Justified, Sound

LEMMA MarksPartsAfter ==
  ASSUME Justified(items', slipped', missed'), Justified(saved', slipped', missed'),
         \A q \in queries' : Sound(q, items', slipped', missed')
  PROVE  MarksAreSound'
  BY DEF MarksAreSound, OnlyMissingIsMarked, Earned, Justified, Sound

\* A slip is remembered, and so is what was missing.
LEMMA StaysJustified ==
  ASSUME NEW list, NEW slip, NEW later, slip => later, NEW gone, NEW more, gone \subseteq more,
         Justified(list, slip, gone)
  PROVE  Justified(list, later, more)
  BY DEF Justified

LEMMA StaysSound ==
  ASSUME NEW list, NEW new, NEW slip, NEW later, slip => later, NEW gone, NEW more, gone \subseteq more,
         NEW q, Sound(q, list, slip, gone),
         q.stale \/ (DOMAIN list \subseteq DOMAIN new
                     /\ \A j \in DOMAIN list : new[j].id = list[j].id /\ new[j].type = list[j].type)
  PROVE  Sound(q, new, later, more)
  BY DEF Sound

\* A shortened list has only items the list had; questions are stale after it.
LEMMA ShiftIsSound ==
  ASSUME TypeOK, Shift, NEW list, NEW new, \A q \in queries : Sound(q, list, slipped, missed)
  PROVE  \A q \in queries' : Sound(q, new, slipped, missed)
<1>1. ASSUME NEW q \in Query
      PROVE  LET old == [q EXCEPT !.stale = TRUE]
             IN  old.stale /\ old.renamed = q.renamed /\ old.id = q.id
  BY DEF Query
<1>2. ASSUME NEW q \in queries PROVE Sound([q EXCEPT !.stale = TRUE], new, slipped, missed)
  <2>1. q \in Query
    BY DEF TypeOK
  <2> QED
    BY <1>1, <2>1 DEF Sound
<1> QED
  BY <1>2 DEF Shift

\* What load() asks is about the list it asks for.
LEMMA AskIsSound ==
  ASSUME NEW list, NEW r, NEW slip, NEW gone, Justified(list, slip, gone)
  PROVE  \A q \in Ask(list, r) : Sound(q, list, slip, gone)
  BY DEF Ask, Sound, Justified

LEMMA StepMarks == TypeOK /\ TasksInOrder /\ MarksAreSound /\ [Next]_vars => MarksAreSound'
<1> SUFFICES ASSUME TypeOK, TasksInOrder, MarksAreSound, [Next]_vars PROVE MarksAreSound'
  OBVIOUS
<1> USE DEF screen, history, vars
<1>0. /\ Justified(items, slipped, missed) /\ Justified(saved, slipped, missed)
      /\ \A q \in queries : Sound(q, items, slipped, missed)
  BY MarksParts
<1>00. Justified(<<>>, slipped, missed)
  BY DEF Justified
<1>1. CASE Open
  BY <1>0, <1>1, <1>00, MarksPartsAfter DEF Open
<1>2. CASE Back
  BY <1>0, <1>2, MarksPartsAfter DEF Back
<1>3. CASE RunLoad
  <2>1. PICK r : queries' = queries \cup Ask(saved, r)
    BY <1>3 DEF RunLoad
  <2>2. items' = saved /\ UNCHANGED <<saved, slipped, missed>>
    BY <1>3 DEF RunLoad
  <2>3. \A q \in Ask(saved, r) : Sound(q, saved, slipped, missed)
    BY <1>0, AskIsSound
  <2>4. \A q \in queries : Sound(q, saved, slipped, missed)
    <3>1. CASE loaded
      <4>1. pending \in {<<>>, <<"save">>, <<"save", "load">>, <<"load">>}
        BY <3>1 DEF TasksInOrder
      <4>2. pending = <<"load">>
        BY <1>3, <4>1, NextTask DEF RunLoad
      <4>3. saved = items
        BY <3>1, <4>2 DEF TasksInOrder
      <4> QED
        BY <1>0, <4>3
    <3>2. CASE ~loaded
      <4>1. pending # <<>>
        BY <1>3 DEF RunLoad, Run
      <4>2. queries = {}
        BY <3>2, <4>1 DEF TasksInOrder
      <4> QED
        BY <4>2
    <3> QED
      BY <3>1, <3>2
  <2> QED
    BY <1>0, <2>1, <2>2, <2>3, <2>4, MarksPartsAfter
<1>4. CASE RunSave
  BY <1>0, <1>4, MarksPartsAfter DEF RunSave
<1>5. ASSUME NEW i \in DOMAIN items, NEW d \in Int, NEW dlv, SetUnits(i, d, dlv) PROVE MarksAreSound'
  <2>1. items \in Seq(Item) /\ items' = [items EXCEPT ![i].units = @ + d]
    BY <1>5 DEF SetUnits, TypeOK
  <2>2. /\ DOMAIN items' = DOMAIN items
        /\ \A j \in DOMAIN items : /\ items'[j].id = items[j].id /\ items'[j].type = items[j].type
                                   /\ items'[j].renamed = items[j].renamed
    BY <2>1, UnitsOfOne
  <2>3. UNCHANGED <<saved, slipped, missed, queries>>
    BY <1>5 DEF SetUnits
  <2>4. Justified(items', slipped, missed)
    BY <1>0, <2>2 DEF Justified
  <2>5. \A q \in queries : Sound(q, items', slipped, missed)
    BY <1>0, <2>2, StaysSound
  <2> QED
    BY <1>0, <2>3, <2>4, <2>5, MarksPartsAfter
<1>6. ASSUME NEW i \in DOMAIN items, AddUnit(i) \/ SubUnit(i) PROVE MarksAreSound'
  <2>1. SetUnits(i, 1, FALSE) \/ SetUnits(i, -1, delivery)
    BY <1>6, Zenon DEF AddUnit, SubUnit
  <2>2. 1 \in Int /\ -1 \in Int
    OBVIOUS
  <2> QED
    BY <1>5, <2>1, <2>2
<1>7. ASSUME NEW i \in DOMAIN items, Remove(i) PROVE MarksAreSound'
  <2>1. /\ DOMAIN items' = 1 .. Len(items) - 1
        /\ \A j \in 1 .. Len(items) - 1 : items'[j] = IF j < i THEN items[j] ELSE items[j + 1]
    BY <1>7, WithoutIsSeq DEF Remove, TypeOK
  <2>2. \A j \in DOMAIN items' : \E k \in DOMAIN items : items'[j] = items[k]
    <3>1. items \in Seq(Item) /\ i \in 1 .. Len(items)
      BY DEF TypeOK
    <3>2. ASSUME NEW j \in 1 .. Len(items) - 1 PROVE j \in DOMAIN items /\ j + 1 \in DOMAIN items
      BY <3>1
    <3> QED
      BY <2>1, <3>2
  <2>3. Justified(items', slipped, missed)
    BY <1>0, <2>2 DEF Justified
  <2>4. \A q \in queries' : Sound(q, items', slipped, missed)
    BY <1>0, <1>7, ShiftIsSound DEF Remove
  <2> QED
    BY <1>0, <1>7, <2>3, <2>4, MarksPartsAfter DEF Remove
<1>8. CASE Clear
  <2>1. \A q \in queries' : Sound(q, items', slipped, missed)
    BY <1>0, <1>8, ShiftIsSound DEF Clear
  <2> QED
    BY <1>0, <1>00, <1>8, <2>1, MarksPartsAfter DEF Clear
<1>9. ASSUME NEW q \in queries, NotFound(q) PROVE MarksAreSound'
  <2>0. /\ UNCHANGED saved /\ queries' = queries \ {q} /\ missed \subseteq missed'
        /\ q.renamed \/ q.id \in missed'
    BY <1>9 DEF NotFound
  <2>1. CASE q.index \in DOMAIN items
    <3>1. items \in Seq(Item) /\ items' = MarkUnavailable(items, q.index) /\ slipped' = (slipped \/ q.stale)
      BY <1>9, <2>1 DEF NotFound, TypeOK
    <3>2. /\ DOMAIN items' = DOMAIN items
          /\ \A j \in DOMAIN items : items'[j].id = items[j].id /\ items'[j].type = items[j].type
          /\ \A j \in DOMAIN items : j # q.index => items'[j] = items[j]
      BY <2>1, <3>1, MarkOfOne
    <3>3. slipped => slipped'
      BY <3>1
    <3>4. Justified(saved, slipped', missed')
      BY <1>0, <2>0, <3>3, StaysJustified
    <3>5. \A p \in queries : Sound(p, items', slipped', missed')
      BY <1>0, <2>0, <3>2, <3>3, StaysSound
    <3>6. slipped' \/ (items[q.index].type = "promotion" /\ items[q.index].id \in missed')
      BY <1>0, <2>0, <2>1, <3>1 DEF Sound
    <3>7. Justified(items', slipped', missed')
      BY <1>0, <2>0, <3>2, <3>3, <3>6 DEF Justified
    <3> QED
      BY <2>0, <3>4, <3>5, <3>7, MarksPartsAfter
  <2>2. CASE q.index \notin DOMAIN items
    <3>1. UNCHANGED <<items, slipped>>
      BY <1>9, <2>2 DEF NotFound
    <3>2. Justified(items, slipped, missed') /\ Justified(saved, slipped, missed')
      BY <1>0, <2>0, StaysJustified
    <3>3. \A p \in queries : Sound(p, items, slipped, missed')
      BY <1>0, <2>0, StaysSound
    <3> QED
      BY <2>0, <3>1, <3>2, <3>3, MarksPartsAfter
  <2> QED
    BY <2>1, <2>2
<1>10. ASSUME NEW q \in queries, Matched(q) \/ Dropped(q) PROVE MarksAreSound'
  <2>1. UNCHANGED <<items, saved, slipped, missed>>
    BY <1>10 DEF Matched, Dropped
  <2>2. ASSUME NEW f \in Query, Sound(f, items, slipped, missed)
        PROVE  Sound([f EXCEPT !.found = TRUE], items, slipped, missed)
    <3>1. LET g == [f EXCEPT !.found = TRUE]
          IN  g.renamed = f.renamed /\ g.id = f.id /\ g.stale = f.stale /\ g.index = f.index
      BY DEF Query
    <3> QED
      BY <2>2, <3>1 DEF Sound
  <2>3. \A p \in queries' : p \in queries \/ p = [q EXCEPT !.found = TRUE]
    BY <1>10 DEF Matched, Dropped
  <2>4. \A p \in queries' : Sound(p, items, slipped, missed)
    BY <1>0, <2>2, <2>3 DEF TypeOK
  <2> QED
    BY <1>0, <2>1, <2>4, MarksPartsAfter
<1>12. ASSUME UNCHANGED <<items, saved, queries, slipped, missed>> PROVE MarksAreSound'
  BY <1>0, <1>12, MarksPartsAfter
<1>13. ASSUME \/ PrefsReady \/ RecreateRows \/ \E b \in BOOLEAN : SetDelivery(b) \/ Order(b)
              \/ \E id : Withdraw(id) \/ Publish(id)
       PROVE  MarksAreSound'
  BY <1>12, <1>13 DEF PrefsReady, RecreateRows, SetDelivery, Order, Withdraw, Publish
<1>14. CASE UNCHANGED vars
  BY <1>12, <1>14
<1> QED
  BY <1>1, <1>2, <1>3, <1>4, <1>6, <1>7, <1>8, <1>9, <1>10, <1>13, <1>14 DEF Next

\* An item of the screen or of the saved list is marked unavailable only if it is a
\* promotion that was missing when an answer about it was handled, unless an answer
\* slipped onto another item after a removal; for lists of any length, any number of
\* answers in flight, and promotions withdrawn and published at any time.
THEOREM MarksAreEarned == Spec => []OnlyMissingIsMarked
<1>1. Init => MarksAreSound
  BY DEF Init, MarksAreSound, OnlyMissingIsMarked, Earned
<1>2. MarksAreSound => OnlyMissingIsMarked
  BY DEF MarksAreSound, OnlyMissingIsMarked, Earned, OnlyMissingIsMarked
<1> QED
  BY <1>1, <1>2, InitTypeOK, StepTypeOK, InitInOrder, StepInOrder, StepMarks, PTL DEF Spec
=============================================================================
