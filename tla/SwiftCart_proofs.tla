--------------------------- MODULE SwiftCart_proofs ---------------------------
(***************************************************************************)
(* Theorems about the carts of the iOS app, for every set of products,     *)
(* every price and every bound of SwiftCart.                               *)
(***************************************************************************)
EXTENDS SwiftCart, DataTheorems

Entities == [Stores -> Seq(Object)]

LEMMA StoresAre == Stores = {"CurrentPurchase", "RepeatPurchase"}
  BY DEF Stores

\* Removing an object from a fetched list leaves a list of objects.
LEMMA WithoutIsSeq ==
  ASSUME NEW list \in Seq(Object), NEW k \in 1 .. Len(list)
  PROVE  Without(list, k) \in Seq(Object)
<1>1. Len(list) - 1 \in Nat
  OBVIOUS
<1>2. Without(list, k) \in [1 .. Len(list) - 1 -> Object]
  BY <1>1 DEF Without
<1> QED
  BY <1>1, <1>2

\* Changing the units of one object within their bounds keeps the list.
LEMMA UnitsKeepObjects ==
  ASSUME NEW list \in Seq(Object), NEW i \in 1 .. Len(list), NEW n \in 1 .. MaxUnits
  PROVE  [list EXCEPT ![i].units = n] \in Seq(Object)
<1>1. ASSUME NEW o \in Object PROVE [o EXCEPT !.units = n] \in Object
  BY DEF Object
<1>2. list[i] \in Object
  OBVIOUS
<1>3. [list[i] EXCEPT !.units = n] \in Object
  BY <1>1, <1>2
<1> QED
  BY <1>3

\* Replacing one entity's objects keeps the context a context and leaves the
\* other entity alone.
LEMMA PutTypes ==
  ASSUME context \in Entities, NEW entity \in Stores, NEW objects \in Seq(Object)
  PROVE  /\ Put(entity, objects) \in Entities
         /\ Put(entity, objects)[entity] = objects
         /\ \A other \in Stores : other # entity => Put(entity, objects)[other] = context[other]
  BY DEF Put, Entities

\* managedContext.save() leaves both the context and the disk in one piece.
LEMMA SaveTypes ==
  ASSUME TypeOK, NEW changed \in Entities, Save(changed)
  PROVE  /\ context' = changed
         /\ store' \in Entities /\ (store' = changed \/ store' = store)
         /\ failures' \in 0 .. MaxFailures
         /\ \/ failures' = failures /\ store' = changed
            \/ failures' # 0 /\ store' = store
<1>1. failures \in 0 .. MaxFailures /\ MaxFailures \in Nat
  BY CartAssumption DEF TypeOK
<1>2. context' = changed /\ store \in Entities
  BY DEF Save, TypeOK, Entities
<1>3. CASE store' = changed /\ failures' = failures
  BY <1>1, <1>2, <1>3
<1>4. CASE failures < MaxFailures /\ failures' = failures + 1 /\ store' = store
  BY <1>1, <1>2, <1>4
<1> QED
  BY <1>3, <1>4 DEF Save

\* updateData() shows the context it finds.
LEMMA UpdateDataTypes ==
  ASSUME NEW entity \in Stores, NEW dlv, context' \in Entities, UpdateData(entity, dlv)
  PROVE  /\ itemsProduct' = context'[entity] /\ itemsProduct' \in Seq(Object)
         /\ rows' = Len(itemsProduct') /\ rows' \in Nat
         /\ label' = Total(itemsProduct', dlv)
  BY DEF UpdateData, UpdateTotalValue, Entities

\* The empty carts are well typed.
LEMMA InitTypeOK == Init => TypeOK
<1>1. <<>> \in Seq(Object) /\ 0 \in 0 .. MaxFailures /\ 1 \in 1 .. MaxId + 1
  BY CartAssumption
<1>2. [e \in Stores |-> <<>>] \in [Stores -> Seq(Object)]
  BY <1>1
<1>3. [list |-> <<>>, total |-> 0].list \in Seq(Object)
  BY <1>1
<1>4. Init => context \in [Stores -> Seq(Object)] /\ store \in [Stores -> Seq(Object)]
  BY <1>2 DEF Init
<1>5. Init => message.list \in Seq(Object)
  BY <1>3 DEF Init
<1>6. Init => itemsProduct \in Seq(Object) /\ left \in Seq(Object) /\ order \in Seq(Object) /\ old \in Seq(Object)
  BY <1>1 DEF Init
<1>7. Init => nextId \in 1 .. MaxId + 1 /\ failures \in 0 .. MaxFailures /\ rows \in Nat
  BY <1>1 DEF Init
<1>8. Init => delivery \in BOOLEAN /\ copying \in BOOLEAN /\ intact \in BOOLEAN
              /\ screen \in Stores \cup {"none"}
  BY Zenon DEF Init
<1> QED
  BY <1>4, <1>5, <1>6, <1>7, <1>8 DEF TypeOK


\* What the customer does on either screen keeps everything but the edited
\* entity and what the screen shows of it.
LEMMA EditTypes ==
  ASSUME TypeOK, NEW entity \in Stores, NEW objects \in Seq(Object),
         Save(Put(entity, objects)), UpdateData(screen, delivery), Edited,
         screen # "none",
         UNCHANGED <<screen, delivery, copying, left, message, nextId, order, old>>
  PROVE  TypeOK'
<1>1. Put(entity, objects) \in Entities
  BY PutTypes DEF TypeOK, Entities
<1>2. context' \in Entities /\ store' \in Entities /\ failures' \in 0 .. MaxFailures
  BY <1>1, SaveTypes
<1>3. screen \in Stores
  BY DEF TypeOK
<1>4. itemsProduct' \in Seq(Object) /\ rows' \in Nat
  BY <1>2, <1>3, UpdateDataTypes
<1>5. intact' \in BOOLEAN
  BY DEF Edited, TypeOK
<1> QED
  BY <1>2, <1>4, <1>5 DEF TypeOK, Entities

\* Between two events the buttons' row numbers are positions of the fetched
\* list, on a screen that is one of the two.
LEMMA RowsArePositions ==
  ASSUME TypeOK, RowsMatchStore, Idle, NEW i \in 1 .. rows, screen # "none"
  PROVE  /\ screen \in Stores /\ context[screen] \in Seq(Object)
         /\ i \in 1 .. Len(context[screen]) /\ itemsProduct[i] \in Object
         /\ itemsProduct[i].units \in 1 .. MaxUnits
<1>1. screen \in Stores /\ context[screen] \in Seq(Object) /\ itemsProduct = context[screen]
      /\ rows = Len(itemsProduct)
  BY DEF TypeOK, RowsMatchStore
<1>2. itemsProduct[i] \in Object
  BY <1>1
<1>3. ASSUME NEW o \in Object PROVE o.units \in 1 .. MaxUnits
  BY DEF Object
<1> QED
  BY <1>1, <1>2, <1>3

\* TypeOK is kept by every step; the buttons need to know that the rows of the
\* screen are positions of the entity it shows.
LEMMA StepTypeOK ==
  ASSUME TypeOK, RowsMatchStore, EmptyWithoutScreen, CopyGoesOn, [Next]_vars
  PROVE  TypeOK'
<1>1. ASSUME NEW p \in Products, NEW u \in 1 .. MaxUnits, AddProduct(p, u) PROVE TypeOK'
  <2>1. nextId \in 1 .. MaxId /\ nextId' \in 1 .. MaxId + 1
    BY <1>1, CartAssumption DEF AddProduct, TypeOK
  <2>2. [id |-> nextId, title |-> p, units |-> u] \in Object
    BY <2>1 DEF Object
  <2> DEFINE objects == Append(context["CurrentPurchase"], [id |-> nextId, title |-> p, units |-> u])
  <2>3. objects \in Seq(Object)
    BY <2>2 DEF TypeOK, Stores
  <2>4. Put("CurrentPurchase", objects) \in Entities
    BY <2>3, PutTypes DEF TypeOK, Entities, Stores
  <2>5. context' \in Entities /\ store' \in Entities /\ failures' \in 0 .. MaxFailures
    BY <1>1, <2>4, SaveTypes DEF AddProduct
  <2> QED
    BY <1>1, <2>1, <2>5 DEF AddProduct, TypeOK, Entities, shown
<1>2. ASSUME NEW entity \in Stores, Present(entity) PROVE TypeOK'
  <2>1. context' \in Entities /\ UpdateData(entity, TRUE)
    BY <1>2 DEF Present, TypeOK, Entities
  <2>2. itemsProduct' \in Seq(Object) /\ rows' \in Nat
    BY <2>1, UpdateDataTypes
  <2> QED
    BY <1>2, <2>2 DEF Present, TypeOK, history
<1>3. CASE Dismiss
  <2>1. <<>> \in Seq(Object)
    OBVIOUS
  <2> QED
    BY <1>3, <2>1 DEF Dismiss, TypeOK, history
<1>4. ASSUME NEW dlv \in BOOLEAN, PickDelivery(dlv) PROVE TypeOK'
  BY <1>4 DEF PickDelivery, TypeOK, history
<1>5. ASSUME NEW i \in 1 .. MaxId, AddUnit(i) PROVE TypeOK'
  <2>1. i \in 1 .. rows /\ screen # "none" /\ Idle
    BY <1>5 DEF AddUnit, EmptyWithoutScreen
  <2>2. /\ screen \in Stores /\ context[screen] \in Seq(Object)
        /\ i \in 1 .. Len(context[screen]) /\ itemsProduct[i].units \in 1 .. MaxUnits
    BY <2>1, RowsArePositions
  <2>3. itemsProduct[i].units + 1 \in 1 .. MaxUnits
    BY <1>5, <2>2, CartAssumption DEF AddUnit
  <2>4. [context[screen] EXCEPT ![i].units = itemsProduct[i].units + 1] \in Seq(Object)
    BY <2>2, <2>3, UnitsKeepObjects
  <2> QED
    BY <1>5, <2>1, <2>2, <2>4, EditTypes DEF AddUnit, SetUnits
<1>6. ASSUME NEW i \in 1 .. MaxId, SubUnit(i) PROVE TypeOK'
  <2>1. i \in 1 .. rows /\ screen # "none" /\ Idle
    BY <1>6 DEF SubUnit, EmptyWithoutScreen
  <2>2. /\ screen \in Stores /\ context[screen] \in Seq(Object)
        /\ i \in 1 .. Len(context[screen]) /\ itemsProduct[i].units \in 1 .. MaxUnits
    BY <2>1, RowsArePositions
  <2>3. itemsProduct[i].units - 1 \in 1 .. MaxUnits
    BY <1>6, <2>2, CartAssumption DEF SubUnit
  <2>4. [context[screen] EXCEPT ![i].units = itemsProduct[i].units - 1] \in Seq(Object)
    BY <2>2, <2>3, UnitsKeepObjects
  <2> QED
    BY <1>6, <2>1, <2>2, <2>4, EditTypes DEF SubUnit, SetUnits
<1>7. ASSUME NEW i \in 1 .. MaxId, Close(i) PROVE TypeOK'
  <2>1. i \in 1 .. rows /\ screen # "none" /\ Idle
    BY <1>7 DEF Close, EmptyWithoutScreen
  <2>2. /\ screen \in Stores /\ context[screen] \in Seq(Object)
        /\ i \in 1 .. Len(context[screen])
    BY <2>1, RowsArePositions
  <2>3. Without(context[screen], i) \in Seq(Object)
    BY <2>2, WithoutIsSeq
  <2> QED
    BY <1>7, <2>1, <2>2, <2>3, EditTypes DEF Close
<1>8. CASE Clear
  <2>1. "CurrentPurchase" \in Stores /\ <<>> \in Seq(Object)
    BY DEF Stores
  <2> QED
    BY <1>8, <2>1, EditTypes DEF Clear, DeleteAllRecords
<1>9. CASE StartCopy
  <2>1. "RepeatPurchase" \in Stores /\ <<>> \in Seq(Object)
    BY DEF Stores
  <2>2. DeleteAllRecords("RepeatPurchase") \in Entities
    BY <2>1, PutTypes DEF DeleteAllRecords, TypeOK, Entities
  <2>3. context' \in Entities /\ store' \in Entities /\ failures' \in 0 .. MaxFailures
    BY <1>9, <2>2, SaveTypes DEF StartCopy
  <2>4. itemsProduct' \in Seq(Object) /\ left' \in Seq(Object) /\ order' \in Seq(Object)
        /\ old' \in Seq(Object)
    BY <1>9 DEF StartCopy, Begin, TypeOK, Stores
  <2> QED
    BY <1>9, <2>3, <2>4 DEF StartCopy, Begin, TypeOK, Entities
<1>10. CASE CopyNext
  <2>1. Head(left) \in Object /\ Tail(left) \in Seq(Object)
    BY <1>10 DEF CopyNext, TypeOK
  <2>2. Append(context["RepeatPurchase"], Head(left)) \in Seq(Object) /\ "RepeatPurchase" \in Stores
    BY <2>1 DEF TypeOK, Stores
  <2>3. Insert(Head(left)) \in Entities
    BY <2>2, PutTypes DEF Insert, TypeOK, Entities
  <2>4. context' \in Entities /\ store' \in Entities /\ failures' \in 0 .. MaxFailures
    BY <1>10, <2>3, SaveTypes DEF CopyNext
  <2> QED
    BY <1>10, <2>1, <2>4 DEF CopyNext, TypeOK, Entities, shown
<1>11. CASE Send
  <2>1. message'.list = itemsProduct
    BY <1>11 DEF Send, Write
  <2> QED
    BY <1>11, <2>1 DEF Send, TypeOK
<1>12. CASE SendRepeat
  <2>1. message'.list = itemsProduct
    BY <1>12 DEF SendRepeat, Write
  <2> QED
    BY <1>12, <2>1 DEF SendRepeat, TypeOK, history
<1>13. CASE Kill
  <2>1. <<>> \in Seq(Object)
    OBVIOUS
  <2> QED
    BY <1>13, <2>1 DEF Kill, TypeOK
<1>14. CASE UNCHANGED vars
  BY <1>14 DEF TypeOK, vars, shown, history
<1> QED
  BY <1>1, <1>2, <1>3, <1>4, <1>5, <1>6, <1>7, <1>8, <1>9, <1>10, <1>11, <1>12, <1>13, <1>14
     DEF Next

\* RowsMatchStore and LabelAgrees are kept by every step: each handler fetches
\* again after it saved, and the copy leaves the screen's entity alone.
LEMMA StepShown ==
  ASSUME TypeOK, RowsMatchStore, LabelAgrees, CopyGoesOn, EmptyWithoutScreen, [Next]_vars
  PROVE  RowsMatchStore' /\ LabelAgrees' /\ EmptyWithoutScreen'
<1>1. ASSUME NEW entity \in Stores, NEW dlv, context' \in Entities, UpdateData(entity, dlv),
             screen' = entity, delivery' = dlv, ~copying'
      PROVE  RowsMatchStore' /\ LabelAgrees' /\ EmptyWithoutScreen'
  <2>1. screen' # "none"
    BY <1>1 DEF Stores
  <2> QED
    BY <1>1, <2>1, UpdateDataTypes DEF RowsMatchStore, LabelAgrees, LabelOf, EmptyWithoutScreen
<1>2. ASSUME UpdateData(screen, delivery), UNCHANGED <<screen, delivery, copying>>, Idle,
             screen # "none", TypeOK'
      PROVE  RowsMatchStore' /\ LabelAgrees' /\ EmptyWithoutScreen'
  BY <1>1, <1>2 DEF TypeOK, Entities, Idle
<1>3. ASSUME screen' = "none", rows' = 0, ~copying'
      PROVE  RowsMatchStore' /\ LabelAgrees' /\ EmptyWithoutScreen'
  BY <1>3 DEF RowsMatchStore, LabelAgrees, EmptyWithoutScreen
<1>4. TypeOK'
  BY StepTypeOK
<1>5. ASSUME NEW p \in Products, NEW u \in 1 .. MaxUnits, AddProduct(p, u)
      PROVE  RowsMatchStore' /\ LabelAgrees' /\ EmptyWithoutScreen'
  BY <1>3, <1>5 DEF AddProduct, shown, On, Idle, EmptyWithoutScreen
<1>6. ASSUME NEW entity \in Stores, Present(entity)
      PROVE  RowsMatchStore' /\ LabelAgrees' /\ EmptyWithoutScreen'
  <2>1. context' \in Entities
    BY <1>4 DEF TypeOK, Entities
  <2> QED
    BY <1>1, <1>6, <2>1 DEF Present, On, Idle
<1>7. CASE Dismiss
  BY <1>3, <1>7 DEF Dismiss, Idle
<1>8. ASSUME NEW dlv \in BOOLEAN, PickDelivery(dlv)
      PROVE  RowsMatchStore' /\ LabelAgrees' /\ EmptyWithoutScreen'
  BY <1>8 DEF PickDelivery, UpdateTotalValue, RowsMatchStore, LabelAgrees, LabelOf, EmptyWithoutScreen, Idle
<1>9. ASSUME NEW i \in 1 .. MaxId, AddUnit(i) \/ SubUnit(i) \/ Close(i)
      PROVE  RowsMatchStore' /\ LabelAgrees' /\ EmptyWithoutScreen'
  <2>1. Idle /\ screen # "none"
    BY <1>9 DEF AddUnit, SubUnit, Close, EmptyWithoutScreen
  <2>2. UpdateData(screen, delivery) /\ UNCHANGED <<screen, delivery, copying>>
    BY <1>9 DEF AddUnit, SubUnit, Close, SetUnits
  <2> QED
    BY <1>2, <1>4, <2>1, <2>2
<1>10. CASE Clear
  BY <1>2, <1>4, <1>10 DEF Clear
<1>11. CASE StartCopy
  BY <1>11 DEF StartCopy, Begin, SendCarrinho, On, RowsMatchStore, LabelAgrees, EmptyWithoutScreen, Idle
<1>12. CASE CopyNext
  BY <1>12 DEF CopyNext, shown, RowsMatchStore, LabelAgrees, EmptyWithoutScreen, Idle
<1>13. CASE Send
  BY <1>13 DEF Send, CopyGoesOn, RowsMatchStore, LabelAgrees, LabelOf, EmptyWithoutScreen, Idle
<1>14. CASE SendRepeat
  BY <1>14 DEF SendRepeat, SendCarrinho, On, RowsMatchStore, LabelAgrees, LabelOf, EmptyWithoutScreen, Idle, history
<1>15. CASE Kill
  BY <1>3, <1>15 DEF Kill
<1>16. CASE UNCHANGED vars
  BY <1>16 DEF vars, shown, history, RowsMatchStore, LabelAgrees, LabelOf, EmptyWithoutScreen, Idle
<1> QED
  BY <1>5, <1>6, <1>7, <1>8, <1>9, <1>10, <1>11, <1>12, <1>13, <1>14, <1>15, <1>16 DEF Next

\* CopyGoesOn is kept by every step: only the copy itself changes anything while
\* it runs.
LEMMA StepCopyGoesOn ==
  ASSUME TypeOK, RowsMatchStore, LabelAgrees, CopyGoesOn, EmptyWithoutScreen, [Next]_vars
  PROVE  CopyGoesOn'
<1>1. ASSUME ~copying' PROVE CopyGoesOn'
  BY <1>1 DEF CopyGoesOn
<1>2. CASE StartCopy
  <2>1. "RepeatPurchase" \in Stores /\ "CurrentPurchase" \in Stores /\ <<>> \in Seq(Object)
        /\ "CurrentPurchase" # "RepeatPurchase" /\ "CurrentPurchase" # "none"
    BY DEF Stores
  <2>2. screen = "CurrentPurchase" /\ Idle
    BY <1>2 DEF StartCopy, SendCarrinho, On
  <2>3. /\ context' = DeleteAllRecords("RepeatPurchase")
        /\ context'["RepeatPurchase"] = <<>>
        /\ context'["CurrentPurchase"] = context["CurrentPurchase"]
    BY ZenonT(40), <1>2, <2>1, PutTypes DEF StartCopy, Save, DeleteAllRecords, TypeOK, Entities
  <2>4. itemsProduct = context["CurrentPurchase"] /\ rows = Len(itemsProduct)
        /\ LabelOf(itemsProduct) /\ itemsProduct \in Seq(Object)
    BY <2>1, <2>2 DEF RowsMatchStore, LabelAgrees, TypeOK
  <2>5. itemsProduct' = itemsProduct /\ order' = itemsProduct /\ left' = itemsProduct /\ ~intact'
        /\ UNCHANGED <<screen, rows, delivery, label, message>>
    BY <1>2, <2>4 DEF StartCopy, Begin
  <2>6. /\ Len(itemsProduct) = Len(<<>>) + Len(itemsProduct)
        /\ \A i \in DOMAIN <<>> : <<>>[i] = itemsProduct[i]
        /\ \A i \in DOMAIN itemsProduct : itemsProduct[i] = itemsProduct[Len(<<>>) + i]
    BY <2>4
  <2>7. context'[screen'] = itemsProduct' /\ rows' = Len(itemsProduct')
        /\ LabelOf(itemsProduct)' /\ screen' = "CurrentPurchase"
    BY <2>2, <2>3, <2>4, <2>5 DEF LabelOf
  <2> QED
    BY <2>3, <2>5, <2>6, <2>7 DEF CopyGoesOn
<1>3. CASE CopyNext
  <2> DEFINE made == context["RepeatPurchase"]
  <2>1. copying /\ left # <<>> /\ left \in Seq(Object) /\ made \in Seq(Object)
        /\ order \in Seq(Object)
    BY <1>3 DEF CopyNext, TypeOK, Stores
  <2>2. Head(left) \in Object /\ "RepeatPurchase" \in Stores /\ "CurrentPurchase" \in Stores
        /\ "CurrentPurchase" # "RepeatPurchase"
    BY <2>1 DEF Stores
  <2>3. Append(made, Head(left)) \in Seq(Object)
    BY <2>1, <2>2
  <2>4. context' = Insert(Head(left))
    BY <1>3 DEF CopyNext, Save
  <2>5. context'["RepeatPurchase"] = Append(made, Head(left))
        /\ context'["CurrentPurchase"] = context["CurrentPurchase"]
    BY <2>2, <2>4 DEF Insert, Put, TypeOK
  <2>6. left' = Tail(left) /\ UNCHANGED <<screen, itemsProduct, rows, delivery, label, message, order, intact>>
    BY <1>3 DEF CopyNext, shown
  <2>7. /\ Len(order) = Len(made) + Len(left)
        /\ \A i \in DOMAIN made : made[i] = order[i]
        /\ \A i \in DOMAIN left : left[i] = order[Len(made) + i]
    BY <2>1 DEF CopyGoesOn
  <2> DEFINE now == Append(made, Head(left))
  <2> DEFINE rest == Tail(left)
  <2>8. Len(order) = Len(now) + Len(rest)
    BY <2>1, <2>2, <2>7
  <2>9. \A i \in DOMAIN now : now[i] = order[i]
    <3>1. left[1] = order[Len(made) + 1] /\ Head(left) = left[1]
      BY <2>1, <2>7
    <3> QED
      BY <2>1, <2>2, <2>7, <3>1
  <2>10. Len(now) = Len(made) + 1 /\ Len(made) \in Nat
    BY <2>1, <2>2
  <2>11. ASSUME NEW i \in DOMAIN rest PROVE rest[i] = left[i + 1] /\ i + 1 \in DOMAIN left /\ i \in Nat
    BY <2>1
  <2> HIDE DEF made, now, rest
  <2>12. \A i \in DOMAIN rest : rest[i] = order[Len(now) + i]
    <3>3. ASSUME NEW i \in Nat PROVE Len(now) + i = Len(made) + (i + 1)
      BY <2>10
    <3> QED
      BY ZenonT(40), <2>7, <2>11, <3>3
  <2>13. screen = "CurrentPurchase" /\ order = itemsProduct /\ itemsProduct = context[screen]
         /\ rows = Len(itemsProduct) /\ LabelOf(itemsProduct) /\ ~intact
    BY <2>1 DEF CopyGoesOn
  <2>14. context'[screen'] = itemsProduct' /\ context'["RepeatPurchase"] = now /\ left' = rest
         /\ LabelOf(itemsProduct)'
    BY <2>5, <2>6, <2>13 DEF made, now, rest, LabelOf
  <2> QED
    BY ZenonT(40), <2>6, <2>8, <2>9, <2>12, <2>13, <2>14 DEF CopyGoesOn
<1>4. CASE UNCHANGED vars
  BY <1>4 DEF vars, shown, history, CopyGoesOn, LabelOf
<1>5. CASE ~copying /\ ~StartCopy /\ Next
  <2>1. CASE \E p \in Products, u \in 1 .. MaxUnits : AddProduct(p, u)
    BY <1>1, <1>5, <2>1 DEF AddProduct
  <2>2. CASE \E i \in 1 .. MaxId : AddUnit(i) \/ SubUnit(i) \/ Close(i)
    BY <1>1, <1>5, <2>2 DEF AddUnit, SubUnit, Close, SetUnits
  <2>3. CASE \/ \E entity \in Stores : Present(entity)
             \/ \E dlv \in BOOLEAN : PickDelivery(dlv)
    BY <1>1, <1>5, <2>3 DEF Present, PickDelivery
  <2>4. CASE Dismiss \/ Clear \/ CopyNext \/ Send \/ SendRepeat \/ Kill
    BY <1>1, <1>5, <2>4 DEF Dismiss, Clear, CopyNext, Send, SendRepeat, Kill
  <2> QED
    BY <1>5, <2>1, <2>2, <2>3, <2>4 DEF Next
<1>6. CASE copying /\ ~CopyNext /\ Next
  BY <1>1, <1>6 DEF Next, AddProduct, Present, Dismiss, PickDelivery, AddUnit, SubUnit, Close,
       Clear, StartCopy, Send, SendCarrinho, SendRepeat, Kill, On, Idle
<1> QED
  BY <1>2, <1>3, <1>4, <1>5, <1>6

\* Everything is on disk as long as no save has failed.
LEMMA StepSaved ==
  ASSUME TypeOK, SavedUnlessFailed, [Next]_vars, TypeOK'
  PROVE  SavedUnlessFailed'
<1>1. ASSUME NEW changed, Save(changed) PROVE SavedUnlessFailed'
  <2>1. context' = changed /\ failures \in Nat
    BY <1>1, CartAssumption DEF Save, TypeOK
  <2>2. CASE store' = changed
    BY <2>1, <2>2 DEF SavedUnlessFailed
  <2>3. CASE failures' = failures + 1
    BY <2>1, <2>3 DEF SavedUnlessFailed
  <2> QED
    BY <1>1, <2>2, <2>3 DEF Save
<1>2. ASSUME UNCHANGED <<context, store, failures>> PROVE SavedUnlessFailed'
  BY <1>2 DEF SavedUnlessFailed
<1>3. CASE Kill
  BY <1>3 DEF Kill, SavedUnlessFailed
<1>4. CASE \E p \in Products, u \in 1 .. MaxUnits : AddProduct(p, u)
  BY <1>1, <1>4 DEF AddProduct
<1>5. CASE \E i \in 1 .. MaxId : AddUnit(i) \/ SubUnit(i) \/ Close(i)
  BY <1>1, <1>5 DEF AddUnit, SubUnit, Close, SetUnits
<1>6. CASE Clear \/ StartCopy \/ CopyNext
  BY <1>1, <1>6 DEF Clear, StartCopy, CopyNext
<1>7. CASE \/ Dismiss \/ Send \/ SendRepeat \/ UNCHANGED vars
           \/ \E entity \in Stores : Present(entity)
           \/ \E dlv \in BOOLEAN : PickDelivery(dlv)
  BY <1>2, <1>7 DEF Dismiss, Send, SendRepeat, Present, PickDelivery, vars, history
<1> QED
  BY <1>3, <1>4, <1>5, <1>6, <1>7 DEF Next

\* RepeatIsLastOrder is kept by every step: the repeat list is written by the
\* copy and by its own screen only, and a kill changes it only if it was dirty.
LEMMA StepRepeat ==
  ASSUME TypeOK, CopyGoesOn, EmptyWithoutScreen, SavedUnlessFailed, RepeatIsLastOrder, [Next]_vars
  PROVE  RepeatIsLastOrder'
<1>1. ASSUME NEW objects, context' = Put("CurrentPurchase", objects), order' = order, intact' => intact
      PROVE  RepeatIsLastOrder'
  <2>1. context'["RepeatPurchase"] = context["RepeatPurchase"]
    BY <1>1 DEF Put, TypeOK, Stores
  <2> QED
    BY <1>1, <2>1 DEF RepeatIsLastOrder
<1>2. ASSUME NEW objects, context' = Put(screen, objects), order' = order, Edited, screen # "none"
      PROVE  RepeatIsLastOrder'
  <2>1. intact' => intact /\ screen = "CurrentPurchase"
    BY <1>2 DEF Edited, TypeOK, Stores
  <2> QED
    BY <1>1, <1>2, <2>1 DEF RepeatIsLastOrder
<1>3. ASSUME UNCHANGED <<context, order, intact>> PROVE RepeatIsLastOrder'
  BY <1>3 DEF RepeatIsLastOrder
<1>4. ASSUME NEW p \in Products, NEW u \in 1 .. MaxUnits, AddProduct(p, u) PROVE RepeatIsLastOrder'
  BY <1>1, <1>4 DEF AddProduct, Save
<1>5. ASSUME NEW i \in 1 .. MaxId, AddUnit(i) \/ SubUnit(i) \/ Close(i) PROVE RepeatIsLastOrder'
  <2>1. screen # "none"
    BY <1>5 DEF AddUnit, SubUnit, Close, EmptyWithoutScreen
  <2> QED
    BY <1>2, <1>5, <2>1 DEF AddUnit, SubUnit, Close, SetUnits, Save
<1>6. CASE Clear
  <2>1. intact' => intact
    BY <1>6 DEF Clear, Edited
  <2> QED
    BY <1>1, <1>6, <2>1 DEF Clear, Save, DeleteAllRecords
<1>7. CASE StartCopy
  BY <1>7 DEF StartCopy, Begin, RepeatIsLastOrder
<1>8. CASE CopyNext
  BY <1>8 DEF CopyNext, CopyGoesOn, RepeatIsLastOrder
<1>9. CASE Send
  <2>1. copying /\ left = <<>> /\ UNCHANGED <<context, order>>
    BY <1>9 DEF Send
  <2> DEFINE made == context["RepeatPurchase"]
  <2>2. made \in Seq(Object) /\ order \in Seq(Object)
    BY DEF TypeOK, Stores
  <2>3. Len(order) = Len(made) /\ \A i \in DOMAIN made : made[i] = order[i]
    BY <2>1, <2>2 DEF CopyGoesOn
  <2>4. made = order
    BY <2>2, <2>3
  <2> QED
    BY <2>1, <2>4 DEF RepeatIsLastOrder
<1>10. CASE Kill
  BY <1>10 DEF Kill, SavedUnlessFailed, RepeatIsLastOrder
<1>11. CASE \/ Dismiss \/ SendRepeat \/ UNCHANGED vars
            \/ \E entity \in Stores : Present(entity)
            \/ \E dlv \in BOOLEAN : PickDelivery(dlv)
  BY <1>3, <1>11 DEF Dismiss, SendRepeat, Present, PickDelivery, vars, history
<1> QED
  BY <1>4, <1>5, <1>6, <1>7, <1>8, <1>9, <1>10, <1>11 DEF Next

\* A list that agrees with the beginning of another one is a prefix of it.
LEMMA PrefixIsSubSeq ==
  ASSUME NEW list \in Seq(Object), NEW whole \in Seq(Object), Len(list) <= Len(whole),
         \A i \in DOMAIN list : list[i] = whole[i]
  PROVE  Len(list) \in 0 .. Len(whole) /\ list = SubSeq(whole, 1, Len(list))
  OBVIOUS

\* CutCopyIsPrefix is kept by every step: each save of the copy writes the copies
\* made so far, or nothing.
LEMMA StepCut ==
  ASSUME TypeOK, CopyGoesOn, CutCopyIsPrefix, [Next]_vars, TypeOK', CopyGoesOn'
  PROVE  CutCopyIsPrefix'
<1>1. CASE ~copying'
  BY <1>1 DEF CutCopyIsPrefix
<1>2. CASE copying' /\ store'["RepeatPurchase"] = context'["RepeatPurchase"]
  <2> DEFINE made == context["RepeatPurchase"]
  <2>1. made' \in Seq(Object) /\ order' \in Seq(Object) /\ left' \in Seq(Object)
    BY DEF TypeOK, Stores
  <2>2. Len(order') = Len(made') + Len(left') /\ \A i \in DOMAIN made' : made'[i] = order'[i]
    BY <1>2 DEF CopyGoesOn
  <2>3. Len(made') <= Len(order')
    BY <2>1, <2>2
  <2>4. Len(made') \in 0 .. Len(order') /\ made' = SubSeq(order', 1, Len(made'))
    BY <2>1, <2>2, <2>3, PrefixIsSubSeq
  <2> QED
    BY <1>2, <2>4 DEF CutCopyIsPrefix
<1>3. CASE StartCopy
  <2>1. CASE store' = context'
    BY <1>2, <1>3, <2>1 DEF StartCopy, Begin
  <2>2. CASE store' = store
    BY <1>3, <2>2 DEF StartCopy, Begin, CutCopyIsPrefix
  <2> QED
    BY <1>3, <2>1, <2>2 DEF StartCopy, Save
<1>4. CASE CopyNext
  <2>1. CASE store' = context'
    BY <1>1, <1>2, <2>1
  <2>2. CASE store' = store
    BY <1>4, <2>2 DEF CopyNext, CutCopyIsPrefix
  <2> QED
    BY <1>4, <2>1, <2>2 DEF CopyNext, Save
<1>5. CASE UNCHANGED vars
  BY <1>5 DEF vars, history, CutCopyIsPrefix
<1>6. CASE Next /\ ~StartCopy /\ ~CopyNext /\ copying'
  <2>1. CASE \E p \in Products, u \in 1 .. MaxUnits : AddProduct(p, u)
    BY <1>6, <2>1 DEF AddProduct, On, Idle
  <2>2. CASE \E i \in 1 .. MaxId : AddUnit(i) \/ SubUnit(i) \/ Close(i)
    BY <1>6, <2>2 DEF AddUnit, SubUnit, Close, SetUnits, Idle
  <2>3. CASE \/ \E entity \in Stores : Present(entity)
             \/ \E dlv \in BOOLEAN : PickDelivery(dlv)
    BY <1>6, <2>3 DEF Present, PickDelivery, On, Idle
  <2>4. CASE Dismiss \/ Clear \/ Send \/ SendRepeat \/ Kill
    BY <1>6, <2>4 DEF Dismiss, Clear, Send, SendRepeat, SendCarrinho, Kill, On, Idle
  <2> QED
    BY <1>6, <2>1, <2>2, <2>3, <2>4 DEF Next
<1> QED
  BY <1>1, <1>3, <1>4, <1>5, <1>6

-----------------------------------------------------------------------------
IInv ==
  /\ TypeOK /\ RowsMatchStore /\ LabelAgrees /\ CopyGoesOn /\ EmptyWithoutScreen
  /\ SavedUnlessFailed /\ RepeatIsLastOrder /\ CutCopyIsPrefix

\* The inductive invariant behind all the theorems of this module.
LEMMA Inductive == Spec => []IInv
<1>1. Init => IInv
  <2>1. Init => RowsMatchStore /\ LabelAgrees /\ CopyGoesOn /\ EmptyWithoutScreen
    BY DEF Init, RowsMatchStore, LabelAgrees, CopyGoesOn, EmptyWithoutScreen
  <2>2. Init => SavedUnlessFailed /\ RepeatIsLastOrder /\ CutCopyIsPrefix
    BY DEF Init, SavedUnlessFailed, RepeatIsLastOrder, CutCopyIsPrefix
  <2> QED
    BY <2>1, <2>2, InitTypeOK DEF IInv
<1>2. IInv /\ [Next]_vars => IInv'
  <2> SUFFICES ASSUME IInv, [Next]_vars PROVE IInv'
    OBVIOUS
  <2> USE DEF IInv
  <2>1. TypeOK'
    BY StepTypeOK
  <2>2. RowsMatchStore' /\ LabelAgrees' /\ EmptyWithoutScreen'
    BY StepShown
  <2>3. CopyGoesOn'
    BY StepCopyGoesOn
  <2>4. SavedUnlessFailed'
    BY <2>1, StepSaved
  <2>5. RepeatIsLastOrder'
    BY StepRepeat
  <2>6. CutCopyIsPrefix'
    BY <2>1, <2>3, StepCut
  <2> QED
    BY <2>1, <2>2, <2>3, <2>4, <2>5, <2>6
<1> QED
  BY <1>1, <1>2, PTL DEF Spec

\* The state of both cart screens stays well typed; among others no button ever
\* takes an item below one unit.
THEOREM TypeCorrect == Spec => []TypeOK
<1>1. IInv => TypeOK
  BY DEF IInv
<1> QED
  BY <1>1, Inductive, PTL

\* The number of a row, found on the screen, hits the same object of a fresh
\* fetch, for carts of any size and whatever saves failed.
THEOREM RowsHitTheirObjects == Spec => []RowsMatchStore
<1>1. IInv => RowsMatchStore
  BY DEF IInv
<1> QED
  BY <1>1, Inductive, PTL

\* The label is the fee of the chosen mode plus everything in the entity shown,
\* or what the message just sent said of it.
THEOREM LabelIsCurrent == Spec => []LabelAgrees
<1>1. IInv => LabelAgrees
  BY DEF IInv
<1> QED
  BY <1>1, Inductive, PTL

\* The repeat list is the last order, whatever happens in between but a kill
\* after a failed save.
THEOREM RepeatListIsLastOrder == Spec => []RepeatIsLastOrder
<1>1. IInv => RepeatIsLastOrder
  BY DEF IInv
<1> QED
  BY <1>1, Inductive, PTL

\* A kill inside the copy leaves the old list or the beginning of the order.
THEOREM CopyCutsCleanly == Spec => []CutCopyIsPrefix
<1>1. IInv => CutCopyIsPrefix
  BY DEF IInv
<1> QED
  BY <1>1, Inductive, PTL

\* The total of a message is less than the one on the label by at most a cent for
\* every line and one more, and more by at most a cent.
LEMMA ChargedNearTotal ==
  ASSUME NEW objects \in Seq(Object), NEW dlv
  PROVE  /\ Total(objects, dlv) \in Int /\ Charged(objects, dlv) \in Int
         /\ Total(objects, dlv) - Len(objects) - 1 <= Charged(objects, dlv)
         /\ Charged(objects, dlv) <= Total(objects, dlv) + 1
<1> DEFINE f == Addends(objects)
           g == Lines(f)
           D == 1 .. Len(objects)
<1>1. Len(objects) \in Nat /\ IsFiniteSet(D) /\ Cardinality(D) = Len(objects)
  <2>1. Len(objects) \in Nat
    OBVIOUS
  <2>2. 1 \in Int /\ Len(objects) \in Int
    BY <2>1
  <2>3. /\ IsFiniteSet(D)
        /\ Cardinality(D) = IF 1 > Len(objects) THEN 0 ELSE Len(objects) - 1 + 1
    BY <2>2, FS_Interval, Zenon
  <2> QED
    BY <2>1, <2>3
<1>2. ASSUME NEW i \in D PROVE Price[objects[i].title] * objects[i].units \in Nat
  <2>1. objects[i] \in Object
    BY <1>1
  <2>2. objects[i].title \in Products /\ objects[i].units \in 1 .. MaxUnits
    BY <2>1 DEF Object
  <2>3. Price[objects[i].title] \in Nat
    BY <2>2, CartAssumption
  <2>4. objects[i].units \in Nat
    BY <2>2, CartAssumption
  <2> QED
    BY <2>3, <2>4
<1>3. f \in Seq(Nat) /\ DOMAIN f = D /\ Len(f) = Len(objects)
  BY <1>1, <1>2 DEF Addends
<1> HIDE DEF f
<1>4. DOMAIN g = D
  BY <1>3 DEF Lines
<1>5. ASSUME NEW i \in D PROVE f[i] \in Int /\ g[i] \in Int /\ f[i] - 1 <= g[i] /\ g[i] <= f[i]
  <2>1. f[i] \in Nat
    BY <1>3
  <2>2. g[i] = Truncate(0, <<f[i]>>)
    BY <1>3 DEF Lines
  <2>3. SumFunction(<<f[i]>>) = f[i]
    BY <2>1, SumOfOne
  <2> QED
    BY <2>1, <2>2, <2>3 DEF Truncate
<1> HIDE DEF g, D
<1>6. SumFunction(f) = SumFunctionOnSet(f, D) /\ SumFunction(g) = SumFunctionOnSet(g, D)
  BY <1>3, <1>4 DEF SumFunction
<1>7. SumFunction(f) - Len(objects) <= SumFunction(g) /\ SumFunction(g) <= SumFunction(f)
  BY <1>1, <1>5, <1>6, SumLosesUpToCount
<1>8. SumFunction(f) \in Int /\ SumFunction(g) \in Int
  <2>1. Int \in {Int, Nat}
    OBVIOUS
  <2> QED
    BY <1>1, <1>5, <1>6, <2>1, SumInSet
<1>9. FeeOf(dlv) \in Int
  BY DEF FeeOf, Fee
<1>10. Total(objects, dlv) = Truncate(FeeOf(dlv), f) /\ Charged(objects, dlv) = Truncate(FeeOf(dlv), g)
  BY DEF Total, Charged, f, g
<1> DEFINE n == Len(objects)
           a == SumFunction(f)
           b == SumFunction(g)
           fee == FeeOf(dlv)
           t == Total(objects, dlv)
           c == Charged(objects, dlv)
<1>11. (t = fee + a \/ t = fee + a - 1) /\ (c = fee + b \/ c = fee + b - 1)
  BY <1>8, <1>9, <1>10 DEF Truncate
<1>12. n \in Nat /\ a \in Int /\ b \in Int /\ fee \in Int /\ a - n <= b /\ b <= a
  BY <1>1, <1>7, <1>8, <1>9
<1> HIDE DEF n, a, b, fee, t, c
<1>13. t \in Int /\ c \in Int /\ t - n - 1 <= c /\ c <= t + 1
  BY <1>11, <1>12
<1> QED
  BY <1>13 DEF n, t, c

\* The message has what the screen showed when "send" was pressed, and a total
\* within the cents the truncation of its lines may take.
THEOREM MessageIsShown == Spec => MessageIsWhatWasShown
<1> DEFINE Shown == /\ message'.list = order
                    /\ label - Len(order) - 1 <= message'.total
                    /\ message'.total <= label + 1
<1>1. ASSUME TypeOK, CopyGoesOn, Send PROVE Shown
  <2>1. message' = Write(order, delivery) /\ order \in Seq(Object) /\ LabelOf(order)
    BY <1>1 DEF CopyGoesOn, Send, TypeOK
  <2>2. message'.list = order /\ message'.total = Charged(order, delivery)
    BY <2>1 DEF Write
  <2>3. label = Total(order, delivery) \/ label = Charged(order, delivery)
    BY <2>1 DEF LabelOf, Write
  <2>4. Len(order) \in Nat
    BY <2>1
  <2> QED
    BY <2>1, <2>2, <2>3, <2>4, ChargedNearTotal
<1>2. IInv /\ [Next]_vars => [Send => Shown]_vars
  BY <1>1 DEF IInv
<1> QED
  BY <1>2, Inductive, PTL DEF Spec, MessageIsWhatWasShown
=============================================================================
