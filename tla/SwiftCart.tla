------------------------------ MODULE SwiftCart ------------------------------
(***************************************************************************)
(* The cart of the iOS app: the two Core Data entities of DataManager      *)
(* .swift, the screen "Carrinho" (CarrinhoViewController) over the one and *)
(* its near copy "Repetir" (RepeatViewController) over the other, and the  *)
(* copy of the first into the second when an order is sent.                *)
(*                                                                         *)
(* All of it runs on the main thread.  Every change is made in the view    *)
(* context and followed by a save of the whole context; a failed save is   *)
(* printed and forgotten, its changes stay in the context.  The copy saves *)
(* once per product, and the process may die between two saves.  Fetches   *)
(* see the context's unsaved changes, in the order of insertion.           *)
(*                                                                         *)
(* Amounts are cents, and truncate(places: 2) is floor(100 * x) / 100 of a *)
(* double x: a sum of cents whose double lies just below it loses a cent   *)
(* (19.90 gives 19.89), and Short says which sums do.                      *)
(*                                                                         *)
(* Left out as data: additionals (part of the price), the texts of the     *)
(* form, the cells' pictures.  Left out as control: a fetch that throws    *)
(* (it is printed, and the list fetched before stays).  id, order, old,    *)
(* intact and failures are history.                                        *)
(***************************************************************************)
EXTENDS Integers, Sequences, FiniteSets, Functions

CONSTANTS
  Products,      \* titles
  Price,         \* of a product with its additionals
  Short,         \* <<fee, addends>> whose double sum lies just below its cents
  MaxUnits,      \* bound: units of an item
  MaxId,         \* bound: products added over the behaviour
  MaxFailures    \* bound: saves that fail

ASSUME CartAssumption ==
  /\ Price \in [Products -> Nat]
  /\ Short \subseteq Nat \X Seq(Nat)
  /\ MaxUnits \in Nat \ {0} /\ MaxId \in Nat /\ MaxFailures \in Nat

Stores == {"CurrentPurchase", "RepeatPurchase"}
Object == [id : 1 .. MaxId, title : Products, units : 1 .. MaxUnits]

VARIABLES
  context,       \* the view context: the objects of both entities
  store,         \* the persistent store on disk
  screen,        \* the entity of the screen presented, or "none"
  itemsProduct,  \* the screen's fetched objects
  rows,          \* rows of its table since the last reloadData()
  delivery,      \* deliveryModeText is the one with the fee
  label,         \* paymentTotalLabel
  copying,       \* saveInRepeatPurchase() is running
  left,          \* ... objects of its loop still to be copied
  message,       \* the last message handed to WhatsApp
  nextId, order, old, intact, failures

shown   == <<screen, itemsProduct, rows, delivery, label>>
history == <<nextId, order, old, intact, failures>>
vars    == <<context, store, shown, copying, left, message, history>>

Fee == 400
FeeOf(dlv) == IF dlv THEN Fee ELSE 0
Addends(objects) == [i \in 1 .. Len(objects) |-> Price[objects[i].title] * objects[i].units]

\* truncate(places: 2) of a fee and some amounts added in doubles
Truncate(fee, addends) ==
  fee + SumFunction(addends) - (IF <<fee, addends>> \in Short THEN 1 ELSE 0)

\* Two ways to add up an order: the label truncates the sum, the message also
\* each of its lines.
Total(objects, dlv) == Truncate(FeeOf(dlv), Addends(objects))
Lines(addends) == [i \in 1 .. Len(addends) |-> Truncate(0, <<addends[i]>>)]
Charged(objects, dlv) == Truncate(FeeOf(dlv), Lines(Addends(objects)))

Without(list, k) ==
  [i \in 1 .. Len(list) - 1 |-> IF i < k THEN list[i] ELSE list[i + 1]]

Idle == ~copying
On(entity) == Idle /\ screen = entity

Init ==
  /\ context = [e \in Stores |-> <<>>] /\ store = context
  /\ screen = "none" /\ itemsProduct = <<>> /\ rows = 0 /\ delivery = FALSE /\ label = 0
  /\ copying = FALSE /\ left = <<>> /\ message = [list |-> <<>>, total |-> 0]
  /\ nextId = 1 /\ order = <<>> /\ old = <<>> /\ intact = FALSE /\ failures = 0

-----------------------------------------------------------------------------
(* Core Data *)

\* managedContext.save(), which may throw
Save(changed) ==
  /\ context' = changed
  /\ \/ store' = changed /\ UNCHANGED failures
     \/ failures < MaxFailures /\ failures' = failures + 1 /\ UNCHANGED store

Put(entity, objects) == [context EXCEPT ![entity] = objects]

DeleteAllRecords(entity) == Put(entity, <<>>)

\* updateTotalValue() sums itemsProduct
UpdateTotalValue(objects, dlv) == label' = Total(objects, dlv)

\* updateData() of the screen over entity
UpdateData(entity, dlv) ==
  /\ itemsProduct' = context'[entity] /\ rows' = Len(itemsProduct')
  /\ UpdateTotalValue(itemsProduct', dlv)

-----------------------------------------------------------------------------
(* A product screen: CoreDataManager().save *)
AddProduct(p, u) ==
  /\ On("none") /\ nextId <= MaxId
  /\ Save(Put("CurrentPurchase", Append(context["CurrentPurchase"],
                                        [id |-> nextId, title |-> p, units |-> u])))
  /\ nextId' = nextId + 1
  /\ UNCHANGED <<shown, copying, left, message, order, old, intact>>

\* viewDidLoad, then viewWillAppear resets the delivery mode
Present(entity) ==
  /\ On("none") /\ screen' = entity
  /\ delivery' = TRUE /\ UNCHANGED context /\ UpdateData(entity, TRUE)
  /\ UNCHANGED <<store, copying, left, message, history>>

Dismiss ==
  /\ Idle /\ screen # "none" /\ screen' = "none"
  /\ itemsProduct' = <<>> /\ rows' = 0 /\ label' = 0 /\ delivery' = FALSE
  /\ UNCHANGED <<context, store, copying, left, message, history>>

PickDeliveryQuietly(dlv) ==    \* mutant: no updateTotalValue()
  /\ Idle /\ screen # "none" /\ delivery' = dlv
  /\ UNCHANGED <<context, store, screen, itemsProduct, rows, label, copying, left, message, history>>
\* the picker, and every gesture that puts the keyboard away
PickDelivery(dlv) ==
  /\ Idle /\ screen # "none" /\ delivery' = dlv
  /\ UNCHANGED <<context, store, screen, itemsProduct, rows, copying, left, message, history>>
  /\ UpdateTotalValue(itemsProduct, dlv)

-----------------------------------------------------------------------------
(* The cells' buttons, on either screen: the row's number indexes a fresh fetch *)

Edited == intact' = (intact /\ screen # "RepeatPurchase")

SetUnits(i, n) ==
  /\ Save(Put(screen, [context[screen] EXCEPT ![i].units = n]))
  /\ UpdateData(screen, delivery) /\ Edited
  /\ UNCHANGED <<screen, delivery, copying, left, message, nextId, order, old>>

AddUnit(i) ==
  /\ Idle /\ i \in 1 .. rows /\ itemsProduct[i].units < MaxUnits
  /\ SetUnits(i, itemsProduct[i].units + 1)

SubUnitFree(i) ==    \* mutant: no "units > 1"
  /\ Idle /\ i \in 1 .. rows /\ SetUnits(i, itemsProduct[i].units - 1)
SubUnit(i) ==
  /\ Idle /\ i \in 1 .. rows /\ itemsProduct[i].units > 1
  /\ SetUnits(i, itemsProduct[i].units - 1)

CloseUnfetched(i) ==    \* mutant: the row is removed without updateData()
  /\ Idle /\ i \in 1 .. rows
  /\ Save(Put(screen, Without(context[screen], i)))
  /\ rows' = rows - 1 /\ Edited
  /\ UNCHANGED <<screen, itemsProduct, label, delivery, copying, left, message, nextId, order, old>>
Close(i) ==
  /\ Idle /\ i \in 1 .. rows
  /\ Save(Put(screen, Without(context[screen], i)))
  /\ UpdateData(screen, delivery) /\ Edited
  /\ UNCHANGED <<screen, delivery, copying, left, message, nextId, order, old>>

\* "Limpar": clearList of both controllers calls CoreDataManager(), the manager
\* of CurrentPurchase
Clear ==
  /\ Idle /\ screen # "none"
  /\ Save(DeleteAllRecords("CurrentPurchase"))
  /\ UpdateData(screen, delivery) /\ Edited
  /\ UNCHANGED <<screen, delivery, copying, left, message, nextId, order, old>>

-----------------------------------------------------------------------------
(* sendCarrinho: an incomplete form only moves the focus; an empty table ends *)
(* in an alert whose button dismisses the screen (Dismiss).                   *)

\* what is left of the guards: the table has rows
SendCarrinho(entity) == On(entity) /\ rows > 0

Write(list, dlv) == [list |-> list, total |-> Charged(list, dlv)]

Begin == copying' = TRUE /\ left' = itemsProduct' /\ order' = itemsProduct
         /\ old' = store["RepeatPurchase"] /\ intact' = FALSE

StartUndeleted ==    \* mutant: deleteAllRecords() is not called
  /\ SendCarrinho("CurrentPurchase")
  /\ Save(context)
  /\ itemsProduct' = context["CurrentPurchase"] /\ Begin
  /\ UNCHANGED <<screen, rows, delivery, label, message, nextId>>
StartUnfetched ==    \* mutant: the second fetch is missing
  /\ SendCarrinho("CurrentPurchase")
  /\ Save(DeleteAllRecords("RepeatPurchase"))
  /\ itemsProduct' = context["RepeatPurchase"] /\ Begin
  /\ UNCHANGED <<screen, rows, delivery, label, message, nextId>>
\* saveInRepeatPurchase: delete every RepeatPurchase, fetch the cart again
StartCopy ==
  /\ SendCarrinho("CurrentPurchase")
  /\ Save(DeleteAllRecords("RepeatPurchase"))
  /\ itemsProduct' = context["CurrentPurchase"] /\ Begin
  /\ UNCHANGED <<screen, rows, delivery, label, message, nextId>>

Insert(object) == Put("RepeatPurchase", Append(context["RepeatPurchase"], object))

CopyRetried ==    \* mutant: a product whose save failed is inserted again
  /\ copying /\ left # <<>>
  /\ Save(Insert(Head(left)))
  /\ left' = IF store' = context' THEN Tail(left) ELSE left
  /\ UNCHANGED <<shown, copying, message, nextId, order, old, intact>>
CopyNext ==
  /\ copying /\ left # <<>>
  /\ Save(Insert(Head(left))) /\ left' = Tail(left)
  /\ UNCHANGED <<shown, copying, message, nextId, order, old, intact>>

\* the rest of sendToWhatsApp: the message and the label come from itemsProduct
Send ==
  /\ copying /\ left = <<>> /\ copying' = FALSE
  /\ message' = Write(itemsProduct, delivery)
  /\ label' = message'.total
  /\ intact' = TRUE
  /\ UNCHANGED <<context, store, screen, itemsProduct, rows, delivery, left, nextId, order, old, failures>>

\* the repeat screen sends its own list and copies nothing
SendRepeat ==
  /\ SendCarrinho("RepeatPurchase")
  /\ message' = Write(itemsProduct, delivery)
  /\ label' = message'.total
  /\ UNCHANGED <<context, store, screen, itemsProduct, rows, delivery, copying, left, history>>

\* The process dies and starts again: nothing saves the context on the way out
Kill ==
  /\ context' = store
  /\ screen' = "none" /\ itemsProduct' = <<>> /\ rows' = 0 /\ delivery' = FALSE /\ label' = 0
  /\ copying' = FALSE /\ left' = <<>>
  /\ intact' = (intact /\ failures = 0)
  /\ UNCHANGED <<store, message, nextId, order, old, failures>>

Next ==
  \/ \E p \in Products, u \in 1 .. MaxUnits : AddProduct(p, u)
  \/ \E entity \in Stores : Present(entity)
  \/ Dismiss \/ \E dlv \in BOOLEAN : PickDelivery(dlv)
  \/ \E i \in 1 .. MaxId : AddUnit(i) \/ SubUnit(i) \/ Close(i)
  \/ Clear \/ StartCopy \/ CopyNext \/ Send \/ SendRepeat \/ Kill

Spec == Init /\ [][Next]_vars

-----------------------------------------------------------------------------
TypeOK ==
  /\ context \in [Stores -> Seq(Object)] /\ store \in [Stores -> Seq(Object)]
  /\ screen \in Stores \cup {"none"} /\ itemsProduct \in Seq(Object) /\ rows \in Nat
  /\ delivery \in BOOLEAN
  /\ copying \in BOOLEAN /\ left \in Seq(Object)
  /\ message.list \in Seq(Object)
  /\ nextId \in 1 .. MaxId + 1 /\ order \in Seq(Object) /\ old \in Seq(Object)
  /\ intact \in BOOLEAN /\ failures \in 0 .. MaxFailures

\* What the label may say of a list: the truncated sum, or after an order of
\* just this list the total its message had.
LabelOf(list) ==
  \/ label = Total(list, delivery)
  \/ message = Write(list, delivery) /\ label = message.total

\* While an order is being copied the screen shows what it showed, and the
\* copies made so far followed by those still to be made are the order.
CopyGoesOn ==
  copying =>
    LET made == context["RepeatPurchase"] IN
    /\ screen = "CurrentPurchase" /\ order = itemsProduct /\ ~intact
    /\ itemsProduct = context[screen] /\ rows = Len(itemsProduct)
    /\ LabelOf(itemsProduct)
    /\ Len(order) = Len(made) + Len(left)
    /\ \A i \in DOMAIN made : made[i] = order[i]
    /\ \A i \in DOMAIN left : left[i] = order[Len(made) + i]

\* A table that is not presented has no rows, and nothing is copied then.
EmptyWithoutScreen == screen = "none" => rows = 0 /\ ~copying

\* Without a failed save there is nothing that is not on disk.
SavedUnlessFailed == failures = 0 => store = context

\* A button's row number, found on the screen, is used on a fresh fetch: between
\* two events both are the same list, whatever was tapped, sent or failed.
RowsMatchStore ==
  Idle /\ screen # "none" => itemsProduct = context[screen] /\ rows = Len(itemsProduct)

\* The label shows the chosen delivery mode's fee plus the screen's entity, or
\* what the last message said of exactly this list and mode: no edit, switch of
\* screen or failed save leaves an amount of another list there.
LabelAgrees == Idle /\ screen # "none" => LabelOf(context[screen])

\* The message handed to WhatsApp has the products that were on the screen when
\* "send" was pressed, although itemsProduct is overwritten twice by the copy in
\* between.  Its total is not the one on the label: each line is truncated before
\* it is added, so it may be less by a cent for every line and one more, or more
\* by the cent the label lost.
MessageIsWhatWasShown ==
  [][Send => /\ message'.list = order
             /\ label - Len(order) - 1 <= message'.total
             /\ message'.total <= label + 1]_vars

\* Once an order was sent "Repetir" offers exactly that order, in its order and
\* once, until it is edited there or the next one is sent; a kill changes this
\* only after a failed save.
RepeatIsLastOrder == intact => context["RepeatPurchase"] = order

\* The copy is not atomic.  Wherever the process dies in it, the repeat list on
\* disk is the one from before or the first products of the order.
CutCopyIsPrefix ==
  copying =>
    LET list == store["RepeatPurchase"] IN
    list = old \/ \E n \in 0 .. Len(order) : list = SubSeq(order, 1, n)

\* "Limpar" ("clear", Main.storyboard) empties the list of the screen it is on.
ClearEmptiesItsList == [][Clear => context'[screen] = <<>>]_vars
=============================================================================
