# CommercialApps in TLA+

The repository holds one product twice: the ordering app of a burger
restaurant, in Flutter (`RoggerBurguerFlutter/`) and in Swift
(`RoggerBurguerSwift/`).  The customer collects products in a cart that is kept
on the phone, fills in a form, and sends the order as a WhatsApp message; the
order is copied aside so that it can be repeated.  Promotions live in Firestore
and may disappear while they are in a cart.  There is no server code: the
concurrency of the apps is inside one process, between the user's taps,
continuations of `await`, answers of Firestore, acknowledgements of writes, and
the moments at which the operating system kills the process.

The repository also carries, as CocoaPods, the sources of the libraries the iOS
app is built from.  Of these the Firestore client decides what the app's
promotion lookups mean: whether "no such promotion" is the server's word or the
cache's, and whether an answer comes at all.  Its listening half is a concurrent
program of its own, with queues, timers, a stream that breaks and a cache that
survives a kill.

This directory models the cart, its screens, its storage, the order and its
copy in both apps, and the path of a promotion lookup through the Firestore client.

## 1. Inventory

Paths are relative to `src/RoggerBurguerFlutter/lib` (F) and
`src/RoggerBurguerSwift/TudoNosso` (S).

| Component | State it keeps | Operations | Talks to | Hard behaviour | Correct means | Status |
|---|---|---|---|---|---|---|
| F checkout (`screens/checkout.dart`, `widgets/cart_item.dart`, `promotions_cart_item.dart`) | `items`, `totalPurchaseValue`, delivery mode, one `_units` per row State; keys `data`, `dataRepeat` | load, save, + / − / remove, clear, delivery mode, order, `filterData` | SharedPreferences, Firestore, WhatsApp | list positions used after two awaits; rows without keys; a copy of the list per row; clear after an awaited copy; kills | total, list, rows and saved list agree; an order is repeatable; nothing is lost | modelled: `FlutterCheckout` |
| F product screens (`screens/details.dart`, `detailsPromotions.dart`, `data/comments.dart`) | a private copy of the whole cart, units, price shown; the ticks in a **global** list | load, save, + / −, tick, add, back | SharedPreferences, the next screen (through the ticks) | each screen rewrites the whole list; continuations outlive the screen; load races with taps | the cart only grows; an item costs what it says | modelled: `FlutterDetails`, composed in `FlutterShop`, promise `SavedCart` |
| F repeat (`screens/checkoutRepeat.dart`) | as checkout over `dataRepeat` | as checkout, without the copy | as checkout | a copy of checkout in which each handler sums for itself | total = items + fee; only what is missing is marked | modelled: `FlutterRepeat` |
| F drinks (`screens/detailsDrink.dart`, `widgets/drinkItemDetail.dart`, `data/drinksData.dart`) | global lists of drinks with units, a counter per row State | + / −, add (one save per option) | SharedPreferences | two counters for one number | counters agree; every option saved | modelled: `FlutterDrinks`, composed in `FlutterShop`, promise `SavedCart` |
| F home (`home.dart`, `main.dart`, `containers/`) | the promotions listed, `needUpdate` | getDocs, getDocs2, printUrl, load, navigation | Firestore, Storage | one request per document, answered in any order; a price of the wrong type stops the loop | what it lists is only displayed; one screen is opened at a time | not modelled, but for the navigation (`FlutterShop`) |
| F leftovers (`screens/cart.dart`, `counter/`, ...) | demo counter, static lists | – | – | unreachable from the app's routes | – | not modelled |
| S store (`ViewControllers/DataManager.swift`) | a Core Data context and its store; entities CurrentPurchase, RepeatPurchase | save, loadData, delete, deleteAllRecords | both cart screens, product screens | a save may throw and is only printed | a kill finds the list or a beginning of the order; no edit hits another object | modelled: `SwiftCart` |
| S cart screen (`CarrinhoViewController.swift`, `CellPurchase.swift`) | `itemsProduct`, table rows, delivery mode, total label | fetch, + / −, close, clear, send, copy to repeat | store, Firestore, WhatsApp | row number from one fetch used on another; copy of N saves, not atomic; lookups answer into reused cells | rows match the store; label = store; the message lists what was shown, at its price but for cents; repeat = order | modelled: `SwiftCart`, `SwiftCells` |
| S repeat screen (`RepeatViewController.swift`) | as cart over RepeatPurchase | as cart, no copy | store, WhatsApp | copied code | edits its own list | modelled: `SwiftCart`, `SwiftCells` |
| S product screens (`CategoryOportunities…`, `Promotions…`) | units, ticks in label colours, the price label | + / −, tick, add, close | store | three handlers sum the label, a fourth the saved price, the cart a fifth time | what was shown is charged | modelled: `SwiftDetails`, composed in `SwiftShop`, promise `SavedCart` |
| S drinks (`DrinksViewController.swift`, `CellDrink.swift`) | units in **reusable cells** | + / −, total, order | store | only visible cells are summed and ordered | what is ordered is what the label says; a drink whose row was always visible is ordered | modelled: `SwiftDrinks`, composed in `SwiftShop`, promise `SavedCart` |
| S explore (`ExploreViewController.swift`) | `promotionList`, pictures in reusable cells | list, tap | Firestore, Storage | downloads write into cells that show another row | what it lists is only displayed; one screen is presented at a time | not modelled, but for the navigation (`SwiftShop`) |
| S DAOs (`Model/DAO/*`) | nothing of their own | find, listAll, recoverImage | Firestore, Storage | completions that come late or never | a row of the cart settles, and shows what is its own | partly: `SwiftCells` (`listAll` and `save` left out) |
| Firestore client: listening and lookups (`Query`, `EventManager`, `QueryListener`, `OnlineStateTracker`, `RemoteStore`, `Stream`) | listeners, targets, stream state, online state, timers | getDocuments, Listen, StopListening, timers, network changes | main queue, server | two queues; backoff, idleness, token requests that outlive their start; a new network restarts everything | each call has one answer, the cache's only offline | partly: `FirestoreLookup`, promise `LookupPromise` |
| Firestore client: limbo (`SyncEngine`, `View`, `ReferenceSet`) | views, limbo documents, queue and places of resolutions | Listen, StopListening, ApplyRemoteEvent, HandleRejectedListen | local store, remote store | bounded places; views, resolutions and rejections in any order | what counts as synced is true; limbo ends | partly: `FirestoreLimbo` (no writes) |
| Firestore client: watch stream (`WatchChangeAggregator`, `TargetData`) | target states, resume tokens | each kind of message | server | answers to earlier requests under the same id | a snapshot is true | not modelled: `FirestoreLimbo` takes the snapshots it hands on for granted |
| Firestore client: cache, writes, transactions | – | – | – | the apps never write; the collector starts at 100 MB | – | not modelled; the cache is a set of documents in `FirestoreLimbo` |
| S price tables, keyboard helpers, other pods | constants, layout, third-party | – | – | the helper is in no build target | – | not modelled |

`PROJECT.json` lists the same components with their files, and under `hazards`
every place where this code is hard to test, with the property that watches it
or the reason none does yet.

## 2. Plan

Order of work; items 1 to 9 exist.

1. `FlutterCheckout` – the screen where everything meets: list, rows, storage,
   Firestore, order, kills.  `FlutterCheckout_proofs` – its theorems.
2. `SavedCart` – what the shopping screens promise; `FlutterDetails`,
   `FlutterDrinks` – the screens; `FlutterShop` – both kinds over one saved cart,
   shown to implement it.  `OrderedSets` – the order in which loops over menus and
   lists meet things.  `FlutterShop_proofs`.
3. `FlutterRepeat` – the copied screen and the differences that crept in.
   `FlutterRepeat_proofs`.
4. `SwiftCart` – the iOS cart: context beside store, non-atomic copy.
   `SwiftCart_proofs` – its theorems.
5. `SwiftDetails` – units, ticks and labels of the iOS product screens;
   `SwiftDrinks` – counters in reusable cells; `SwiftShop` – both over one cart.
   `SwiftShop_proofs`.
6. `SwiftCells` – promotion lookups that write into captured, reused cells.
   `SwiftCells_proofs`.
7. `LookupPromise` – what an app may expect of `getDocuments`;
   `FirestoreLookup` – the client, shown to implement it.
8. `FirestoreLimbo` – when a query's result is the server's word.
   `Firestore_proofs` – the theorems of both Firestore modules.
9. MC modules and configurations for each; `DataTheorems` – the lemmas about sums,
   orders and folds that several of the proofs need.
10. Possible extension: the counting of outstanding answers and the resume
    tokens of the watch stream, under `FirestoreLimbo`.

`FlutterCheckout` and `FlutterShop` meet in the key `data`: the former takes
an addition as one step (`AddProduct`), the latter shows that the screens, with
all their interleavings, amount to just such steps (`ImplementsSavedCart`).  The
exception it documents, a product added before the screen's own load, can only
happen before the first `getInstance()` of the process has completed;
`AddProduct` sets `ready` accordingly.

The two Firestore modules meet in what the first takes for granted:
`FirestoreLookup` knows of a view only whether it is synced; `FirestoreLimbo`
shows what that is worth (`SyncedIsTrue`) and that it comes about (`LimboEnds`).
`FirestoreLimbo` in turn takes a snapshot as an atomic, right statement about its
targets.  `FlutterCheckout`, `FlutterRepeat` and `SwiftCells`
use an answer of a lookup: a document that exists, or none.  Offline that
is the cache's answer, and their `catalog` or `published` stands for what a
query finds at that moment.

## 3. The modules

### FlutterCheckout

*One event at a time.*  Dart runs a handler to its next `await`.  The only
awaits in the cart's handlers are `SharedPreferences.getInstance()`,
`setString` and the two Firestore calls.

* What follows `await getInstance()` is a **task** in `pending` (`load`, `save`,
  `saveInRepeat`).  Once the plug-in is `ready` the future is complete and the
  tasks are microtasks: they run in order, before the next event.  Hence
  `Quiet == pending = <<>> \/ ~ready`, and every event requires `Quiet`.
  `RunLoad`, `RunSave`, `RunSaveInRepeat` are the continuations.
* `setString` changes the plug-in's memory (`prefs`) at once and sends a message
  to the platform (`diskQ`), which writes in order (`Acknowledge`).  Only
  `saveInRepeat` awaits it: `RepeatSaved` empties the cart of the screen that
  asked; if that screen was left, `setState` on the disposed State still runs its closure
  in a release build (the check is an `assert`), and the empty list is saved: `RepeatSavedLate`.
* `filterData(name, index)` is a record of `queries`: name, position and the
  round of `load()` that asked.  It awaits twice: `Matched` is the answer of the query
  with a document, behind which the promotion may be withdrawn; `Found`, once the
  address of its picture has come, sets the picture and then dies in
  `valueUn = price.toInt()` (an `int` assigned to a field that holds doubles).  `NotFound`
  renames the item, zeroes its price and calls `save(); load();`; if the
  position is gone it is a RangeError and nothing else happens; `QueryFails`
  is an exception nobody catches.
* A row's State keeps its own `_units`, made from the item once.  The list has
  no keys, so a State stays at its **position** as long as the class of the
  widget there is the same: `Rebuild`.  The guard of − reads the row's number.
* `Kill` loses memory and the queue of writes; `Withdraw`/`Publish` are the
  restaurant editing Firestore.

The form is reduced to a choice: `OrderRefused` (incomplete: the total was still
recomputed) or `OrderSent`.

### FlutterDetails, FlutterShop and SavedCart

`states` holds one record per State object ever made, `top` the one on screen.
`Open` starts `load()`; `Add` appends to the screen's **own copy** of the list and
starts `save()`; the screen is popped at once, so `Save` usually runs for a
screen that is gone.  `Tick`, `SetUnits` compute the price shown from the
global ticks; `NewItem` charges `additionalsValue` but names `additionals`, two
variables updated in different handlers.  `Add` and `BackArrow` reset the ticks,
`SystemBack` does not.

`FlutterShop` puts these screens beside the drinks': one saved cart, one queue of
continuations, one screen at a time.  A screen of either kind loads the
other's entries into its copy and saves them back, so the copies may
overwrite each other; a continuation is tagged with the kind of its screen.

`SavedCart` says what the cart's readers rely on: a list that grows at its end
by entries it did not have.  The refinement maps `cart` to `data`; a `Save` that
brings something new is `Grow`, everything else stutters.

### FlutterRepeat

The four ways this screen sums its total are four actions; `bare` remembers
that the last one forgot the fee.  `message` is what went to WhatsApp.
`filterData` is that of the checkout: a question keeps a position, `NotFound`
marks whatever item is there and calls `save(); load();`, and a promotion may be
withdrawn and published again at any time, also between its two awaits.  `stale` of a question
remembers that the list was shortened since it was asked, `slipped` that
such an answer has marked an item, and `missed` which promotions an answer found
missing; later events cannot change what it says.

### SwiftCart

Everything runs on the main thread, so an event is a whole handler, except
the copy of an order: it saves once per product (`StartCopy`, `CopyNext`, `Send`) so
that a kill, the only thing that can come in between, may come in between.
`context` is the view context, `store` the disk; `Save` either writes the whole
context or fails and leaves it dirty.  `rows` is what the table believes,
`itemsProduct` what the controller last fetched; the buttons take an index from
the former and use it on a new fetch.  One module serves both screens, since they
are the same code over another entity; the differences (`Clear`, `SendRepeat`)
are in it.  Amounts are cents; `Truncate` is `truncate(places: 2)` of a sum of doubles,
which loses a cent where the double lies just below the sum (100 * 19.9 is
1989.99...).  Which sums these are is a constant, `Short`; that the label
truncates one sum (`Total`) and the message each of its lines and then their sum
(`Charged`) is the code's.  Core Data fetches without a sort descriptor are taken to return objects in
the order of insertion, which is what the SQLite store does; nothing in the
source promises it, and a hazard records it.

### FlutterDrinks

The screen resets the units of its menu (`Open`, `initState`), its rows count
beside them (`Count`: the row's `units` and the list's, then the sum), and
`MakeCartItens` calls `add` once per option with units: the items are all in the
screen's list before the first of the `save` continuations runs, so each of
them encodes the whole list.  As in `FlutterDetails` the screen is gone by then.
`RecreateRows` is a row scrolled out of the list and back: its State starts at 0
while the list's count stays, and − stops at the row's 0.  `NewItems` is the loop
of `makeCartItens`, `Value` the one of `addTotalValue` and `subTotalValue`.

Both drinks modules describe such a loop by what it leaves: `Entered(list, At)` of
`OrderedSets` is what it finds at the positions in `At`, in their order.
(`SelectSeq` would say the same; the prover cannot expand it.)

### SwiftDrinks

`units` is a function on the rows of the table's window, because the units are
kept nowhere but in the labels of cells.  `Scroll` moves the window; the rows
that come in are prepared by `cellForRowAt` with "0".  `tableItens.cellForRow(at:)`
returns nothing for a row outside, so `Total` and `Wanted` range over the
window.  Each button has two targets in the storyboard: `AddButton` and
`SubButton` change the label, then the controller sums (`Press`).  UIKit does
not document that order; it is the one in which the targets were connected, and
the mutant `PressTotalFirst` shows what depends on it.  A scroll does not sum, so
the label may exceed what would be ordered.

### SwiftDetails and SwiftShop

The chosen additionals are the green labels.  `Shown` is the sum the handlers of
the label make, `GetPrice` the unit price that is saved, `Charged` what the cart
will compute from the saved names.  `SwiftShop` composes these screens with the
drinks' over one `CurrentPurchase`: unlike in the Flutter app no screen has a copy
of the cart, each inserts behind what is there, and the refinement of `SavedCart`
shows it.

### SwiftCells

`cellForRowAt` and the reuse of cells.  `reloadData` and `Scroll`
give cells back, `Layout` takes any free ones (UIKit promises no order) and
prepares them; a promotion's row starts a question that captures the
**cell**.  A question moves through its phases
(asked, answered, downloading, arrived) in any interleaving with the others and
with new preparations, and writes into its cell at the end.  `ShowLogo` is any end of a download with the logo:
no file is named, its URL is refused, or its data is no picture.  `prep` tells the
preparations of a cell apart, for the properties; `shared` marks a cell taken
while something for an earlier preparation could still write into it.

### FirestoreLookup and LookupPromise

*One record.*  What belongs to the worker queue is the record `client`: an
operation of the queue runs through `EventManager`, `SyncEngine`, `RemoteStore`
and `OnlineStateTracker` and back before the next begins, so each function is an
operator from client to client and each operation an action that composes them.
A `HARD_ASSERT` that does not hold sets `failed`, and nothing follows it.

*Two queues.*  `GetDocuments` enqueues `AddQueryListener`; `Run` takes the next
operation.  Events for the app go to the main queue (`events`), where `OnEvent`
runs `ListenOnce`: it mutes the listener and enqueues its removal, so events
posted in between are dropped.  `LookupPromise` says what that amounts to: a call gets
one answer, that answer is decided once, and an error only from the server.

*The stream* is Initial, Starting (a token is asked for), Open, Error or in
Backoff.  `TokenArrives`, `TokenFails`, `StaleTokenArrives` (the close count
differs), `StreamFails`, `StreamCloses` (the server ends the call with OK, on which
`OnWatchStreamClose` asserts that no query needs the stream), `BackoffElapses`, `IdleTimeout`, `OnlineStateTimeout`
and `NetworkAvailable` (the connectivity monitor ends the calls and restarts the
network) are its events; `Message` and `TargetError` are what the server says.

### FirestoreLimbo

A current view whose results hold a document the server did not name has it in
limbo (`UpdateLimboDocuments`); `SyncEngine` keeps references
(`refs`), queues documents and asks for each alone under a target id of its own
(`Pump`), at most `MaxConcurrent` at a time.  All it owns is the record `engine`,
and a function of the code is an operator from that record to the next; its loops
over documents and views are folds.  `Snapshot`, `PartialSnapshot`,
`ExistenceFilterMismatch`, `LimboRejected` are the remote events;
`ApplyRemoteEvent` lets the views take their turns in any order, as they are kept in a hash table.
`news` is what the server has still to say about a query (`Views`), `awaited` the
limbo targets it has still to speak of.  The code's ids count on; `NextId` gives a free
one again, so that a run stays finite without a bound on them.  One is always
free: of n + 1 numbers one is none of the n targets that are watched.

### History variables

`id`, `discarded`, `ordered`, `last`, `mishap`, `rebound`, `loaded`, and their
counterparts in the other modules, exist only so that properties can speak about
the past.  No guard that stands for code reads them (`nextId` and `opens` also carry a bound).
`mishap` names the exceptions a property makes: `early` (an order sent before
`load()` had run), `late` (`RepeatSavedLate`), `kill`, `failed` (a query that failed).

## 4. The runs

| Run | What it asks | Bounds, and why they suffice |
|---|---|---|
| `checkout_screen` | list, rows, total, saved list and answers under all interleavings of one opening: `TypeOK`, `TotalAgrees`, `AnswersAimRight`, `RowsTellTheTruth`, `OnlyUnitsUnsaved`, `UnavailableForever` | a food and a promotion, one opening, two items: the least at which a removal moves an item under another row, both classes of row meet, and an answer can land on the wrong item; two rounds of queries, so an old answer competes with a new one; the constraint cuts behaviours at the first mishap, which the next run covers, and the view drops `disk`, the values on their way there, the repeat list, `last`, `ordered` and `discarded`, which without a kill nothing else in this run reads |
| `checkout_orders` | what becomes of products over orders, late acknowledgements and kills: `RepeatIsLastOrder`, `EveryProductAccounted`, `OrderSurvivesKill`; and the liveness `GoneIsNoticed` | three openings, the least for an order whose clear arrives during a later opening and its effect in another; two writes under way, so that one can be late and one lost; two products.  The constraint lets a behaviour go on as long as one of the two questions is open: over three openings carts of foods only, since promotions add nothing to what becomes of products; with promotions one opening, until something happens that `GoneIsNoticed` excepts, which is permanent.  Two promotions are asked for at once: answering one reloads the list and asks for both again, so each question competes with newer copies of the other; two rounds of questions, beyond which an identical question is asked once |
| `flutter_shop` | three screens of foods, promotions and drinks in any order, before and after the plug-in is ready: `ShopTypeOK`, `ChargedIsNamed`, `RowsCounted`, `EverythingSaved`, `ImplementsSavedCart` | three screens: one that leaves ticks or a late save behind, one that meets it, one that sees the result; a drink menu of two options, so that one screen saves twice; two units |
| `repeat_promotions` | what the repeat screen's total is made of, what leaving it forgets, and which items get marked: `TotalAgreesUnlessBare`, `OnlyUnitsUnsaved`, `OnlyMissingIsMarked` | two products, one or both promotions, in either order, so that a removal moves each class under the other; two rounds of questions, so that an old answer meets a newer list; two openings, so that a mark that was saved meets a promotion that is there again; the constraint ends a behaviour when the screen was left for the last time, and the view drops the message, which no step reads |
| `swift_cells` | rows in reused cells with lookups and downloads under way: `RowIsItsOwn`, `SettledRows`, and the liveness `PromotionsSettle` | a food and two promotions, up to two of them in the cart, two cells and a window of one row: each layout or scroll may give a row the cell of the other, the least at which an answer reaches the other row; two units; two preparations |
| `swift_shop` | two iOS screens in a row, of a food, a promotion or drinks: `ShownIsCharged`, `LabelCoversOrder`, `TappedIsOrdered`, `ImplementsSavedCart` | a food with two additionals of different prices, a promotion, and three drinks in a window of two, so that a row leaves and comes back while another stays; two screens, so that a label, a choice or a cell could be carried over; two units |
| `lookup` | two calls of one query: `ClientOK`, `CacheOnlyOffline`, `KeepsPromise`, and the liveness `EveryLookupAnswered` | the second call meets every state the first leaves behind; two events kept for a listener, so that one is dropped by the mute; one change of network; the server may end a stream with an error or with OK at any time |
| `limbo` | `EngineOK`, `LimboIsBeingResolved`, `SyncedIsTrue`, and the liveness `LimboEnds` | two queries that share two documents and one place, so that one waits while the other is resolved; one change of the world, one break, rejection and stop each |
| `limbo_bound` | **finding**: `ResolutionsBounded` is violated | four documents: two that hold both places, one that both queries have in limbo and that waits twice, one that is started above the maximum; two places, since with one place a second entry of a key waits for the first; nothing changes, breaks or is rejected |
| `repeat_fee` | **finding**: `MessageChargesDelivery` is violated | three foods, or none; two openings, so that an empty one is also met |
| `swift_cart` | both iOS screens over both entities: `TypeOK`, `RowsMatchStore`, `LabelAgrees`, `RepeatIsLastOrder`, `CutCopyIsPrefix`, `MessageIsWhatWasShown` | three products in a cart, so that the copy has a middle and a removal leaves two; one failing save; kills everywhere; a price of 19.90, where one line and most sums of lines lose a cent without the fee and none with it; the view tells messages, orders and replaced lists apart only while something can still read them |
| `swift_clear` | **finding**: `ClearEmptiesItsList` is violated | as above |

Deadlock is checked in the runs of `FlutterCheckout`, `SwiftCart`,
`FirestoreLimbo` and in `repeat_fee`.  The others may really stop: the customer is done
after the last screen (`flutter_shop`, `swift_shop`) or the last opening
(`repeat_promotions`, whose constraint ends a behaviour there), every row is drawn
and every download over (`swift_cells`), every call is answered and the stream idle
(`lookup`).

Several names stand for a conjunction that must hold together: `ClientOK` and
`EngineOK` contain the type invariant of their module, `EverythingSaved` is
`AddedIsSaved` of the product screens and `ChosenIsSaved` of the drinks'.
`FlutterRepeat`, `SwiftShop` and `SwiftCells` define a type invariant that is
proved (section 5) and that no run lists: there each of its parts is a guard read back.

Every property has a mutant in `PROJECT.json`: the definition of an action or a
helper with one plausible slip (a save forgotten, a guard off by one, an order of
two writes swapped), under which TLC finds that property violated.  The mutants
stand beside the definitions they replace, marked `\* mutant`, and are
reachable from no `Next`.

### Exceptions the properties make

They are part of what was learned, and each is a behaviour of the code:

* A row whose State was made for another item shows that item's units and guards
  − with them, so removing a row and tapping − can take an item to zero or
  below (`rebound`; `RowsTellTheTruth`, which also says that until then no units go to zero).
* Units are not saved by + and −: leaving the checkout forgets them
  (`OnlyUnitsUnsaved` compares lists without units and pictures).
* An answer keeps a position.  After a removal or a clear it may rename the
  wrong item, or none (`stale`; `AnswersAimRight`, `GoneIsNoticed`).
* An order sent before the list was loaded is empty, and the cart loaded
  meanwhile is emptied afterwards (`early`).
* The clear of a screen that was left empties products added since (`late`).
* A food screen left by the system's back leaves its ticks to the next
  screen, which may charge for them without naming them (`leftover`).
* What is added before a screen's own load is lost, a product or drinks (`early` of
  `FlutterDetails` and `FlutterDrinks`).
* A drink's row that was scrolled away and back shows 0, in both apps.  In the
  Flutter app the units it had are still ordered and can no longer be taken
  back with − (`recreated`); in the iOS app they are gone from the order, and
  the label shows their price until the next tap (`hidden`, `scrolled`).
* On iOS, until a failed save is caught up with, a kill may undo it
  (`intact`, `RepeatIsLastOrder`).
* On iOS a cell taken while an answer for another row is under way shows what
  that answer writes (`shared`), and a logo of an older failed download stays
  (`lost`).  A promotion that could not be asked for, or was withdrawn, is shown
  at R$ 0,00 and still charged in full: the total is summed from the objects.
* An empty answer from the cache, ten seconds into being offline, counts as a
  withdrawn promotion in both apps; the Flutter apps save the mark.
* A change of network may answer a waiting lookup from the cache although the
  client is about to be online (`CacheOnlyOffline`).
* The server's end of a watch call with OK, while a query is listened to, fails the assertion
  "Watch stream was stopped gracefully while still needed." (`remote_store.cc:236`), and the
  process is over (`hungup`; `AssertionsHold`, `EveryLookupAnswered`).
* A promotion withdrawn after its document was found, while the address of its picture
  is awaited, is not noticed before the next load (`GoneIsNoticed`).
* On iOS the label and the message may differ by cents: 19.90 and the fee are 23,90 on the
  label and 23,89 in the message (`MessageIsWhatWasShown`), and after an order the label shows the
  message's total until it is summed again (`LabelAgrees`).
* A document whose limbo target was rejected is dropped although it may exist,
  and may stay in limbo untracked (`denied`).
* A lookup made after the last listener has gone while the stream backs off
  finds the stream started and its ten seconds' timer cleared: it is answered
  after the backoff, up to 60 s (`EveryLookupAnswered` has no clock).
* A queued resolution whose document has left limbo is started all the same and
  never stopped: one of the 100 places is lost (`Abandoned` in `LimboEnds`).

None of these is listed as a finding.  One behaviour is in the model and named by no property: a renamed item still has the type of a promotion, so each reload asks for
"Produto indisponível", does not find it, saves and reloads again for as long
as the screen is open.

### Findings

1. `repeat_fee` – the repeat screen's message names "Delivery (taxa R$ 4,00)" and
   gives a total without it (`checkoutRepeat.dart:105`; the checkout adds it).
2. `limbo_bound` – more limbo resolutions run than the maximum the comment of
   `PumpEnqueuedLimboResolutions` promises (`sync_engine.h:244`): a document that
   waits for a place and comes into limbo for a second query is queued again, since
   `TrackLimboChange` looks only at the active ones (`sync_engine.cc:531`), and the table
   that bounds the loop counts a key once.
3. `swift_clear` – "Limpar" on the iOS repeat screen empties the **cart** and
   leaves the repeat list (`RepeatViewController.swift:184`).

### Fairness

In `checkout_orders`, `FairSpec` asks

* weak fairness of `Microtask` and `PrefsReady`: the event loop runs what was
  queued, and the plug-in's channel answers;
* weak fairness of `Platform`: the platform handles messages in order and
  acknowledges each;
* strong fairness of `NotFound` for each question: an answer that has arrived is an event in the
  queue, which the loop reaches although other events (taps, the continuations
  of another answer) disable it again and again.  Fairness of some answer would
  not do: a renamed item asks for its new title at every reload, and those
  answers alone could go on for ever.

Nothing is asked of the customer, the restaurant, failures and kills.  A query that
fails instead of answering is one of the ways out the property names.

In the other runs with liveness it is

* in `swift_cells`: the run loop lays out, and each
  request is answered or fails, in its own time (weak fairness per cell and
  preparation).  Firestore's and URLSession's time limits are why;
* in `lookup`: both queues run what they hold, a token arrives or fails, timers
  fire, and an open stream is heard of or fails; for the last gRPC keeps the
  connection alive with a ping every 30 s (`grpc_connection.cc:257`).  Nothing is
  asked of a process an assertion has ended.  Each of these
  steps takes away what enables it, so weak fairness is spelled out as "disabled
  again and again", for example `[]<>(queue = <<>>)`.  Strong
  fairness is asked of one thing, that a query watched again and again on open streams is
  once answered or rejected: a stream may fail each time before its answer comes.
  Not needed, and not asked, are changes of network and stale tokens;
* in `limbo`: the server catches up with all it was asked, again and again.  It
  is weak fairness of `Snapshot(engine.watched)`, spelled out as
  `[]<>CaughtUp \/ []<><<Snapshot(engine.watched)>>_limboVars` (`LimboFairSpec`), since that action is
  enabled, and changes something, unless `CaughtUp`.

## 5. What is proved

Each theorem holds for all products, prices, menus, additionals, calls, documents, queries and bounds
that satisfy the assumptions of its module, where a run has two or three of each.

| Module | Theorem | States |
|---|---|---|
| `FlutterCheckout_proofs` | `TypeCorrect` | `Spec => []TypeOK` |
| | `AnswersStayAimed` | `Spec => []AnswersAimRight` |
| | `TotalIsCurrent` | `Spec => []TotalAgrees` |
| | `RowsShowTheirItems` | `Spec => []RowsTellTheTruth` |
| | `UnitsAreAllThatIsLost` | `Spec => []OnlyUnitsUnsaved` |
| | `RepeatOffersLastOrder` | `Spec => []RepeatIsLastOrder` |
| | `ProductsAreAccountedFor` | `Spec => []EveryProductAccounted` |
| | `KillsLeaveTheOrder` | `Spec => []OrderSurvivesKill` |
| | `RenamedForGood` | `Spec => UnavailableForever`, an action property |
| `FlutterShop_proofs` | `ShopTypeCorrect` | `ShopSpec => []ShopTypeOK` |
| | `ProductsChargeWhatTheyName` | `ShopSpec => []ChargedIsNamed` |
| | `RowsAreCountedAlways` | `ShopSpec => []RowsCounted` |
| | `WhatIsAddedIsSaved` | `ShopSpec => []EverythingSaved` |
| | `ShopImplementsSavedCart` | `ShopSpec => ImplementsSavedCart`, a refinement |
| `FlutterRepeat_proofs` | `TypeCorrect` | `Spec => []TypeOK` |
| | `TotalIsCurrent` | `Spec => []TotalAgreesUnlessBare` |
| | `UnitsAreAllThatIsLost` | `Spec => []OnlyUnitsUnsaved` |
| | `MarksAreEarned` | `Spec => []OnlyMissingIsMarked` |
| `SwiftCart_proofs` | `TypeCorrect` | `Spec => []TypeOK` |
| | `RowsHitTheirObjects` | `Spec => []RowsMatchStore` |
| | `LabelIsCurrent` | `Spec => []LabelAgrees` |
| | `RepeatListIsLastOrder` | `Spec => []RepeatIsLastOrder` |
| | `CopyCutsCleanly` | `Spec => []CutCopyIsPrefix` |
| | `MessageIsShown` | `Spec => MessageIsWhatWasShown`, an action property |
| `SwiftShop_proofs` | `ShopTypeCorrect` | `ShopSpec => []ShopTypeOK` |
| | `WhatIsShownIsCharged` | `ShopSpec => []ShownIsCharged` |
| | `LabelIsAtLeastTheOrder` | `ShopSpec => []LabelCoversOrder` |
| | `WhatIsTappedIsOrdered` | `ShopSpec => []TappedIsOrdered` |
| | `ShopImplementsSavedCart` | `ShopSpec => ImplementsSavedCart`, a refinement |
| `SwiftCells_proofs` | `TypeCorrect` | `Spec => []TypeOK` |
| | `RowsAreTheirOwn` | `Spec => []RowIsItsOwn` |
| | `RowsSettle` | `Spec => []SettledRows` |
| `Firestore_proofs` | `ClientAlwaysOK` | `Spec => []ClientOK` |
| | `CacheOnlyWhenOffline` | `Spec => CacheOnlyOffline`, an action property |
| | `ImplementsPromise` | `Spec => KeepsPromise`, a refinement |
| | `EngineAlwaysOK` | `LimboSpec => []EngineOK` |
| | `LimboIsAlwaysResolved` | `LimboSpec => []LimboIsBeingResolved` |
| | `SyncedIsAlwaysTrue` | `LimboSpec => []SyncedIsTrue` |

The assumptions are those of the modules: foods and promotions are disjoint, marks
such as "Produto indisponível" are no products, prices and bounds are natural
numbers (not 0 where the property needs it, as in the apps' price tables), menus and
additionals are finite sets, a call is of one query, the documents are finitely many
and no query is a target id of a limbo resolution.  TLC evaluates them in every run
that extends the modules.  A property's exceptions (section 4) are in its
statement, and so in its theorem.

Few of these invariants are inductive.  What each needs is below; the strengthenings
are named definitions, kept beside the model where they say something of it and in
the proof module otherwise.

### FlutterCheckout

`TypeOK` is inductive; the work is in the lemmas about lists (`Without`, `Rebuild`,
`MarkUnavailable`, `Append`, `Tail` keep lists of items lists of items), one step
per action.

`AnswersAimRight` is not: a reload replaces the list under the questions in flight.
It survives since a reload brings back the very list the screen has: `load()` is
either the first of an empty screen, with no questions asked, or comes right behind
the `save()` that made the saved list equal to the screen's.  `LoadIsSettled` and
`LoadComesFirst` say this.  `TotalIsComing` says that the total is current unless a
`load` is pending, which implies `TotalAgrees` at quiet moments.

`RowsTellTheTruth` compares a row with the item at its position.  That a row whose
State was made for this item has its units follows from two facts about
identity: no list ever holds a product twice (`ListsHaveNoTwins`, for the screen,
the saved cart, the disk and every write between them), and items only move
towards the front while rows stay (`RowsTrailItems`), so a row that lost its item
never meets it again.  `UnitsAreGuarded` adds that before the first removal the
guard of − protects the items.

`SaveIsComing` says that a difference between list and saved cart has queued its
`save()`, hence `OnlyUnitsUnsaved`.  `CopyIsComing`: between an order and the
encoding of its copy nothing else runs, so what is encoded is what was sent, hence
`RepeatIsLastOrder`.  `NothingIsLost` carries `EveryProductAccounted` from the saved
cart to the screen and to an order whose copy is on its way.

`OrderSurvivesKill` needs to know what every prefix of the queue of writes would
leave on disk.  `WritesAreOrdered`: a product that is on disk, or in a write, and still
in the saved cart is in every write after it.  `OrderIsKept`: each product of the last order
is in the cart everywhere (`InCart`: disk, writes, memory, list) or its copy has
reached the disk and is in every copy on its way (`Copied`).  The platform's order of writes turns one into the other
before the write that empties the cart.

`UnavailableForever` is about a step, so it needs that what the saved cart has
renamed the list has too (`MarksStay`): a reload then brings back no old name.

### FlutterShop

The invariants are about the copies of the cart that screens keep after they were
left, in any number.  `Core` says which of them can still be written, once for a screen
of either kind:

* `TasksAreGrouped` – the load of a screen is its first task, and what stands before a save
  in the queue is a task of the same screen; `LoadsAreDue` – a screen that has
  not loaded has its load in the queue;
* `TopIsFresh` – the screen on top has the saved cart and nothing else, or its load
  is the last task;
* `SavedByLoaded` and `UnloadedIsOwn` – whose entries the saved cart and an unloaded
  copy may hold;
* `NextSaveContinues` – the copy a save will encode next is the saved cart, with at
  most the first entries of its own screen behind it.

Every action has one of five effects on these (`Idles`, `Opens`, `Loads`, `Saves`,
`Adds`), and each effect preserves `Core`.  The refinement is then short: a save is
a step of `SavedCart` by `NextSaveContinues`, all else leaves the saved cart alone.
The other invariants go along with the copies: `AllNamed` and `TicksAreNamed` give
`ChargedIsNamed`; `AddedWillBeSaved` and `ChosenWillBeSaved` (added is saved, or in a
list whose save is due) give `EverythingSaved`; `RowsAgree` gives `RowsCounted`.

### FlutterRepeat

`TasksInOrder` lists the continuations an opened screen can have, and with it a reload
brings back what the screen has.  `TotalIsComing` and `SaveIsComing` are as above;
`MarksAreSound` extends `OnlyMissingIsMarked` to the questions in flight, which must
still be about the item at their position, and come for a mark only behind one.

### SwiftCart

The invariants are proved together, as parts of `IInv`.  Alone none survives the copy
of an order: while it runs, the context's repeat list is neither the order nor what
the screen shows.  `CopyGoesOn` says what it is: the copies made followed by the
objects left are the order, and the rest of the screen is still that of the cart.  At
the last step nothing is left, hence the list *is* the order (`RepeatIsLastOrder`), and
in between its copies are a beginning of it (`CutCopyIsPrefix`, which speaks of the disk
and therefore also uses that a save that fails leaves the disk as it was).
`EmptyWithoutScreen` gives the opening of a screen its empty table; `SavedUnlessFailed`
is what a kill needs, since it brings back the store.  `MessageIsShown` follows from
`CopyGoesOn` before a `Send`, and from `ChargedNearTotal`: truncating each of n
lines loses at most n cents (`SumLosesUpToCount` of `DataTheorems`), truncating a sum one.

### SwiftShop

The two kinds of screens touch only the cart, to which each adds behind what is
there, so each side has its invariant and frames the other's.  For products, `LabelIsShown` (the
label is the sum over the green labels while a screen is presented) and
`ProductsAreNumbered`.  For drinks, `CellsAgree` (a row whose cell was never lost shows
what was tapped), `LabelCoversCells` (the label is at least the sum over the cells, and that sum until a scroll)
and `ScreensAreNumbered`, which keeps apart what different screens ordered.

### SwiftCells

A row is right unless its cell is `shared`.  The proof follows the questions: a question
for a cell that is not shared was asked for the preparation the cell has
(`QuestionsAgree`), so what it writes is the row's own; a promotion's row that has
neither mark nor picture has its question out (`OwnQuestionIsOut`), hence
`SettledRows`.  `WindowIsLaidOut` says which rows have cells, and whose objects these were prepared for.

### FirestoreLookup

One assertion of the client can fail, and `AssertionsHold`, a part of `ClientOK`, says
exactly when: the history `hungup` is set when the server ends a stream with OK while a query is
listened to.  As no step follows, every other part of the invariant speaks of a
client no assertion has ended, or of its last state.

`ClientOK` is joined by `TrackerAgrees` (timer, failures and online state of the
tracker) and `CallsAgree`: a call's listener, its operations in the worker's queue, the
events posted to it, its mute and its answers are at one of a few stages, which is how the two
queues are kept together.  The functions of the client have contracts
(`PostContract` and its like) that say what each leaves alone, and the actions are
composed from these.  In `LookupPromise` a call is asked, decided and answered; by
`CallsAgree` each step of the client is one of these or a stutter.

### FirestoreLimbo

`LimboInv` is the invariant behind all three theorems.  None of the properties is
inductive alone: that a document in limbo is asked for depends on its reference, the
reference on the queue, the queue on the places, the places on the targets.  Its
parts, for an engine `c`, the server's documents `S` and the denied ones `D`:

* `c \in Agreed(D)` – the books.  `Sane`: the limbo targets watched are those of the
  resolutions, an id is of one of them, and no more keys are active than there are places.
  `Full`: nothing waits while a place is free.  `Good`: a referenced document is asked for or
  waits, unless denied.  `RefsOf`: the references are the documents in limbo.
* `LimboOfViews` – only a view that is listened to has documents in limbo; this keeps a
  query that is listened to again from finding old ones.
* `LimboIsRest` – a current view's limbo documents are its results without what is synced.
* `KnowsServer` – what a view holds as synced is right, and cached, but for the news
  about it that have not arrived.

`EngineOK` and `LimboIsBeingResolved` follow from the first, `SyncedIsTrue` from the
last two: with nothing in limbo the results are the synced documents.

The engine's functions have contracts, proved from the inside out: `PumpContract`,
`TrackLimboChangeContract`, `RemoveLimboTargetContract` and so on up to
`ApplyRemoteEventContract`, which says what an event leaves in every view, whatever
the order in which they heard of it.  The intermediate engines of a loop satisfy only a
part of the invariant: within `UpdateTrackedLimboDocuments` the references do not match
the views, within an event the views do not match the cache.  A loop over documents or views
is a fold; since its value for a sequence of unknown length is an induction, each is
replaced by its trace (`PumpTurns`, `AddedTurns`, `RemovedTurns`, `UnreferencedTurns`, `ViewTurns`), a sequence
of engines each of which is one turn from the last, and the turn that would be the first
to break the loop's claim is shown not to.

`EventKeeps` is the heart of `KnowsServer`: an event keeps the invariant if what it
says of a view is right, or is not news to it (`Learnt`).  Snapshots, partial snapshots
and existence filters are events of this kind, each for its own reason; so is the event of a rejected
target, which speaks of nothing but a document that has become denied.

### DataTheorems

Prices are summed with `SumFunction`, whose value for a set of unknown size is an
induction, and the library's induction theorems take an operator, which none of the
provers can instantiate.  The module argues by a smallest counterexample instead: a
non-empty set of finite sets has a minimal member (`SmallestSet`).  It follows that sums
of integers are integers in whatever order they are added (`SumsAreUnique`,
`SumsExist`), what one more or one changed term makes of a sum (`SumInSet`,
`SumChanged`), and that a finite set of numbers has exactly one enumeration in order
(`EnumerationExists`, `EnumerationIsUnique`), so that `Entered` depends only on the positions.

The same argument, over the first position that fails (`UpTo`), gives folds.
`FoldLeft` is computed with a table over sets of positions, which the community
modules define by recursion; `FoldExists` says there is such a table, and its
values at `1 .. i` are the trace of the loop.

### What is only model-checked

Liveness under fairness, which is out of the prover's reach (`GoneIsNoticed`,
`PromotionsSettle`, `EveryLookupAnswered`, `LimboEnds`), and the three findings, which are
counterexamples.  Every invariant and every action property that a passing run checks is a theorem.

## 6. What is not modelled

* Texts: the form, additionals as text, the wording of the message and its
  encoding as a URL, layout, pictures (except that an item's picture is the
  one of its promotion).
* Doubles: amounts are whole numbers, in both apps.  In `SwiftCart` the sums that
  truncation lowers are a constant; `SwiftDetails` and `SwiftDrinks` leave the
  truncation of their labels out, so what is said there of a label is said up to a cent.
* On iOS a Core Data fetch that throws: it is printed, and the list fetched before stays.
* Two checkout screens on top of each other (the app's routes do not offer it).
* In the apps' modules Firestore is one set of documents, and an answer tells
  whether the document is in it at the moment it is handled.  That set is the
  server's, or offline the client's cache; the Firestore modules are about the
  difference, and no run composes them with a cart: a lookup of the cart uses
  nothing of the client but the answer.
* The Flutter app reaches the same client through a plug-in that is not in the
  repository; on Android the client is another program.
* Firestore's half for writing (mutation queue, write stream, transactions,
  acknowledgements), which neither app calls; its garbage collector, which
  starts at 100 MB; authentication (the apps have no users, so the credentials
  never change); the wire format; the local store's tables.
* The watch stream's own protocol: counts of outstanding answers, resume tokens in
  memory and on disk, documents of an earlier watch of the same target.
  `FirestoreLimbo` starts from the snapshots that come out of it.
* The lists of promotions on the two start screens: they are fetched anew at each
  start, displayed, and hand the title and price shown to the screen a tap opens.
* gRPC, BoringSSL, abseil, leveldb, nanopb, GoogleUtilities: libraries under the
  client.  Nearly all lines of the repository are theirs, so that the share of
  lines these modules map is small although every screen of the apps that keeps state is mapped.
* The components marked *not modelled* in section 1.
