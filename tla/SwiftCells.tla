----------------------------- MODULE SwiftCells -----------------------------
(***************************************************************************)
(* The rows of the iOS cart screen: tableView(_:cellForRowAt:) of          *)
(* CarrinhoViewController.swift (RepeatViewController.swift has the same   *)
(* code) with the lookups of promotions it starts, GenericsDAO.find and    *)
(* StorageAccessor.recoverImage.                                           *)
(*                                                                         *)
(* A table has fewer cells than rows ever shown: reloadData and scrolling  *)
(* give cells back and take them again, in an order UIKit does not promise.*)
(* For a promotion cellForRowAt asks Firestore whether it still exists and *)
(* captures the cell, not the row.  The answer, and later the picture, are *)
(* written into that cell whichever row it shows by then.                  *)
(*                                                                         *)
(* What a save of the cart does when it fails is the subject of SwiftCart. *)
(* of, prep, shared, excused and lost of a cell are history.               *)
(***************************************************************************)
EXTENDS Integers, Sequences, SequencesExt

CONSTANTS
  Foods, Promotions,   \* titles of products
  Cells,               \* the cells the table has made
  Indisponivel,        \* the title written into the cell of a missing promotion
  Logo, NoPicture,     \* the two pictures that are no product's
  Price,               \* of each product
  Height,              \* rows visible at a time
  MaxItems, MaxUnits,  \* bounds: products in the cart, units of one
  MaxPreps             \* bound: times the table prepares cells

Titles == Foods \cup Promotions

ASSUME CellsAssumption ==
  /\ Foods \cap Promotions = {} /\ Titles # {} /\ Indisponivel \notin Titles
  /\ Logo \notin Titles /\ NoPicture \notin Titles
  /\ Price \in [Titles -> Nat \ {0}]
  /\ Height \in Nat \ {0} /\ MaxItems \in Nat /\ MaxUnits \in Nat \ {0} /\ MaxPreps \in Nat \ {0}

VARIABLES
  items,      \* itemsProduct, the fetched CurrentPurchase
  label,      \* paymentTotalLabel
  first,      \* first visible row
  table,      \* the cell of each visible row; empty between reloadData and the layout
  laidOut,    \* no layout is due
  cells,      \* what each cell shows
  questions,  \* lookups and downloads under way
  published,  \* promotions in Firestore
  online,     \* the client reaches Firestore
  preps       \* times the table has prepared cells

outside == <<published, online>>
screen  == <<items, label, first, table, laidOut>>
vars    == <<screen, cells, questions, outside, preps>>

Item == [title : Titles, units : 1 .. MaxUnits]

Cell == [of : Titles, title : Titles \cup {Indisponivel}, price : Nat,
         picture : Titles \cup {Logo, NoPicture},
         prep : 0 .. MaxPreps,
         shared : BOOLEAN,   \* taken while an answer for another preparation could still mislead
         excused : BOOLEAN,  \* its product was withdrawn, or the app offline, at some time since
         lost : BOOLEAN]     \* its own question or download failed, or one wrote the logo into it

\* a captured cell, the preparation that captured it, and how far the answer has come
Question == [cell : Cells, prep : 1 .. MaxPreps, title : Promotions,
             phase : {"asked", "none", "one", "download", "arrived"}]

Amount(i) == Price[i.title] * i.units

\* updateTotalValue
Total(is) == SumFunction([i \in DOMAIN is |-> Amount(is[i])])

Visible(from) == {r \in 1 .. Len(items) : from <= r /\ r < from + Height}
Injections(S) == {f \in [S -> Cells] : \A r, s \in S : f[r] = f[s] => r = s}

-----------------------------------------------------------------------------
\* mutant: title.text = ... only for an empty title, without prepareForReuse
FreshKeepingTitle(c, i) ==
  [of |-> i.title, title |-> IF cells[c].prep = 0 THEN i.title ELSE cells[c].title, price |-> Amount(i),
   picture |-> IF i.title \in Foods THEN i.title ELSE NoPicture, prep |-> preps + 1,
   shared  |-> \E q \in questions : q.cell = c /\ (q.title # i.title \/ q.phase = "none"),
   excused |-> ~online \/ i.title \notin published, lost |-> FALSE]

\* cellForRowAt, for the rows of the function f from rows to cells
Fresh(c, i) ==
  [of |-> i.title, title |-> i.title, price |-> Amount(i),
   picture |-> IF i.title \in Foods THEN i.title ELSE NoPicture, prep |-> preps + 1,
   shared  |-> \E q \in questions : q.cell = c /\ (q.title # i.title \/ q.phase = "none"),
   excused |-> ~online \/ i.title \notin published, lost |-> FALSE]

Prepared(f) ==
  [c \in Cells |-> IF \E r \in DOMAIN f : f[r] = c
                   THEN Fresh(c, items[CHOOSE r \in DOMAIN f : f[r] = c])
                   ELSE cells[c]]

Asked(f) ==
  {[cell |-> f[r], prep |-> preps + 1, title |-> items[r].title, phase |-> "asked"] :
     r \in {s \in DOMAIN f : items[s].title \in Promotions}}

Prepare(f) ==
  /\ cells' = Prepared(f)
  /\ questions' = questions \cup Asked(f)
  /\ label' = IF Asked(f) = {} THEN label ELSE Total(items)
  /\ preps' = preps + 1

\* updateData: reloadData gives all cells back, the layout takes some again
UpdateData(is) ==
  /\ items' = is /\ label' = Total(is)
  /\ table' = <<>> /\ laidOut' = FALSE
  /\ UNCHANGED <<first, cells, questions, outside, preps>>

Init ==
  /\ \E n \in 0 .. MaxItems : items \in [1 .. n -> Item]
  /\ label = Total(items) /\ first = 1 /\ table = <<>> /\ laidOut = FALSE
  /\ LET t == CHOOSE t \in Titles : TRUE  \* a cell never prepared shows nothing yet
     IN cells = [c \in Cells |-> [of |-> t, title |-> t, price |-> 0, picture |-> Logo, prep |-> 0,
                                  shared |-> FALSE, excused |-> FALSE, lost |-> FALSE]]
  /\ questions = {} /\ published \in SUBSET Promotions /\ online = TRUE /\ preps = 0

\* layoutSubviews, at the end of the run loop's turn or after other main blocks
Layout ==
  /\ ~laidOut /\ laidOut' = TRUE
  /\ first' = Max({1, Min({first, Len(items) - Height + 1})})
  /\ \E f \in Injections(Visible(first')) : table' = f /\ Prepare(f)
  /\ UNCHANGED <<items, outside>>

\* the customer's taps and scrolls; each makes the table prepare cells once
Tap == laidOut /\ preps < MaxPreps

AddUnit(r) ==
  /\ Tap /\ r \in DOMAIN table /\ items[r].units < MaxUnits
  /\ UpdateData([items EXCEPT ![r].units = @ + 1])

SubUnit(r) ==
  /\ Tap /\ r \in DOMAIN table /\ items[r].units > 1
  /\ UpdateData([items EXCEPT ![r].units = @ - 1])

Close(r) ==
  /\ Tap /\ r \in DOMAIN table
  /\ UpdateData(RemoveAt(items, r))

Scroll(to) ==
  /\ Tap /\ to \in 1 .. Len(items) - Height + 1 /\ to \in {first - 1, first + 1}
  /\ first' = to
  /\ LET stay == Visible(to) \cap DOMAIN table
         kept == {table[r] : r \in stay}
     IN \E f \in [Visible(to) \ stay -> Cells \ kept] :
          /\ table' = [r \in Visible(to) |-> IF r \in stay THEN table[r] ELSE f[r]]
          /\ Prepare(f)
  /\ UNCHANGED <<items, laidOut, outside>>

-----------------------------------------------------------------------------
\* what follows the question of one preparation of a cell
Move(q, phase) == questions' = (questions \ {q}) \cup {[q EXCEPT !.phase = phase]}
Drop(q) == questions' = questions \ {q}

Write(q, c) == cells' = [cells EXCEPT ![q.cell] = c]
Lose(q, c)  == Write(q, [c EXCEPT !.lost = @ \/ c.prep = q.prep])

\* mutant: an empty list taken for an error
AnswerUnlessEmpty(q) ==
  /\ q.phase = "asked"
  /\ \/ (q.title \in published \/ ~online) /\ Move(q, "one")
     \/ (q.title \notin published \/ ~online) /\ Drop(q)
  /\ UNCHANGED <<screen, cells, outside, preps>>

\* handleDocuments; offline the answer comes from what the client has cached
Answer(q) ==
  /\ q.phase = "asked"
  /\ \/ (q.title \in published \/ ~online) /\ Move(q, "one")
     \/ (q.title \notin published \/ ~online) /\ Move(q, "none")
  /\ UNCHANGED <<screen, cells, outside, preps>>

\* an error: "---- erro ----"
Fail(q) ==
  /\ q.phase = "asked" /\ Drop(q) /\ Lose(q, cells[q.cell])
  /\ UNCHANGED <<screen, outside, preps>>

\* the block on the main queue, image.count == 0
MarkMissing(q) ==
  /\ q.phase = "none" /\ Drop(q)
  /\ Write(q, [cells[q.cell] EXCEPT !.title = Indisponivel, !.price = 0])
  /\ UNCHANGED <<screen, outside, preps>>

\* mutant: the operation is made and never queued
StartNoDownload(q) ==
  /\ q.phase = "one" /\ Drop(q)
  /\ UNCHANGED <<screen, cells, outside, preps>>

\* the block on the main queue, image[0]
StartDownload(q) ==
  /\ q.phase = "one" /\ Move(q, "download")
  /\ UNCHANGED <<screen, cells, outside, preps>>

\* recoverImage, with data that is a picture, on the thread of the task
Downloaded(q) ==
  /\ q.phase = "download" /\ Move(q, "arrived")
  /\ UNCHANGED <<screen, cells, outside, preps>>

\* The completion has the logo, or no image and the cell gets it: the promotion
\* names no file (25-28), the URL is refused (30-32), or the data is no picture (48-51).
ShowLogo(q) ==
  /\ q.phase = "download" /\ Drop(q)
  /\ Write(q, [cells[q.cell] EXCEPT !.picture = Logo, !.lost = TRUE])
  /\ UNCHANGED <<screen, outside, preps>>

\* an error of the data task is printed, and no completion called
NoData(q) ==
  /\ q.phase = "download" /\ Drop(q) /\ Lose(q, cells[q.cell])
  /\ UNCHANGED <<screen, outside, preps>>

ShowPicture(q) ==
  /\ q.phase = "arrived" /\ Drop(q)
  /\ Write(q, [cells[q.cell] EXCEPT !.picture = q.title])
  /\ UNCHANGED <<screen, outside, preps>>

-----------------------------------------------------------------------------
\* the restaurant and the network
Excuse(S) == cells' = [c \in Cells |-> [cells[c] EXCEPT !.excused = @ \/ cells[c].of \in S]]

Withdraw(t) ==
  /\ t \in published /\ published' = published \ {t} /\ Excuse({t})
  /\ UNCHANGED <<screen, questions, online, preps>>

GoOffline ==
  /\ online /\ online' = FALSE /\ Excuse(Titles)
  /\ UNCHANGED <<screen, questions, published, preps>>

GoOnline ==
  /\ ~online /\ online' = TRUE
  /\ UNCHANGED <<screen, cells, questions, published, preps>>

Progress(q) ==
  \/ Answer(q) \/ Fail(q) \/ MarkMissing(q) \/ StartDownload(q)
  \/ Downloaded(q) \/ ShowLogo(q) \/ NoData(q) \/ ShowPicture(q)

Next ==
  \/ Layout
  \/ \E r \in 1 .. Len(items) : AddUnit(r) \/ SubUnit(r) \/ Close(r) \/ Scroll(r)
  \/ \E q \in questions : Progress(q)
  \/ \E t \in Promotions : Withdraw(t)
  \/ GoOffline \/ GoOnline

Spec == Init /\ [][Next]_vars

\* the run loop lays out, and every question is answered or fails
FairSpec ==
  /\ Spec /\ WF_vars(Layout)
  /\ \A c \in Cells, n \in 1 .. MaxPreps :
       WF_vars(\E q \in questions : q.cell = c /\ q.prep = n /\ Progress(q))

-----------------------------------------------------------------------------
TypeOK ==
  /\ items \in Seq(Item) /\ Len(items) <= MaxItems /\ label \in Nat
  /\ first \in Nat \ {0} /\ laidOut \in BOOLEAN
  /\ DOMAIN table \subseteq 1 .. Len(items) /\ \A r \in DOMAIN table : table[r] \in Cells
  /\ cells \in [Cells -> Cell] /\ questions \subseteq Question
  /\ published \subseteq Promotions /\ online \in BOOLEAN /\ preps \in 0 .. MaxPreps

shown == [r \in DOMAIN table |-> cells[table[r]]]

(* A visible row shows its own product and price, or Indisponível and R$   *)
(* 0,00 together.  It says Indisponível only if its promotion was missing, *)
(* or the app offline, at some time since the cell was prepared, and has   *)
(* its own picture or none of a product's - unless the cell was taken while*)
(* an answer for an earlier preparation was under way: cellForRowAt's      *)
(* closures capture the cell.                                              *)
RowIsItsOwn ==
  \A r \in DOMAIN table :
    /\ <<shown[r].title, shown[r].price>> \in {<<items[r].title, Amount(items[r])>>, <<Indisponivel, 0>>}
    /\ shown[r].shared \/ shown[r].title # Indisponivel
          \/ (items[r].title \in Promotions /\ shown[r].excused)
    /\ shown[r].shared \/ shown[r].picture \in {items[r].title, Logo, NoPicture}

(* A promotion's row for whose cell nothing is under way is marked or has  *)
(* its picture, unless its own question or download failed, some download  *)
(* put the logo there, or the cell was shared: no answer is forgotten,     *)
(* whatever the layouts in between.                                        *)
SettledRows ==
  \A r \in DOMAIN table :
    items[r].title \in Promotions /\ ~shown[r].shared /\ ~shown[r].lost
      /\ (\A q \in questions : q.cell # table[r])
    => shown[r].title = Indisponivel \/ shown[r].picture = items[r].title

(* What the two rest on.  A table that is laid out has the rows of its     *)
(* window, each in a cell prepared for its product; one that is not has    *)
(* none, and no tap was spent.                                             *)
WindowIsLaidOut ==
  /\ IF laidOut THEN DOMAIN table = Visible(first) ELSE DOMAIN table = {} /\ preps < MaxPreps
  /\ \A r \in DOMAIN table : shown[r].of = items[r].title

(* A question is about the product of its cell, and the answer "none" a    *)
(* product withdrawn since, unless the cell was shared.                    *)
QuestionsAgree ==
  \A q \in questions : cells[q.cell].shared \/
    /\ q.title = cells[q.cell].of
    /\ cells[q.cell].excused \/ (online /\ q.title \in published /\ q.phase # "none")

(* A promotion's row that has neither mark nor picture still has its own   *)
(* question out.                                                           *)
OwnQuestionIsOut ==
  \A r \in DOMAIN table :
    items[r].title \in Promotions /\ ~shown[r].shared /\ ~shown[r].lost
    => \/ shown[r].title = Indisponivel \/ shown[r].picture = items[r].title
       \/ \E q \in questions : q.cell = table[r] /\ q.prep = shown[r].prep

(* Every preparation of a cell for a promotion ends: with the mark, with   *)
(* the picture, with a failure, or with the next preparation; only in a    *)
(* shared cell an older download may land last and hide them.              *)
PromotionsSettle ==
  \A c \in Cells, n \in 1 .. MaxPreps :
    (cells[c].prep = n /\ cells[c].of \in Promotions)
    ~> (\/ cells[c].prep # n \/ cells[c].lost \/ cells[c].shared
        \/ cells[c].title = Indisponivel \/ cells[c].picture = cells[c].of)

=============================================================================
