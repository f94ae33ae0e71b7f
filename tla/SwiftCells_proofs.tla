--------------------------- MODULE SwiftCells_proofs ---------------------------
(***************************************************************************)
(* Theorems about the rows of the iOS cart screen, for every set of        *)
(* products and of cells, every window and every bound of SwiftCells.      *)
(***************************************************************************)
EXTENDS SwiftCells, DataTheorems

LEMMA ItemAt ==
  ASSUME NEW list \in Seq(Item), NEW r \in DOMAIN list
  PROVE  list[r] \in Item
  OBVIOUS

LEMMA AmountIsNat ==
  ASSUME NEW i \in Item
  PROVE  i.title \in Titles /\ Amount(i) \in Nat
<1>1. i.title \in Titles /\ i.units \in Nat
  BY CellsAssumption DEF Item
<1>2. Price[i.title] \in Nat
  BY <1>1, CellsAssumption
<1> QED
  BY <1>1, <1>2 DEF Amount

\* The label's sum is a number, however long the cart is.
LEMMA TotalIsNat ==
  ASSUME NEW list \in Seq(Item)
  PROVE  Total(list) \in Nat
<1> DEFINE f == [r \in DOMAIN list |-> Amount(list[r])]
<1>1. \A r \in DOMAIN f : f[r] \in Nat
  BY ItemAt, AmountIsNat
<1>2. IsFiniteSet(DOMAIN f)
  <2>1. DOMAIN f = 1 .. Len(list) /\ Len(list) \in Nat
    OBVIOUS
  <2> QED
    BY <2>1, FS_Interval
<1> HIDE DEF f
<1>3. SumFunction(f) \in Nat
  BY <1>1, <1>2, SumOfFunction
<1> QED
  BY <1>3 DEF Total, f

LEMMA OneLess ==
  ASSUME NEW list \in Seq(Item), NEW r \in DOMAIN list
  PROVE  RemoveAt(list, r) \in Seq(Item) /\ Len(RemoveAt(list, r)) = Len(list) - 1
<1>1. r \in 1 .. Len(list) /\ Len(list) \in Nat
  OBVIOUS
<1>2. /\ SubSeq(list, 1, r - 1) \in Seq(Item) /\ Len(SubSeq(list, 1, r - 1)) = r - 1
      /\ SubSeq(list, r + 1, Len(list)) \in Seq(Item) /\ Len(SubSeq(list, r + 1, Len(list))) = Len(list) - r
  BY <1>1
<1>3. ASSUME NEW a \in Seq(Item), NEW b \in Seq(Item) PROVE a \o b \in Seq(Item) /\ Len(a \o b) = Len(a) + Len(b)
  OBVIOUS
<1> DEFINE front == SubSeq(list, 1, r - 1)
           back == SubSeq(list, r + 1, Len(list))
<1>4. RemoveAt(list, r) = front \o back
  BY DEF RemoveAt
<1> HIDE DEF front, back
<1>5. front \o back \in Seq(Item) /\ Len(front \o back) = (r - 1) + (Len(list) - r)
  BY <1>2, <1>3 DEF front, back
<1> QED
  BY <1>1, <1>4, <1>5

LEMMA UnitsOfOne ==
  ASSUME NEW list \in Seq(Item), NEW r \in DOMAIN list, NEW u \in 1 .. MaxUnits
  PROVE  [list EXCEPT ![r].units = u] \in Seq(Item) /\ Len([list EXCEPT ![r].units = u]) = Len(list)
<1>1. ASSUME NEW i \in Item PROVE [i EXCEPT !.units = u] \in Item
  BY DEF Item
<1>2. [list[r] EXCEPT !.units = u] \in Item
  BY <1>1, ItemAt
<1> QED
  BY <1>2

LEMMA LargerOfTwo ==
  ASSUME NEW a \in Int, NEW b \in Int
  PROVE  /\ Max({a, b}) \in {a, b} /\ Max({a, b}) >= a /\ Max({a, b}) >= b
         /\ Min({a, b}) \in {a, b}
<1>1. \E x \in {a, b} : \A y \in {a, b} : x >= y
  OBVIOUS
<1>2. \E x \in {a, b} : \A y \in {a, b} : x =< y
  OBVIOUS
<1>3. Max({a, b}) \in {a, b} /\ \A y \in {a, b} : Max({a, b}) >= y
  BY <1>1 DEF Max
<1>4. Min({a, b}) \in {a, b}
  BY <1>2 DEF Min
<1> QED
  BY <1>3, <1>4

-----------------------------------------------------------------------------
(* The parts of a cell *)

\* Writing one part of a cell leaves it a cell and the other parts alone.
LEMMA CellParts ==
  ASSUME NEW c \in Cell
  PROVE  /\ c.of \in Titles /\ c.title \in Titles \cup {Indisponivel} /\ c.price \in Nat
         /\ c.picture \in Titles \cup {Logo, NoPicture} /\ c.prep \in 0 .. MaxPreps
         /\ c.shared \in BOOLEAN /\ c.excused \in BOOLEAN /\ c.lost \in BOOLEAN
  BY DEF Cell

SameHistory(c, n) == n.of = c.of /\ n.prep = c.prep /\ n.shared = c.shared /\ n.excused = c.excused

LEMMA PicturedCell ==
  ASSUME NEW c \in Cell, NEW t \in Titles \cup {Logo, NoPicture},
         NEW n, n = [c EXCEPT !.picture = t]
  PROVE  n \in Cell /\ SameHistory(c, n) /\ n.title = c.title /\ n.price = c.price /\ n.picture = t /\ n.lost = c.lost
  BY DEF Cell, SameHistory

LEMMA LostCell ==
  ASSUME NEW c \in Cell, NEW b \in BOOLEAN,
         NEW n, n = [c EXCEPT !.lost = b]
  PROVE  n \in Cell /\ SameHistory(c, n) /\ n.title = c.title /\ n.price = c.price /\ n.picture = c.picture /\ n.lost = b
  BY DEF Cell, SameHistory

LEMMA ExcusedCell ==
  ASSUME NEW c \in Cell, NEW b \in BOOLEAN,
         NEW n, n = [c EXCEPT !.excused = b]
  PROVE  /\ n \in Cell /\ n.of = c.of /\ n.prep = c.prep /\ n.shared = c.shared /\ n.excused = b
         /\ n.title = c.title /\ n.price = c.price /\ n.picture = c.picture /\ n.lost = c.lost
  BY DEF Cell

-----------------------------------------------------------------------------
(* Preparing cells *)

\* What a cell is prepared to be for item i.
IsFresh(n, k, i) ==
  /\ n \in Cell /\ n.of = i.title /\ n.title = i.title /\ n.price = Amount(i)
  /\ n.picture \in {i.title, NoPicture} /\ (i.title \in Foods => n.picture = i.title)
  /\ n.prep = preps + 1 /\ ~n.lost
  /\ n.excused \/ (online /\ i.title \in published)
  /\ n.shared \/ \A q \in questions : q.cell = k => q.title = i.title /\ q.phase # "none"

LEMMA FreshIsFresh ==
  ASSUME TypeOK, preps < MaxPreps, NEW k \in Cells, NEW i \in Item
  PROVE  IsFresh(Fresh(k, i), k, i)
<1>1. i.title \in Titles /\ Amount(i) \in Nat
  BY AmountIsNat
<1>2. PICK pic \in Titles \cup {Logo, NoPicture} : pic = IF i.title \in Foods THEN i.title ELSE NoPicture
  BY <1>1
<1>3. PICK s \in BOOLEAN : s = (\E q \in questions : q.cell = k /\ (q.title # i.title \/ q.phase = "none"))
  OBVIOUS
<1>4. PICK e \in BOOLEAN : e = (~online \/ i.title \notin published)
  BY DEF TypeOK
<1>5. preps + 1 \in 0 .. MaxPreps
  BY CellsAssumption DEF TypeOK
<1>6. PICK l \in BOOLEAN : l = FALSE
  OBVIOUS
<1> DEFINE n == [of |-> i.title, title |-> i.title, price |-> Amount(i), picture |-> pic,
                 prep |-> preps + 1, shared |-> s, excused |-> e, lost |-> l]
<1>7. Fresh(k, i) = n
  BY <1>2, <1>3, <1>4, <1>6, Zenon DEF Fresh
<1>8. /\ n \in Cell /\ n.of = i.title /\ n.title = i.title /\ n.price = Amount(i) /\ n.picture = pic
      /\ n.prep = preps + 1 /\ n.shared = s /\ n.excused = e /\ n.lost = l
  BY <1>1, <1>5 DEF Cell
<1> HIDE DEF n
<1>9. pic \in {i.title, NoPicture} /\ (i.title \in Foods => pic = i.title)
  BY <1>2
<1>10. e \/ (online /\ i.title \in published)
  BY <1>4
<1>11. s \/ \A q \in questions : q.cell = k => q.title = i.title /\ q.phase # "none"
  BY <1>3
<1>12. IsFresh(n, k, i)
  BY <1>6, <1>8, <1>9, <1>10, <1>11 DEF IsFresh
<1> QED
  BY <1>7, <1>12

\* Rows that take cells of their own get them prepared, and ask for their
\* promotions; no other cell changes.
Takes(f) ==
  /\ DOMAIN f \subseteq 1 .. Len(items) /\ f \in [DOMAIN f -> Cells]
  /\ \A r, s \in DOMAIN f : f[r] = f[s] => r = s

LEMMA PreparedCells ==
  ASSUME TypeOK, preps < MaxPreps, NEW f, Takes(f)
  PROVE  /\ Prepared(f) \in [Cells -> Cell]
         /\ \A r \in DOMAIN f : f[r] \in Cells /\ IsFresh(Prepared(f)[f[r]], f[r], items[r])
         /\ \A k \in Cells : (\A r \in DOMAIN f : f[r] # k) => Prepared(f)[k] = cells[k]
<1>1. \A r \in DOMAIN f : items[r] \in Item /\ f[r] \in Cells
  BY ItemAt DEF Takes, TypeOK
<1>2. ASSUME NEW r \in DOMAIN f PROVE Prepared(f)[f[r]] = Fresh(f[r], items[r])
  <2>1. (CHOOSE s \in DOMAIN f : f[s] = f[r]) = r
    BY DEF Takes
  <2> QED
    BY <1>1, <2>1 DEF Prepared
<1>3. \A r \in DOMAIN f : IsFresh(Prepared(f)[f[r]], f[r], items[r])
  BY <1>1, <1>2, FreshIsFresh
<1>4. \A k \in Cells : (\A r \in DOMAIN f : f[r] # k) => Prepared(f)[k] = cells[k]
  BY DEF Prepared
<1>5. ASSUME NEW k \in Cells PROVE Prepared(f)[k] \in Cell
  <2>1. CASE \E r \in DOMAIN f : f[r] = k
    BY <1>3, <2>1 DEF IsFresh
  <2>2. CASE ~ \E r \in DOMAIN f : f[r] = k
    BY <1>4, <2>2 DEF TypeOK
  <2> QED
    BY <2>1, <2>2
<1>6. Prepared(f) = [k \in Cells |-> Prepared(f)[k]]
  BY DEF Prepared
<1> QED
  BY <1>1, <1>3, <1>4, <1>5, <1>6

LEMMA AskedQuestions ==
  ASSUME TypeOK, preps < MaxPreps, NEW f, Takes(f)
  PROVE  /\ Asked(f) \subseteq Question
         /\ \A q \in Asked(f) : \E r \in DOMAIN f : q.cell = f[r] /\ q.title = items[r].title /\ q.phase = "asked"
         /\ \A r \in DOMAIN f : items[r].title \in Promotions =>
              \E q \in Asked(f) : q.cell = f[r] /\ q.prep = preps + 1
<1>1. \A r \in DOMAIN f : f[r] \in Cells
  BY DEF Takes
<1>2. preps + 1 \in 1 .. MaxPreps
  BY CellsAssumption DEF TypeOK
<1>3. ASSUME NEW r \in DOMAIN f, items[r].title \in Promotions
      PROVE  [cell |-> f[r], prep |-> preps + 1, title |-> items[r].title, phase |-> "asked"] \in Question
  BY <1>1, <1>2, <1>3 DEF Question
<1>4. Asked(f) \subseteq Question
  BY <1>3 DEF Asked
<1>5. \A q \in Asked(f) : \E r \in DOMAIN f : q.cell = f[r] /\ q.title = items[r].title /\ q.phase = "asked"
  BY DEF Asked
<1>6. \A r \in DOMAIN f : items[r].title \in Promotions =>
        \E q \in Asked(f) : q.cell = f[r] /\ q.prep = preps + 1
  <2>1. ASSUME NEW r \in DOMAIN f, items[r].title \in Promotions PROVE \E q \in Asked(f) : q.cell = f[r] /\ q.prep = preps + 1
    <3> DEFINE q == [cell |-> f[r], prep |-> preps + 1, title |-> items[r].title, phase |-> "asked"]
    <3>1. q \in Asked(f)
      BY <2>1 DEF Asked
    <3> QED
      BY <3>1
  <2> QED
    BY <2>1
<1> QED
  BY <1>4, <1>5, <1>6

-----------------------------------------------------------------------------
(* The effects of the actions *)

\* A tap on a button changes the cart and gives all cells back.
LEMMA UpdateDataTypes ==
  ASSUME TypeOK, Tap, NEW is \in Seq(Item), Len(is) <= MaxItems, UpdateData(is)
  PROVE  TypeOK' /\ DOMAIN table' = {} /\ ~laidOut' /\ preps' < MaxPreps
<1>1. label' \in Nat
  BY TotalIsNat DEF UpdateData
<1>2. table' = <<>> /\ DOMAIN <<>> = {}
  BY DEF UpdateData
<1> QED
  BY <1>1, <1>2 DEF UpdateData, TypeOK, Tap, outside

LEMMA TapsUpdate ==
  ASSUME TypeOK, NEW r \in 1 .. Len(items), AddUnit(r) \/ SubUnit(r) \/ Close(r)
  PROVE  Tap /\ \E is \in Seq(Item) : Len(is) <= MaxItems /\ UpdateData(is)
<1>1. items \in Seq(Item) /\ r \in DOMAIN items /\ Len(items) <= MaxItems /\ items[r] \in Item
  BY DEF TypeOK
<1>2. items[r].units \in 1 .. MaxUnits /\ MaxUnits \in Nat /\ MaxItems \in Nat
  BY <1>1, CellsAssumption DEF Item
<1>3. CASE AddUnit(r)
  <2>1. items[r].units + 1 \in 1 .. MaxUnits
    BY <1>2, <1>3 DEF AddUnit
  <2>2. UpdateData([items EXCEPT ![r].units = items[r].units + 1])
    BY <1>3 DEF AddUnit
  <2> QED
    BY <1>1, <1>3, <2>1, <2>2, UnitsOfOne DEF AddUnit
<1>4. CASE SubUnit(r)
  <2>1. items[r].units - 1 \in 1 .. MaxUnits
    BY <1>2, <1>4 DEF SubUnit
  <2>2. UpdateData([items EXCEPT ![r].units = items[r].units - 1])
    BY <1>4 DEF SubUnit
  <2> QED
    BY <1>1, <1>4, <2>1, <2>2, UnitsOfOne DEF SubUnit
<1>5. CASE Close(r)
  <2>1. RemoveAt(items, r) \in Seq(Item) /\ Len(RemoveAt(items, r)) <= MaxItems
    BY <1>1, <1>2, OneLess
  <2> QED
    BY <1>5, <2>1 DEF Close
<1> QED
  BY <1>3, <1>4, <1>5

\* A layout and a scroll are one thing: some rows take cells, the others keep
\* theirs, and the table has the rows of its window.
Relaid(f) ==
  /\ preps < MaxPreps /\ Takes(f) /\ Prepare(f)
  /\ first' \in Nat \ {0} /\ laidOut' /\ DOMAIN table' = Visible(first')
  /\ \A r \in DOMAIN table' :
       \/ r \in DOMAIN f /\ table'[r] = f[r]
       \/ r \in DOMAIN table /\ table'[r] = table[r] /\ \A s \in DOMAIN f : f[s] # table[r]
  /\ UNCHANGED <<items, outside>>

LEMMA LayoutRelays ==
  ASSUME TypeOK, WindowIsLaidOut, Layout
  PROVE  \E f : Relaid(f)
<1>1. PICK f \in Injections(Visible(first')) : table' = f /\ Prepare(f)
  BY DEF Layout
<1>2. preps < MaxPreps
  BY DEF Layout, WindowIsLaidOut
<1>3. f \in [Visible(first') -> Cells] /\ \A r, s \in Visible(first') : f[r] = f[s] => r = s
  BY <1>1 DEF Injections
<1>4. DOMAIN f = Visible(first') /\ Visible(first') \subseteq 1 .. Len(items)
  BY <1>3 DEF Visible
<1>5. Takes(f)
  BY <1>3, <1>4 DEF Takes
<1>6. first' \in Nat \ {0}
  <2>1. first \in Int /\ Len(items) - Height + 1 \in Int
    BY CellsAssumption DEF TypeOK
  <2>2. PICK m : m = Min({first, Len(items) - Height + 1})
    OBVIOUS
  <2>3. m \in Int
    BY <2>1, <2>2, LargerOfTwo
  <2>4. Max({1, m}) \in Int /\ Max({1, m}) >= 1
    <3>1. \A a, b \in Int : Max({a, b}) \in {a, b} /\ Max({a, b}) >= a
      BY LargerOfTwo
    <3>2. 1 \in Int
      OBVIOUS
    <3>3. Max({1, m}) \in {1, m} /\ Max({1, m}) >= 1
      BY <2>3, <3>1, <3>2
    <3> QED
      BY <2>3, <3>3
  <2> QED
    BY <2>2, <2>4 DEF Layout
<1>7. \A r \in DOMAIN table' : r \in DOMAIN f /\ table'[r] = f[r]
  BY <1>1
<1>8. laidOut' /\ UNCHANGED <<items, outside>> /\ DOMAIN table' = Visible(first')
  BY <1>1, <1>4 DEF Layout
<1> QED
  BY <1>1, <1>2, <1>5, <1>6, <1>7, <1>8 DEF Relaid

LEMMA ScrollRelays ==
  ASSUME TypeOK, WindowIsLaidOut, NEW to, Scroll(to)
  PROVE  \E f : Relaid(f)
<1> DEFINE stay == Visible(to) \cap DOMAIN table
           kept == {table[r] : r \in stay}
<1>1. PICK f \in [Visible(to) \ stay -> Cells \ kept] :
        /\ table' = [r \in Visible(to) |-> IF r \in stay THEN table[r] ELSE f[r]]
        /\ Prepare(f)
  BY DEF Scroll
<1>2. /\ preps < MaxPreps /\ laidOut /\ to \in 1 .. Len(items) - Height + 1 /\ to \in {first - 1, first + 1}
      /\ first' = to /\ UNCHANGED <<items, laidOut, outside>>
  BY DEF Scroll, Tap
<1>3. DOMAIN table = Visible(first)
  BY <1>2 DEF WindowIsLaidOut
<1>4. DOMAIN f = Visible(to) \ stay /\ DOMAIN f \subseteq 1 .. Len(items) /\ f \in [DOMAIN f -> Cells]
  BY <1>1 DEF Visible
<1>5. \A r, s \in DOMAIN f : r = s
  <2>1. /\ Len(items) \in Nat /\ Height \in Nat \ {0} /\ first \in Nat \ {0} /\ to \in Nat
    BY <1>2, CellsAssumption DEF TypeOK
  <2>2. \A r \in DOMAIN f : r \in Visible(to) /\ r \notin Visible(first)
    BY <1>3, <1>4
  <2>3. \A r \in DOMAIN f : r = IF to = first + 1 THEN first + Height ELSE to
    BY <1>2, <2>1, <2>2 DEF Visible
  <2> QED
    BY <2>3
<1>6. Takes(f)
  BY <1>4, <1>5 DEF Takes
<1>7. ASSUME NEW r \in DOMAIN table'
      PROVE  \/ r \in DOMAIN f /\ table'[r] = f[r]
             \/ r \in DOMAIN table /\ table'[r] = table[r] /\ \A s \in DOMAIN f : f[s] # table[r]
  <2>1. r \in Visible(to)
    BY <1>1
  <2>2. CASE r \in stay
    <3>1. table'[r] = table[r] /\ table[r] \in kept
      BY <1>1, <2>1, <2>2
    <3> QED
      BY <1>1, <2>2, <3>1
  <2>3. CASE r \notin stay
    BY <1>1, <1>4, <2>1, <2>3
  <2> QED
    BY <2>2, <2>3
<1>8. laidOut' /\ first' \in Nat \ {0} /\ DOMAIN table' = Visible(first')
  <2>1. Visible(to)' = Visible(to)
    BY <1>2 DEF Visible
  <2>2. laidOut' /\ first' \in Nat \ {0}
    BY <1>2 DEF TypeOK
  <2>3. DOMAIN table' = Visible(to)
    BY <1>1
  <2> QED
    BY <1>2, <2>2, <2>3
<1> QED
  BY <1>1, <1>2, <1>6, <1>7, <1>8 DEF Relaid

LEMMA RelaidTypes ==
  ASSUME TypeOK, NEW f, Relaid(f)
  PROVE  TypeOK'
<1>1. Prepare(f) /\ Takes(f) /\ preps < MaxPreps /\ UNCHANGED <<items, outside>>
  BY DEF Relaid
<1>2. cells' \in [Cells -> Cell]
  BY <1>1, PreparedCells DEF Prepare
<1>3. questions' \subseteq Question
  BY <1>1, AskedQuestions DEF Prepare, TypeOK
<1>4. label' \in Nat
  BY <1>1, TotalIsNat DEF Prepare, TypeOK
<1>5. preps' \in 0 .. MaxPreps
  BY <1>1, CellsAssumption DEF Prepare, TypeOK
<1>6. first' \in Nat \ {0} /\ laidOut' \in BOOLEAN
  BY DEF Relaid
<1>7. DOMAIN table' \subseteq 1 .. Len(items)
  BY <1>1 DEF Relaid, Visible
<1>8. \A r \in DOMAIN table' : table'[r] \in Cells
  <2>1. \A r \in DOMAIN f : f[r] \in Cells
    BY <1>1 DEF Takes
  <2> QED
    BY <2>1 DEF Relaid, TypeOK
<1>9. items' = items /\ published' = published /\ online' = online
  BY <1>1 DEF outside
<1> QED
  BY <1>2, <1>3, <1>4, <1>5, <1>6, <1>7, <1>8, <1>9 DEF TypeOK

\* An answer moves on, or ends and changes its cell.
Moves(q) == \E phase \in {"asked", "none", "one", "download", "arrived"} :
  /\ Move(q, phase) /\ UNCHANGED <<screen, cells, outside, preps>>
  /\ phase = "none" => ~online \/ q.title \notin published
Ends(q, n) == Drop(q) /\ Write(q, n) /\ UNCHANGED <<screen, outside, preps>>

LEMMA ProgressMovesOrEnds ==
  ASSUME NEW q, Progress(q)
  PROVE  Moves(q) \/ \E n : Ends(q, n)
  BY DEF Progress, Answer, Fail, MarkMissing, StartDownload, Downloaded, ShowLogo, NoData, ShowPicture,
         Moves, Ends, Lose

LEMMA MovedQuestion ==
  ASSUME NEW q \in Question, NEW phase \in {"asked", "none", "one", "download", "arrived"}
  PROVE  LET p == [q EXCEPT !.phase = phase]
         IN  p \in Question /\ p.cell = q.cell /\ p.prep = q.prep /\ p.title = q.title /\ p.phase = phase
  BY DEF Question

LEMMA MovesTypes ==
  ASSUME TypeOK, NEW q \in questions, Moves(q)
  PROVE  TypeOK'
<1>1. PICK phase \in {"asked", "none", "one", "download", "arrived"} :
        Move(q, phase) /\ UNCHANGED <<screen, cells, outside, preps>>
  BY DEF Moves
<1>2. q \in Question
  BY DEF TypeOK
<1>3. [q EXCEPT !.phase = phase] \in Question
  BY <1>2, MovedQuestion
<1>4. questions' \subseteq Question
  BY <1>1, <1>3 DEF Move, TypeOK
<1> QED
  BY <1>1, <1>4 DEF TypeOK, screen, outside

LEMMA EndsTypes ==
  ASSUME TypeOK, NEW q \in questions, NEW n \in Cell, Ends(q, n)
  PROVE  TypeOK'
<1>1. q.cell \in Cells
  BY DEF TypeOK, Question
<1>2. cells' \in [Cells -> Cell]
  BY <1>1 DEF Ends, Write, TypeOK
<1>3. questions' \subseteq Question
  BY DEF Ends, Drop, TypeOK
<1> QED
  BY <1>2, <1>3 DEF Ends, TypeOK, screen, outside

\* What a question may write into its cell when it ends.
Written(q, c, n) ==
  \/ /\ n.title = c.title /\ n.price = c.price /\ n.picture = c.picture
     /\ c.lost \/ c.prep = q.prep => n.lost
  \/ q.phase = "none" /\ n.title = Indisponivel /\ n.price = 0 /\ n.picture = c.picture /\ n.lost = c.lost
  \/ n.title = c.title /\ n.price = c.price /\ n.picture = Logo /\ n.lost
  \/ n.title = c.title /\ n.price = c.price /\ n.picture = q.title /\ n.lost = c.lost

LEMMA ProgressEnds ==
  ASSUME TypeOK, NEW q \in questions, Progress(q)
  PROVE  \/ Moves(q)
         \/ \E n \in Cell : Ends(q, n) /\ SameHistory(cells[q.cell], n) /\ Written(q, cells[q.cell], n)
<1> DEFINE c == cells[q.cell]
<1>1. c \in Cell /\ q.title \in Titles \cup {Logo, NoPicture} /\ Logo \in Titles \cup {Logo, NoPicture}
      /\ Indisponivel \in Titles \cup {Indisponivel} /\ 0 \in Nat
  BY DEF TypeOK, Question, Titles
<1> HIDE DEF c
<1>2. ASSUME NEW b \in BOOLEAN, b = (c.lost \/ c.prep = q.prep), Ends(q, [c EXCEPT !.lost = b])
      PROVE  \E n \in Cell : Ends(q, n) /\ SameHistory(c, n) /\ Written(q, c, n)
  <2> DEFINE n == [c EXCEPT !.lost = b]
  <2>1. n \in Cell /\ SameHistory(c, n) /\ n.title = c.title /\ n.price = c.price /\ n.picture = c.picture /\ n.lost = b
    BY <1>1, LostCell
  <2> HIDE DEF n
  <2>2. Written(q, c, n)
    BY <1>2, <2>1 DEF Written
  <2> QED
    BY <1>2, <2>1, <2>2 DEF n
<1>3. (c.lost \/ c.prep = q.prep) \in BOOLEAN
  OBVIOUS
<1>4. CASE Fail(q) \/ NoData(q)
  <2>1. Ends(q, [c EXCEPT !.lost = (c.lost \/ c.prep = q.prep)])
    BY <1>4 DEF Fail, NoData, Lose, Ends, c
  <2>2. PICK b \in BOOLEAN : b = (c.lost \/ c.prep = q.prep)
    BY <1>3
  <2>3. Ends(q, [c EXCEPT !.lost = b])
    BY <2>1, <2>2, Zenon
  <2>4. \E n \in Cell : Ends(q, n) /\ SameHistory(c, n) /\ Written(q, c, n)
    BY <1>2, <2>2, <2>3
  <2> QED
    BY <2>4 DEF c
<1>5. CASE MarkMissing(q)
  <2>1. PICK p \in Nat : p = 0
    OBVIOUS
  <2>2. PICK t \in Titles \cup {Indisponivel} : t = Indisponivel
    OBVIOUS
  <2> DEFINE n == [c EXCEPT !.title = t, !.price = p]
  <2>3. n \in Cell /\ SameHistory(c, n) /\ n.title = t /\ n.price = p /\ n.picture = c.picture /\ n.lost = c.lost
    BY <1>1, <2>1, <2>2 DEF Cell, SameHistory
  <2>4. Ends(q, n) /\ q.phase = "none"
    BY <1>5, <2>1, <2>2 DEF MarkMissing, Ends, c
  <2> HIDE DEF n
  <2>5. Written(q, c, n)
    BY <2>1, <2>2, <2>3, <2>4 DEF Written
  <2> QED
    BY <2>3, <2>4, <2>5 DEF c
<1>6. CASE ShowLogo(q)
  <2>1. PICK b \in BOOLEAN : b = TRUE
    OBVIOUS
  <2>5. PICK t \in Titles \cup {Logo, NoPicture} : t = Logo
    OBVIOUS
  <2> DEFINE n == [c EXCEPT !.picture = t, !.lost = b]
  <2>2. n \in Cell /\ SameHistory(c, n) /\ n.title = c.title /\ n.price = c.price /\ n.picture = t /\ n.lost = b
    BY <1>1, <2>1, <2>5 DEF Cell, SameHistory
  <2>3. Ends(q, n)
    BY <1>6, <2>1, <2>5, Zenon DEF ShowLogo, Ends, c
  <2> HIDE DEF n
  <2>4. Written(q, c, n)
    BY <2>1, <2>2, <2>5 DEF Written
  <2> QED
    BY <2>2, <2>3, <2>4 DEF c
<1>7. CASE ShowPicture(q)
  <2> DEFINE n == [c EXCEPT !.picture = q.title]
  <2>1. n \in Cell /\ SameHistory(c, n) /\ n.title = c.title /\ n.price = c.price /\ n.picture = q.title /\ n.lost = c.lost
    BY <1>1, PicturedCell
  <2>2. Ends(q, n)
    BY <1>7 DEF ShowPicture, Ends, c
  <2> HIDE DEF n
  <2>3. Written(q, c, n)
    BY <2>1 DEF Written
  <2> QED
    BY <2>1, <2>2, <2>3 DEF c
<1>8. CASE Answer(q) \/ StartDownload(q) \/ Downloaded(q)
  BY <1>8 DEF Answer, StartDownload, Downloaded, Moves
<1> QED
  BY <1>4, <1>5, <1>6, <1>7, <1>8 DEF Progress, c

\* The restaurant and the network change nothing of a cell but its excuse.
Excused(S) ==
  /\ cells' \in [Cells -> Cell]
  /\ \A k \in Cells :
       LET c == cells[k]  n == cells'[k]
       IN  /\ n.of = c.of /\ n.prep = c.prep /\ n.shared = c.shared /\ (n.excused <=> c.excused \/ c.of \in S)
           /\ n.title = c.title /\ n.price = c.price /\ n.picture = c.picture /\ n.lost = c.lost

LEMMA ExcuseExcuses ==
  ASSUME TypeOK, NEW S, Excuse(S)
  PROVE  Excused(S)
<1>1. ASSUME NEW k \in Cells
      PROVE  LET c == cells[k]  n == cells'[k]
             IN  /\ n \in Cell
                 /\ n.of = c.of /\ n.prep = c.prep /\ n.shared = c.shared /\ (n.excused <=> c.excused \/ c.of \in S)
                 /\ n.title = c.title /\ n.price = c.price /\ n.picture = c.picture /\ n.lost = c.lost
  <2>1. cells[k] \in Cell
    BY DEF TypeOK
  <2>2. PICK b \in BOOLEAN : b = (cells[k].excused \/ cells[k].of \in S)
    BY <2>1, CellParts
  <2>3. cells'[k] = [cells[k] EXCEPT !.excused = (cells[k].excused \/ cells[k].of \in S)]
    BY DEF Excuse
  <2>4. cells'[k] = [cells[k] EXCEPT !.excused = b]
    BY <2>2, <2>3, Zenon
  <2> DEFINE c == cells[k]
             n == cells'[k]
  <2>5. c \in Cell /\ n = [c EXCEPT !.excused = b]
    BY <2>1, <2>4
  <2> HIDE DEF c, n
  <2>6. /\ n \in Cell /\ n.of = c.of /\ n.prep = c.prep /\ n.shared = c.shared /\ n.excused = b
        /\ n.title = c.title /\ n.price = c.price /\ n.picture = c.picture /\ n.lost = c.lost
    BY <2>5, ExcusedCell
  <2> QED
    BY <2>2, <2>6 DEF c, n
<1>2. cells' = [k \in Cells |-> cells'[k]]
  BY DEF Excuse
<1> QED
  BY <1>1, <1>2 DEF Excused

LEMMA InitTypeOK == Init => TypeOK
<1> SUFFICES ASSUME Init PROVE TypeOK
  OBVIOUS
<1> DEFINE t == CHOOSE x \in Titles : TRUE
<1>1. PICK n \in 0 .. MaxItems : items \in [1 .. n -> Item]
  BY DEF Init
<1>2. items \in Seq(Item) /\ Len(items) <= MaxItems
  BY <1>1, CellsAssumption
<1>3. label \in Nat
  BY <1>2, TotalIsNat DEF Init
<1>4. t \in Titles
  BY CellsAssumption
<1>5. PICK b \in BOOLEAN : b = FALSE
  OBVIOUS
<1>6. cells = [c \in Cells |-> [of |-> t, title |-> t, price |-> 0, picture |-> Logo, prep |-> 0,
                               shared |-> b, excused |-> b, lost |-> b]]
  BY <1>5, Zenon DEF Init
<1>7. 0 \in 0 .. MaxPreps
  BY CellsAssumption
<1> HIDE DEF t
<1>8. [of |-> t, title |-> t, price |-> 0, picture |-> Logo, prep |-> 0,
       shared |-> b, excused |-> b, lost |-> b] \in Cell
  BY <1>4, <1>7 DEF Cell
<1>9. cells \in [Cells -> Cell]
  BY <1>6, <1>8
<1>10. DOMAIN table = {} /\ first \in Nat \ {0} /\ laidOut \in BOOLEAN /\ online \in BOOLEAN
  <2>1. table = <<>> /\ DOMAIN <<>> = {} /\ first = 1
    BY DEF Init
  <2>2. laidOut \in BOOLEAN /\ online \in BOOLEAN
    BY DEF Init
  <2> QED
    BY <2>1, <2>2
<1>11. questions \subseteq Question /\ published \subseteq Promotions /\ preps \in 0 .. MaxPreps
  BY <1>7 DEF Init
<1> QED
  BY <1>2, <1>3, <1>9, <1>10, <1>11 DEF TypeOK

LEMMA StepTypeOK == TypeOK /\ WindowIsLaidOut /\ [Next]_vars => TypeOK'
<1> SUFFICES ASSUME TypeOK, WindowIsLaidOut, [Next]_vars PROVE TypeOK'
  OBVIOUS
<1>1. CASE Layout
  BY <1>1, LayoutRelays, RelaidTypes
<1>2. ASSUME NEW r \in 1 .. Len(items), AddUnit(r) \/ SubUnit(r) \/ Close(r) PROVE TypeOK'
  BY <1>2, TapsUpdate, UpdateDataTypes
<1>3. ASSUME NEW r \in 1 .. Len(items), Scroll(r) PROVE TypeOK'
  BY <1>3, ScrollRelays, RelaidTypes
<1>4. ASSUME NEW q \in questions, Progress(q) PROVE TypeOK'
  BY <1>4, ProgressEnds, MovesTypes, EndsTypes
<1>5. ASSUME NEW S, Excused(S), published' \subseteq published, online' \in BOOLEAN,
             UNCHANGED <<screen, questions, preps>>
      PROVE  TypeOK'
  BY <1>5 DEF Excused, TypeOK, screen
<1>6. ASSUME NEW t \in Promotions, Withdraw(t) PROVE TypeOK'
  BY <1>5, <1>6, ExcuseExcuses DEF Withdraw, TypeOK
<1>7. CASE GoOffline
  <2>1. online' \in BOOLEAN
    BY <1>7 DEF GoOffline
  <2> QED
    BY <1>5, <1>7, <2>1, ExcuseExcuses DEF GoOffline
<1>8. CASE GoOnline
  BY <1>8 DEF GoOnline, TypeOK, screen
<1>9. CASE UNCHANGED vars
  BY <1>9 DEF TypeOK, vars, screen, outside
<1> QED
  BY <1>1, <1>2, <1>3, <1>4, <1>6, <1>7, <1>8, <1>9 DEF Next

-----------------------------------------------------------------------------
(* The invariant *)

\* The conjuncts of the invariants, for one row and for one question.
ShowsIts(c, i) ==
  /\ \/ c.title = i.title /\ c.price = Amount(i)
     \/ c.title = Indisponivel /\ c.price = 0
  /\ c.shared \/ c.title # Indisponivel \/ (i.title \in Promotions /\ c.excused)
  /\ c.shared \/ c.picture \in {i.title, Logo, NoPicture}

Agrees(q, c) ==
  c.shared \/ /\ q.title = c.of
              /\ c.excused \/ (online /\ q.title \in published /\ q.phase # "none")

Awaits(k, c, i) ==
  i.title \in Promotions /\ ~c.shared /\ ~c.lost
  => \/ c.title = Indisponivel \/ c.picture = i.title
     \/ \E q \in questions : q.cell = k /\ q.prep = c.prep

RowsAreRight ==
  \A r \in DOMAIN table :
    /\ cells[table[r]].of = items[r].title
    /\ ShowsIts(cells[table[r]], items[r])
    /\ Awaits(table[r], cells[table[r]], items[r])

WindowIsThere ==
  IF laidOut THEN DOMAIN table = Visible(first) ELSE DOMAIN table = {} /\ preps < MaxPreps

IndInv ==
  /\ TypeOK /\ WindowIsThere /\ RowsAreRight
  /\ \A q \in questions : Agrees(q, cells[q.cell])

LEMMA IndInvIs ==
  IndInv <=> /\ TypeOK /\ WindowIsLaidOut /\ QuestionsAgree
             /\ OwnQuestionIsOut /\ RowIsItsOwn
<1>1. \A r \in DOMAIN table : shown[r] = cells[table[r]]
  BY DEF shown
<1>2. \A r \in DOMAIN table :
        <<shown[r].title, shown[r].price>> \in {<<items[r].title, Amount(items[r])>>, <<Indisponivel, 0>>}
        <=> \/ shown[r].title = items[r].title /\ shown[r].price = Amount(items[r])
            \/ shown[r].title = Indisponivel /\ shown[r].price = 0
  OBVIOUS
<1>3. RowIsItsOwn <=> \A r \in DOMAIN table : ShowsIts(cells[table[r]], items[r])
  <2>1. RowIsItsOwn <=> \A r \in DOMAIN table : ShowsIts(shown[r], items[r])
    BY <1>2 DEF RowIsItsOwn, ShowsIts
  <2> QED
    BY <1>1, <2>1
<1>4. QuestionsAgree <=> \A q \in questions : Agrees(q, cells[q.cell])
  BY DEF QuestionsAgree, Agrees
<1>5. OwnQuestionIsOut <=> \A r \in DOMAIN table : Awaits(table[r], cells[table[r]], items[r])
  <2>1. OwnQuestionIsOut <=> \A r \in DOMAIN table : Awaits(table[r], shown[r], items[r])
    BY DEF OwnQuestionIsOut, Awaits
  <2> QED
    BY <1>1, <2>1
<1>6. WindowIsLaidOut <=> WindowIsThere /\ \A r \in DOMAIN table : cells[table[r]].of = items[r].title
  BY <1>1, Zenon DEF WindowIsLaidOut, WindowIsThere
<1> QED
  BY <1>3, <1>4, <1>5, <1>6, Zenon DEF IndInv, RowsAreRight

LEMMA CellOfRow ==
  ASSUME TypeOK, NEW r \in DOMAIN table
  PROVE  table[r] \in Cells /\ cells[table[r]] \in Cell /\ items[r] \in Item
<1>1. items \in Seq(Item) /\ r \in DOMAIN items
  BY DEF TypeOK
<1>2. items[r] \in Item
  BY <1>1, ItemAt
<1> QED
  BY <1>2 DEF TypeOK

\* A tap: the table has no rows until the layout.
LEMMA UpdateKeeps ==
  ASSUME IndInv, Tap, NEW is \in Seq(Item), Len(is) <= MaxItems, UpdateData(is)
  PROVE  IndInv'
<1>1. TypeOK' /\ DOMAIN table' = {} /\ ~laidOut' /\ preps' < MaxPreps
  BY UpdateDataTypes DEF IndInv
<1>2. UNCHANGED <<cells, questions, online, published>>
  BY DEF UpdateData, outside
<1>3. (\A q \in questions : Agrees(q, cells[q.cell]))'
  BY <1>2 DEF IndInv, Agrees
<1> QED
  BY <1>1, <1>3 DEF IndInv, WindowIsThere, RowsAreRight

\* A layout or a scroll: a row has its cell as it was, or one prepared for it.
LEMMA RelaidKeeps ==
  ASSUME IndInv, NEW f, Relaid(f)
  PROVE  IndInv'
<1>1. /\ TypeOK /\ Prepare(f) /\ Takes(f) /\ preps < MaxPreps /\ laidOut' /\ DOMAIN table' = Visible(first')
      /\ items' = items /\ published' = published /\ online' = online
  BY DEF Relaid, IndInv, outside
<1>2. TypeOK'
  BY <1>1, RelaidTypes
<1>3. cells' = Prepared(f) /\ questions' = questions \cup Asked(f)
  BY <1>1 DEF Prepare
<1>4. /\ \A r \in DOMAIN f : f[r] \in Cells /\ IsFresh(cells'[f[r]], f[r], items[r])
      /\ \A k \in Cells : (\A r \in DOMAIN f : f[r] # k) => cells'[k] = cells[k]
  BY <1>1, <1>3, PreparedCells
<1>5. /\ \A q \in Asked(f) : \E r \in DOMAIN f : q.cell = f[r] /\ q.title = items[r].title /\ q.phase = "asked"
      /\ \A r \in DOMAIN f : items[r].title \in Promotions =>
           \E q \in Asked(f) : q.cell = f[r] /\ q.prep = preps + 1
  BY <1>1, AskedQuestions
<1>6. WindowIsThere'
  BY <1>1 DEF WindowIsThere, Visible
<1>7. ASSUME NEW r \in DOMAIN table'
      PROVE  /\ cells'[table'[r]].of = items[r].title
             /\ ShowsIts(cells'[table'[r]], items[r])
             /\ Awaits(table[r], cells[table[r]], items[r])'
  <2>1. CASE r \in DOMAIN f /\ table'[r] = f[r]
    <3> DEFINE n == cells'[f[r]]
    <3>1. IsFresh(n, f[r], items[r])
      BY <1>4, <2>1
    <3>2. items[r].title # Indisponivel
      <4>1. r \in DOMAIN items /\ items \in Seq(Item)
        BY <1>1, <2>1 DEF Takes, TypeOK
      <4>2. items[r].title \in Titles
        BY <4>1, ItemAt, AmountIsNat
      <4> QED
        BY <4>2, CellsAssumption
    <3> HIDE DEF n
    <3>3. n.of = items[r].title /\ ShowsIts(n, items[r]) /\ n.prep = preps + 1
      BY <3>1, <3>2 DEF IsFresh, ShowsIts
    <3>4. items[r].title \in Promotions => \E q \in questions' : q.cell = f[r] /\ q.prep = n.prep
      BY <1>3, <1>5, <2>1, <3>3
    <3>5. Awaits(table[r], cells[table[r]], items[r])'
      BY <1>1, <2>1, <3>4, Zenon DEF Awaits, n
    <3> QED
      BY <2>1, <3>3, <3>5 DEF n
  <2>2. CASE r \in DOMAIN table /\ table'[r] = table[r] /\ \A s \in DOMAIN f : f[s] # table[r]
    <3>1. cells'[table'[r]] = cells[table[r]]
      BY <1>1, <1>4, <2>2, CellOfRow
    <3>2. /\ cells[table[r]].of = items[r].title
          /\ ShowsIts(cells[table[r]], items[r])
          /\ Awaits(table[r], cells[table[r]], items[r])
      BY <2>2 DEF IndInv, RowsAreRight
    <3>3. Awaits(table[r], cells[table[r]], items[r])'
      BY <1>1, <1>3, <2>2, <3>1, <3>2 DEF Awaits
    <3> QED
      BY <3>1, <3>2, <3>3
  <2> QED
    BY <2>1, <2>2 DEF Relaid
<1>8. RowsAreRight'
  BY <1>1, <1>7 DEF RowsAreRight, ShowsIts, Amount
<1>9. ASSUME NEW q \in questions' PROVE Agrees(q, cells[q.cell])'
  <2>1. q \in questions' /\ q.cell \in Cells
    BY <1>2 DEF TypeOK, Question
  <2>2. CASE \A r \in DOMAIN f : f[r] # q.cell
    <3>1. q \in questions /\ cells'[q.cell] = cells[q.cell]
      BY <1>3, <1>4, <1>5, <2>1, <2>2
    <3> QED
      BY <1>1, <3>1 DEF IndInv, Agrees
  <2>3. ASSUME NEW r \in DOMAIN f, f[r] = q.cell PROVE Agrees(q, cells[q.cell])'
    <3>1. \E s \in DOMAIN f : f[s] = q.cell /\
            (q \in questions \/ (q.title = items[s].title /\ q.phase = "asked"))
      BY <1>3, <1>5, <2>1, <2>3
    <3>2. PICK s \in DOMAIN f : f[s] = q.cell /\
            (q \in questions \/ (q.title = items[s].title /\ q.phase = "asked"))
      BY <3>1
    <3> DEFINE n == cells'[q.cell]
    <3>3. IsFresh(n, q.cell, items[s])
      BY <1>4, <3>2
    <3> HIDE DEF n
    <3>4. n.shared \/ /\ q.title = n.of
                      /\ n.excused \/ (online /\ q.title \in published /\ q.phase # "none")
      BY <3>2, <3>3 DEF IsFresh
    <3> QED
      BY <1>1, <3>4, Zenon DEF Agrees, n
  <2> QED
    BY <2>2, <2>3
<1> QED
  BY <1>2, <1>6, <1>8, <1>9 DEF IndInv

\* Part of an answer: its question goes on, for the same cell and product.
LEMMA MovesKeeps ==
  ASSUME IndInv, NEW q \in questions, Moves(q)
  PROVE  IndInv'
<1>1. PICK phase \in {"asked", "none", "one", "download", "arrived"} :
        /\ Move(q, phase) /\ UNCHANGED <<screen, cells, outside, preps>>
        /\ phase = "none" => ~online \/ q.title \notin published
  BY DEF Moves
<1> DEFINE p == [q EXCEPT !.phase = phase]
<1>2. /\ UNCHANGED <<items, label, first, table, laidOut, cells, published, online, preps>>
      /\ questions' = (questions \ {q}) \cup {p}
  BY <1>1 DEF screen, outside, Move
<1>3. TypeOK'
  BY MovesTypes DEF IndInv
<1>4. p.cell = q.cell /\ p.prep = q.prep /\ p.title = q.title /\ p.phase = phase
  <2>1. q \in Question
    BY DEF IndInv, TypeOK
  <2> QED
    BY <2>1, MovedQuestion
<1> HIDE DEF p
<1>5. WindowIsThere'
  BY <1>2 DEF IndInv, WindowIsThere, Visible
<1>6. ASSUME NEW r \in DOMAIN table, Awaits(table[r], cells[table[r]], items[r])
      PROVE  Awaits(table[r], cells[table[r]], items[r])'
  BY <1>2, <1>4, <1>6 DEF Awaits
<1>7. RowsAreRight'
  BY <1>2, <1>6 DEF IndInv, RowsAreRight, ShowsIts, Amount
<1>8. Agrees(q, cells[q.cell])
  BY DEF IndInv
<1>9. Agrees(p, cells[p.cell])
  BY <1>1, <1>4, <1>8 DEF Agrees
<1>10. (\A x \in questions : Agrees(x, cells[x.cell]))'
  BY <1>2, <1>9 DEF IndInv, Agrees
<1> QED
  BY <1>3, <1>5, <1>7, <1>10 DEF IndInv

\* The end of an answer: what it writes is about the row its cell shows,
\* unless the cell was shared.
LEMMA EndsKeeps ==
  ASSUME IndInv, NEW q \in questions, NEW n \in Cell, Ends(q, n),
         SameHistory(cells[q.cell], n), Written(q, cells[q.cell], n)
  PROVE  IndInv'
<1> DEFINE c == cells[q.cell]
<1>1. /\ UNCHANGED <<items, label, first, table, laidOut, published, online, preps>>
      /\ questions' = questions \ {q} /\ cells' = [cells EXCEPT ![q.cell] = n]
  BY DEF Ends, Drop, Write, screen, outside
<1>2. TypeOK /\ TypeOK' /\ q \in Question /\ q.cell \in Cells /\ q.title \in Promotions
  BY EndsTypes DEF IndInv, TypeOK, Question
<1>3. cells'[q.cell] = n /\ \A k \in Cells \ {q.cell} : cells'[k] = cells[k]
  BY <1>1, <1>2 DEF TypeOK
<1>4. SameHistory(c, n) /\ Written(q, c, n) /\ Agrees(q, c)
  BY DEF IndInv
<1> HIDE DEF c
<1>5. WindowIsThere'
  BY <1>1 DEF IndInv, WindowIsThere, Visible
<1>6. ASSUME NEW r \in DOMAIN table
      PROVE  /\ cells'[table[r]].of = items[r].title
             /\ ShowsIts(cells'[table[r]], items[r])
             /\ Awaits(table[r], cells[table[r]], items[r])'
  <2>1. /\ cells[table[r]].of = items[r].title
        /\ ShowsIts(cells[table[r]], items[r])
        /\ Awaits(table[r], cells[table[r]], items[r])
        /\ table[r] \in Cells
    BY <1>2, CellOfRow DEF IndInv, RowsAreRight
  <2>2. CASE table[r] # q.cell
    <3>1. cells'[table[r]] = cells[table[r]]
      BY <1>3, <2>1, <2>2
    <3>2. Awaits(table[r], cells[table[r]], items[r])'
      BY <1>1, <2>1, <2>2, <3>1 DEF Awaits
    <3> QED
      BY <2>1, <3>1, <3>2
  <2>3. CASE table[r] = q.cell
    <3> DEFINE i == items[r]
    <3>1. c.of = i.title /\ ShowsIts(c, i) /\ Awaits(q.cell, c, i)
      BY <2>1, <2>3 DEF c
    <3> HIDE DEF i
    <3>2. n.shared \/ (q.title = i.title /\ i.title \in Promotions)
      BY <1>2, <1>4, <3>1 DEF Agrees, SameHistory
    <3>3. n.shared \/ q.phase # "none" \/ n.excused
      BY <1>4 DEF Agrees, SameHistory
    <3>4. ShowsIts(n, i)
      BY <1>4, <3>1, <3>2, <3>3 DEF ShowsIts, Written, SameHistory
    <3>5. n.of = i.title
      BY <1>4, <3>1 DEF SameHistory
    <3>6. ASSUME i.title \in Promotions, ~n.shared, ~n.lost, n.title # Indisponivel, n.picture # i.title
          PROVE  \E x \in questions \ {q} : x.cell = q.cell /\ x.prep = n.prep
      <4>1. n.title = c.title /\ n.picture = c.picture /\ ~c.lost /\ c.prep # q.prep
        BY <1>4, <3>2, <3>6 DEF Written
      <4>2. \E x \in questions : x.cell = q.cell /\ x.prep = c.prep
        BY <1>4, <3>1, <3>6, <4>1 DEF Awaits, SameHistory
      <4> QED
        BY <1>4, <4>1, <4>2 DEF SameHistory
    <3>7. Awaits(table[r], cells[table[r]], items[r])'
      BY <1>1, <1>3, <2>3, <3>6 DEF Awaits, i
    <3> QED
      BY <1>3, <2>3, <3>4, <3>5, <3>7 DEF i
  <2> QED
    BY <2>2, <2>3
<1>7. RowsAreRight'
  BY <1>1, <1>6 DEF RowsAreRight, ShowsIts, Amount
<1>8. ASSUME NEW x \in questions' PROVE Agrees(x, cells[x.cell])'
  <2>1. x \in questions /\ x.cell \in Cells /\ Agrees(x, cells[x.cell])
    BY <1>1, <1>2 DEF IndInv, TypeOK, Question
  <2>2. Agrees(x, cells'[x.cell])
    BY <1>3, <1>4, <2>1 DEF Agrees, SameHistory, c
  <2> QED
    BY <1>1, <2>2 DEF Agrees
<1> QED
  BY <1>2, <1>5, <1>7, <1>8 DEF IndInv

\* A promotion withdrawn or the network gone: only excuses are added.
LEMMA ExcusedKeeps ==
  ASSUME IndInv, TypeOK', NEW S, Excused(S), UNCHANGED <<screen, questions, preps>>,
         \A q \in Question : \/ q.title \in S
                             \/ ~(online /\ q.title \in published)
                             \/ online' /\ q.title \in published'
  PROVE  IndInv'
<1>1. UNCHANGED <<items, label, first, table, laidOut, questions, preps>>
  BY DEF screen
<1>2. \A k \in Cells :
        /\ cells'[k].of = cells[k].of /\ cells'[k].prep = cells[k].prep /\ cells'[k].shared = cells[k].shared
        /\ cells'[k].excused <=> cells[k].excused \/ cells[k].of \in S
        /\ cells'[k].title = cells[k].title /\ cells'[k].price = cells[k].price
        /\ cells'[k].picture = cells[k].picture /\ cells'[k].lost = cells[k].lost
  BY DEF Excused
<1>3. WindowIsThere'
  BY <1>1 DEF IndInv, WindowIsThere, Visible
<1>4. ASSUME NEW r \in DOMAIN table
      PROVE  /\ cells'[table[r]].of = items[r].title
             /\ ShowsIts(cells'[table[r]], items[r])
             /\ Awaits(table[r], cells[table[r]], items[r])'
  <2>1. /\ cells[table[r]].of = items[r].title
        /\ ShowsIts(cells[table[r]], items[r])
        /\ Awaits(table[r], cells[table[r]], items[r])
        /\ table[r] \in Cells
    BY CellOfRow DEF IndInv, RowsAreRight
  <2>2. ShowsIts(cells'[table[r]], items[r])
    BY <1>2, <2>1 DEF ShowsIts
  <2>3. Awaits(table[r], cells[table[r]], items[r])'
    BY <1>1, <1>2, <2>1 DEF Awaits
  <2> QED
    BY <1>2, <2>1, <2>2, <2>3
<1>5. RowsAreRight'
  BY <1>1, <1>4 DEF RowsAreRight, ShowsIts, Amount
<1>6. ASSUME NEW q \in questions PROVE Agrees(q, cells[q.cell])'
  <2>1. q \in Question /\ q.cell \in Cells /\ Agrees(q, cells[q.cell])
    BY DEF IndInv, TypeOK, Question
  <2> QED
    BY <1>2, <2>1 DEF Agrees
<1> QED
  BY <1>1, <1>3, <1>5, <1>6 DEF IndInv

LEMMA StartIsRight == Init => IndInv
<1> SUFFICES ASSUME Init PROVE IndInv
  OBVIOUS
<1>1. TypeOK
  BY InitTypeOK
<1>2. DOMAIN table = {} /\ ~laidOut /\ preps < MaxPreps /\ questions = {}
  <2>1. table = <<>> /\ DOMAIN <<>> = {} /\ preps = 0
    BY DEF Init
  <2> QED
    BY <2>1, CellsAssumption DEF Init
<1> QED
  BY <1>1, <1>2 DEF IndInv, WindowIsThere, RowsAreRight

LEMMA StepIsRight == IndInv /\ [Next]_vars => IndInv'
<1> SUFFICES ASSUME IndInv, [Next]_vars PROVE IndInv'
  OBVIOUS
<1>1. TypeOK /\ WindowIsLaidOut /\ TypeOK'
  BY IndInvIs, StepTypeOK
<1>2. CASE Layout
  BY <1>1, <1>2, LayoutRelays, RelaidKeeps
<1>3. ASSUME NEW r \in 1 .. Len(items), AddUnit(r) \/ SubUnit(r) \/ Close(r) PROVE IndInv'
  BY <1>1, <1>3, TapsUpdate, UpdateKeeps
<1>4. ASSUME NEW r \in 1 .. Len(items), Scroll(r) PROVE IndInv'
  BY <1>1, <1>4, ScrollRelays, RelaidKeeps
<1>5. ASSUME NEW q \in questions, Progress(q) PROVE IndInv'
  BY <1>1, <1>5, ProgressEnds, MovesKeeps, EndsKeeps
<1>6. ASSUME NEW t \in Promotions, Withdraw(t) PROVE IndInv'
  <2>1. Excused({t}) /\ UNCHANGED <<screen, questions, preps>> /\ online' = online /\ published' = published \ {t}
    BY <1>1, <1>6, ExcuseExcuses DEF Withdraw
  <2>2. \A q \in Question : \/ q.title \in {t}
                            \/ ~(online /\ q.title \in published)
                            \/ online' /\ q.title \in published'
    BY <2>1
  <2> QED
    BY <1>1, <2>1, <2>2, ExcusedKeeps
<1>7. CASE GoOffline
  <2>1. Excused(Titles) /\ UNCHANGED <<screen, questions, preps>>
    BY <1>1, <1>7, ExcuseExcuses DEF GoOffline
  <2>2. \A q \in Question : \/ q.title \in Titles
                            \/ ~(online /\ q.title \in published)
                            \/ online' /\ q.title \in published'
    BY DEF Question, Titles
  <2> QED
    BY <1>1, <2>1, <2>2, ExcusedKeeps
<1>8. CASE GoOnline
  <2>1. UNCHANGED <<items, label, first, table, laidOut, cells, questions, published, preps>> /\ online' /\ ~online
    BY <1>8 DEF GoOnline, screen
  <2>2. (\A q \in questions : Agrees(q, cells[q.cell]))'
    BY <2>1 DEF IndInv, Agrees
  <2>3. RowsAreRight' /\ WindowIsThere'
    BY <2>1 DEF IndInv, RowsAreRight, ShowsIts, Awaits, Amount, WindowIsThere, Visible
  <2> QED
    BY <1>1, <2>2, <2>3 DEF IndInv
<1>9. CASE UNCHANGED vars
  <2>1. UNCHANGED <<items, label, first, table, laidOut, cells, questions, published, online, preps>>
    BY <1>9 DEF vars, screen, outside
  <2>2. (\A q \in questions : Agrees(q, cells[q.cell]))'
    BY <2>1 DEF IndInv, Agrees
  <2>3. RowsAreRight' /\ WindowIsThere'
    BY <2>1 DEF IndInv, RowsAreRight, ShowsIts, Awaits, Amount, WindowIsThere, Visible
  <2> QED
    BY <1>1, <2>2, <2>3 DEF IndInv
<1> QED
  BY <1>2, <1>3, <1>4, <1>5, <1>6, <1>7, <1>8, <1>9 DEF Next

LEMMA AlwaysRight == Spec => []IndInv
<1> QED
  BY StartIsRight, StepIsRight, PTL DEF Spec

(* Every variable keeps its type, for every cart and every number of cells.*)
THEOREM TypeCorrect == Spec => []TypeOK
<1>1. IndInv => TypeOK
  BY DEF IndInv
<1> QED
  BY <1>1, AlwaysRight, PTL

(* A visible row shows its own product and price, or Indisponível and R$   *)
(* 0,00 together and with a reason; only a cell that was taken while an    *)
(* answer for another preparation was under way may show another product's *)
(* answer.                                                                 *)
THEOREM RowsAreTheirOwn == Spec => []RowIsItsOwn
<1>1. IndInv => RowIsItsOwn
  BY IndInvIs
<1> QED
  BY <1>1, AlwaysRight, PTL

(* No answer about a promotion is forgotten: a row for whose cell nothing  *)
(* is under way is marked or has its picture, unless its question failed,  *)
(* a logo covered it or the cell was shared.                               *)
THEOREM RowsSettle == Spec => []SettledRows
<1>1. OwnQuestionIsOut => SettledRows
  BY DEF OwnQuestionIsOut, SettledRows
<1>2. IndInv => SettledRows
  BY <1>1, IndInvIs
<1> QED
  BY <1>2, AlwaysRight, PTL

=============================================================================
