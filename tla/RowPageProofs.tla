----------------------------- MODULE RowPageProofs -----------------------------
(***************************************************************************)
(* What compaction does to a page, for every sequence of rows: it keeps    *)
(* the rows, and the space it finds free is what slots and live tuples     *)
(* leave.  The sums are recursive functions over the rows, so the facts    *)
(* about them are proved by induction, from the least number at which they *)
(* would fail.                                                             *)
(***************************************************************************)
EXTENDS RowPage, TLAPS, WellFoundedInduction

\* A set of numbers that is not empty has a least one.
LEMMA LeastNumber ==
    ASSUME NEW T \in SUBSET Nat, T # {}
    PROVE  \E x \in T : \A y \in T : x <= y
<1> DEFINE less == {ss \in Nat \X Nat : ss[1] < ss[2]}
<1>1. IsWellFoundedOn(less, Nat)
  BY NatLessThanWellFounded, Zenon DEF OpToRel
<1>2. \A x, y \in Nat : <<y, x>> \in less <=> y < x
  OBVIOUS
<1> HIDE DEF less
<1>3. PICK x \in T : \A y \in T : ~ (<<y, x>> \in less)
  BY <1>1, WFMin, Zenon
<1>4. ASSUME NEW y \in T PROVE x <= y
  <2>1. x \in Nat /\ y \in Nat /\ ~ (<<y, x>> \in less)
    BY <1>3
  <2> QED BY <1>2, <2>1
<1> QED BY <1>4

\* Induction, for a set.
LEMMA Induction ==
    ASSUME NEW S, 0 \in S, \A n \in Nat : n \in S => n + 1 \in S
    PROVE  Nat \subseteq S
<1> SUFFICES ASSUME Nat \ S # {} PROVE FALSE
  OBVIOUS
<1>1. PICK x \in Nat \ S : \A y \in Nat \ S : x <= y
  BY LeastNumber
<1>2. x - 1 \in Nat /\ x - 1 \notin S
  BY <1>1
<1> QED BY <1>1, <1>2

-------------------------------------------------------------------------------
(* The bytes in use, counted row by row as CompactOnePage does.               *)

Row == Tuples \cup {Deleted}

IsSum(f, rows, n) ==
    f = [i \in 0 .. n |-> IF i = 0 THEN 0 ELSE f[i - 1] + SlotSize + LiveSize(rows[i])]

LEMMA LiveSizeType == \A row \in Row : LiveSize(row) \in Nat
  BY RowAssumption DEF Row, LiveSize

\* The sums exist.
LEMMA SumExists ==
    ASSUME NEW rows \in Seq(Row), NEW n \in 0 .. Len(rows)
    PROVE  \E f \in [0 .. n -> Nat] : IsSum(f, rows, n)
<1> DEFINE S == {k \in Nat : k <= Len(rows) => \E f \in [0 .. k -> Nat] : IsSum(f, rows, k)}
<1>1. 0 \in S
  <2> DEFINE f == [i \in 0 .. 0 |-> 0]
  <2>1. f \in [0 .. 0 -> Nat] /\ IsSum(f, rows, 0)
    BY DEF IsSum
  <2> QED BY <2>1
<1>2. ASSUME NEW k \in Nat, k \in S PROVE k + 1 \in S
  <2> SUFFICES ASSUME k + 1 <= Len(rows)
               PROVE  \E f \in [0 .. k + 1 -> Nat] : IsSum(f, rows, k + 1)
    OBVIOUS
  <2>1. PICK g \in [0 .. k -> Nat] : IsSum(g, rows, k)
    BY <1>2
  <2> DEFINE f == [i \in 0 .. k + 1 |-> IF i = k + 1
                      THEN g[k] + SlotSize + LiveSize(rows[k + 1]) ELSE g[i]]
  <2>2. rows[k + 1] \in Row
    OBVIOUS
  <2>3. LiveSize(rows[k + 1]) \in Nat /\ SlotSize \in Nat
    BY <2>2, LiveSizeType, RowAssumption
  <2>4. f \in [0 .. k + 1 -> Nat]
    BY <2>3
  <2>5. \A i \in 0 .. k : g[i] = IF i = 0 THEN 0 ELSE g[i - 1] + SlotSize + LiveSize(rows[i])
    BY <2>1 DEF IsSum
  <2>6. ASSUME NEW i \in 0 .. k + 1
        PROVE  f[i] = IF i = 0 THEN 0 ELSE f[i - 1] + SlotSize + LiveSize(rows[i])
    BY <2>5
  <2>7. IsSum(f, rows, k + 1)
    BY <2>4, <2>6 DEF IsSum
  <2> QED BY <2>4, <2>7
<1> HIDE DEF S
<1>3. n \in S
  BY <1>1, <1>2, Induction
<1> QED BY <1>3 DEF S

\* Every slot counts for at least one byte.
LEMMA SumBound ==
    ASSUME NEW rows \in Seq(Row), NEW n \in 0 .. Len(rows), NEW f, IsSum(f, rows, n)
    PROVE  \A i \in 0 .. n : f[i] \in Nat /\ i <= f[i]
<1> DEFINE S == {k \in Nat : k <= n => f[k] \in Nat /\ k <= f[k]}
<1>1. \A i \in 0 .. n : f[i] = IF i = 0 THEN 0 ELSE f[i - 1] + SlotSize + LiveSize(rows[i])
  BY DEF IsSum
<1>2. 0 \in S
  BY <1>1
<1>3. ASSUME NEW k \in Nat, k \in S PROVE k + 1 \in S
  <2> SUFFICES ASSUME k + 1 <= n PROVE f[k + 1] \in Nat /\ k + 1 <= f[k + 1]
    OBVIOUS
  <2>1. rows[k + 1] \in Row
    OBVIOUS
  <2>2. LiveSize(rows[k + 1]) \in Nat /\ SlotSize \in Nat \ {0}
    BY <2>1, LiveSizeType, RowAssumption
  <2>3. f[k + 1] = f[k] + SlotSize + LiveSize(rows[k + 1])
    BY <1>1
  <2> QED BY <1>3, <2>2, <2>3
<1> HIDE DEF S
<1>4. Nat \subseteq S
  BY <1>2, <1>3, Induction
<1> QED BY <1>4 DEF S

\* Rows that are no larger, one by one, take no more bytes.
LEMMA SumMonotone ==
    ASSUME NEW a \in Seq(Row), NEW m \in 0 .. Len(a), NEW f, IsSum(f, a, m),
           NEW b \in Seq(Row), NEW n \in 0 .. Len(b), NEW g, IsSum(g, b, n),
           NEW l \in 0 .. m, l <= n,
           \A i \in 1 .. l : LiveSize(a[i]) <= LiveSize(b[i])
    PROVE  f[l] <= g[l]
<1> DEFINE S == {k \in Nat : k <= l => f[k] <= g[k]}
<1>1. \A i \in 0 .. m : f[i] = IF i = 0 THEN 0 ELSE f[i - 1] + SlotSize + LiveSize(a[i])
  BY DEF IsSum
<1>2. \A i \in 0 .. n : g[i] = IF i = 0 THEN 0 ELSE g[i - 1] + SlotSize + LiveSize(b[i])
  BY DEF IsSum
<1>3. 0 \in S
  BY <1>1, <1>2
<1>4. ASSUME NEW k \in Nat, k \in S PROVE k + 1 \in S
  <2> SUFFICES ASSUME k + 1 <= l PROVE f[k + 1] <= g[k + 1]
    OBVIOUS
  <2>1. a[k + 1] \in Row /\ b[k + 1] \in Row
    OBVIOUS
  <2>2. LiveSize(a[k + 1]) \in Nat /\ LiveSize(b[k + 1]) \in Nat /\ SlotSize \in Nat
    BY <2>1, LiveSizeType, RowAssumption
  <2>3. /\ f[k + 1] = f[k] + SlotSize + LiveSize(a[k + 1])
        /\ g[k + 1] = g[k] + SlotSize + LiveSize(b[k + 1])
    BY <1>1, <1>2
  <2>4. f[k] \in Nat /\ g[k] \in Nat
    BY SumBound
  <2> QED BY <1>4, <2>2, <2>3, <2>4
<1> HIDE DEF S
<1>5. Nat \subseteq S
  BY <1>3, <1>4, Induction
<1>6. l \in Nat
  OBVIOUS
<1> QED BY <1>5, <1>6 DEF S

\* Used is the last of the sums.
LEMMA UsedIsSum ==
    ASSUME NEW rows \in Seq(Row)
    PROVE  \E f : IsSum(f, rows, Len(rows)) /\ Used(rows) = f[Len(rows)]
<1> DEFINE n == Len(rows)
           F(f) == [i \in 0 .. n |-> IF i = 0 THEN 0
                                     ELSE f[i - 1] + SlotSize + LiveSize(rows[i])]
           used == CHOOSE f : f = F(f)
<1>1. n \in Nat
  OBVIOUS
<1>2. PICK f \in [0 .. n -> Nat] : f = F(f)
  BY SumExists DEF IsSum
<1>3. used = F(used)
  BY <1>2, Zenon
<1>4. Used(rows) = used[n]
  BY DEF Used
<1>5. IsSum(used, rows, n)
  BY <1>3 DEF IsSum
<1> QED BY <1>4, <1>5

LEMMA UsedType ==
    ASSUME NEW rows \in Seq(Row)
    PROVE  Used(rows) \in Nat /\ Len(rows) <= Used(rows)
<1>1. PICK f : IsSum(f, rows, Len(rows)) /\ Used(rows) = f[Len(rows)]
  BY UsedIsSum
<1>2. Len(rows) \in 0 .. Len(rows)
  OBVIOUS
<1> QED BY <1>1, <1>2, SumBound

LEMMA UsedEmpty == Used(<<>>) = 0
<1>1. <<>> \in Seq(Row) /\ Len(<<>>) = 0
  OBVIOUS
<1>2. PICK f : IsSum(f, <<>>, 0) /\ Used(<<>>) = f[0]
  BY <1>1, UsedIsSum
<1> QED BY <1>2 DEF IsSum

LEMMA UsedMonotone ==
    ASSUME NEW a \in Seq(Row), NEW b \in Seq(Row), Len(a) = Len(b),
           \A i \in 1 .. Len(a) : LiveSize(a[i]) <= LiveSize(b[i])
    PROVE  Used(a) <= Used(b)
<1>1. PICK f : IsSum(f, a, Len(a)) /\ Used(a) = f[Len(a)]
  BY UsedIsSum
<1>2. PICK g : IsSum(g, b, Len(b)) /\ Used(b) = g[Len(b)]
  BY UsedIsSum
<1>3. Len(a) \in 0 .. Len(a) /\ Len(b) \in 0 .. Len(b)
  OBVIOUS
<1> QED BY <1>1, <1>2, <1>3, SumMonotone

LEMMA UsedAppend ==
    ASSUME NEW rows \in Seq(Row), NEW d \in Row
    PROVE  Used(Append(rows, d)) = Used(rows) + SlotSize + LiveSize(d)
<1> DEFINE more == Append(rows, d)
           n == Len(rows)
<1>1. /\ more \in Seq(Row) /\ n \in Nat /\ Len(more) = n + 1
      /\ \A i \in 1 .. n : more[i] = rows[i]
      /\ more[n + 1] = d
  OBVIOUS
<1>2. PICK f : IsSum(f, rows, n) /\ Used(rows) = f[n]
  BY UsedIsSum
<1>3. PICK g : IsSum(g, more, n + 1) /\ Used(more) = g[n + 1]
  BY <1>1, UsedIsSum
<1> HIDE DEF more
<1>4. g[n + 1] = g[n] + SlotSize + LiveSize(d)
  BY <1>1, <1>3 DEF IsSum
<1>5. n \in 0 .. Len(rows) /\ n + 1 \in 0 .. Len(more) /\ n \in 0 .. n /\ n \in 0 .. n + 1
  BY <1>1
<1>6. \A i \in 1 .. n : rows[i] \in Row
  OBVIOUS
<1>7. \A i \in 1 .. n : /\ LiveSize(more[i]) <= LiveSize(rows[i])
                        /\ LiveSize(rows[i]) <= LiveSize(more[i])
  BY <1>1, <1>6, LiveSizeType
<1>8. f[n] <= g[n]
  BY <1>1, <1>2, <1>3, <1>5, <1>7, SumMonotone
<1>9. g[n] <= f[n]
  BY <1>1, <1>2, <1>3, <1>5, <1>7, SumMonotone
<1>10. f[n] \in Nat /\ g[n] \in Nat
  BY <1>1, <1>2, <1>3, <1>5, SumBound
<1> QED BY <1>2, <1>3, <1>4, <1>8, <1>9, <1>10 DEF more

-------------------------------------------------------------------------------
(* Pages.  The header never promises space that slots or live tuples take.    *)

PageOK(page) ==
    /\ page \in [rows : Seq(Row), free : Nat]
    /\ page.free + Used(page.rows) <= Capacity

LEMMA PageBounds ==
    ASSUME NEW page, PageOK(page)
    PROVE  /\ Len(page.rows) \in 0 .. Capacity
           /\ page.free \in 0 .. Capacity
           /\ Len(page.rows) + page.free <= Capacity
<1>1. page.rows \in Seq(Row) /\ page.free \in Nat /\ Capacity \in Nat
  BY RowAssumption DEF PageOK
<1>2. Used(page.rows) \in Nat /\ Len(page.rows) <= Used(page.rows)
  BY <1>1, UsedType
<1>3. Len(page.rows) \in Nat
  BY <1>1
<1> QED BY <1>1, <1>2, <1>3 DEF PageOK

LEMMA EmptyPageOK == PageOK(EmptyPage)
  BY UsedEmpty, RowAssumption DEF PageOK, EmptyPage

\* InsertTuple, where HasEnoughSpace holds.
LEMMA InsertRowOK ==
    ASSUME NEW page, PageOK(page), NEW d \in Tuples, Fits(page, d)
    PROVE  /\ PageOK(InsertRow(page, d))
           /\ InsertRow(page, d).rows = Append(page.rows, d)
           /\ Len(page.rows) < Capacity
<1>1. page.rows \in Seq(Row) /\ page.free \in Nat
  BY DEF PageOK
<1>2. /\ d \in Row /\ LiveSize(d) = Size[d]
      /\ Size[d] \in Nat \ {0} /\ SlotSize \in Nat \ {0} /\ Capacity \in Nat
  BY RowAssumption DEF Row, LiveSize
<1>3. Used(Append(page.rows, d)) = Used(page.rows) + SlotSize + Size[d]
  BY <1>1, <1>2, UsedAppend
<1>4. Used(page.rows) \in Nat /\ Append(page.rows, d) \in Seq(Row)
  BY <1>1, <1>2, UsedType
<1>5. /\ InsertRow(page, d).rows = Append(page.rows, d)
      /\ InsertRow(page, d).free = page.free - Size[d] - SlotSize
      /\ page.free - Size[d] - SlotSize \in Nat
  BY <1>1, <1>2 DEF InsertRow, Fits
<1>6. PageOK(InsertRow(page, d))
  BY <1>1, <1>2, <1>3, <1>4, <1>5 DEF PageOK, InsertRow
<1>7. Len(page.rows) < Capacity
  BY <1>1, <1>2, PageBounds DEF Fits
<1> QED BY <1>5, <1>6, <1>7

\* DeleteTuple, and an Update that does not grow the tuple.
LEMMA SetRowOK ==
    ASSUME NEW page, PageOK(page), NEW s \in 1 .. Len(page.rows), NEW row \in Row,
           LiveSize(row) <= LiveSize(page.rows[s])
    PROVE  /\ PageOK(SetRow(page, s, row))
           /\ SetRow(page, s, row).rows = [page.rows EXCEPT ![s] = row]
<1> DEFINE rows == [page.rows EXCEPT ![s] = row]
<1>1. page.rows \in Seq(Row) /\ page.free \in Nat /\ Capacity \in Nat
  BY RowAssumption DEF PageOK
<1>2. SetRow(page, s, row) = [page EXCEPT !.rows = rows]
  BY DEF SetRow
<1>3. /\ rows \in Seq(Row) /\ Len(rows) = Len(page.rows)
      /\ \A i \in 1 .. Len(page.rows) : rows[i] = IF i = s THEN row ELSE page.rows[i]
      /\ \A i \in 1 .. Len(page.rows) : page.rows[i] \in Row
  BY <1>1
<1>4. \A i \in 1 .. Len(rows) : LiveSize(rows[i]) <= LiveSize(page.rows[i])
  BY <1>3, LiveSizeType
<1>5. Used(rows) <= Used(page.rows)
  BY <1>1, <1>3, <1>4, UsedMonotone
<1>6. Used(rows) \in Nat /\ Used(page.rows) \in Nat
  BY <1>1, <1>3, UsedType
<1> HIDE DEF rows
<1>7. /\ SetRow(page, s, row).rows = rows
      /\ SetRow(page, s, row).free = page.free
      /\ SetRow(page, s, row) \in [rows : Seq(Row), free : Nat]
  BY <1>1, <1>2, <1>3 DEF PageOK
<1>8. PageOK(SetRow(page, s, row))
  BY <1>1, <1>5, <1>6, <1>7 DEF PageOK
<1> QED BY <1>7, <1>8 DEF rows

\* CompactOnePage.
LEMMA CompactOK ==
    ASSUME NEW page, PageOK(page)
    PROVE  /\ PageOK(Compact(page))
           /\ Compact(page).rows = page.rows
           /\ page.free <= Compact(page).free
<1>1. page.rows \in Seq(Row) /\ page.free \in Nat /\ Capacity \in Nat
  BY RowAssumption DEF PageOK
<1>2. Used(page.rows) \in Nat
  BY <1>1, UsedType
<1>3. /\ Compact(page).rows = page.rows
      /\ Compact(page).free = Capacity - Used(page.rows)
  BY DEF Compact, PageOK
<1> QED BY <1>1, <1>2, <1>3 DEF PageOK, Compact
===============================================================================
