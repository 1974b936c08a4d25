---------------------------- MODULE TableScanProofs ----------------------------
(***************************************************************************)
(* Proofs about TableScan, for every page size, every set of tuples and    *)
(* every number of pages: a scan goes forward and stops at every row that  *)
(* is there throughout, whatever is inserted, deleted and compacted        *)
(* between its steps.                                                      *)
(***************************************************************************)
EXTENDS TableScan, RowPageProofs

-------------------------------------------------------------------------------
(* The inductive invariant.                                                   *)

InPageIds(p) == \E m \in 1 .. Len(page_ids) : page_ids[m] = p

\* The table: pages are listed once, and exactly when they have rows.
TableOK ==
    /\ next_page_id \in 0 .. MaxPages
    /\ page_ids \in Seq(0 .. next_page_id - 1)
    /\ \A m, n \in 1 .. Len(page_ids) : page_ids[m] = page_ids[n] => m = n
    /\ DOMAIN page = PageId
    /\ \A p \in PageId : /\ PageOK(page[p])
                         /\ page[p].rows # <<>> <=> InPageIds(p)
                         /\ p >= next_page_id => page[p] = EmptyPage

\* The iterator is at a row of the table, or past the last one of its page
\* while operator++ looks for the next.
IteratorOK ==
    /\ advancing \in BOOLEAN
    /\ it \in [rid : [page_id : PageId \cup {INVALID_PAGE_ID}, slot_id : Nat], page_idx : Nat]
    /\ advancing => Scanning
    /\ Scanning => /\ it.page_idx < Len(page_ids)
                   /\ page_ids[it.page_idx + 1] = it.rid.page_id
                   /\ it.rid.slot_id <= SlotCount(it.rid.page_id)
                   /\ ~advancing => it.rid.slot_id < SlotCount(it.rid.page_id)

\* Record r lies before the iterator; at or behind it.
Passed(r) ==
    \E m \in 1 .. Len(page_ids) :
        /\ page_ids[m] = r.page_id
        /\ m <= it.page_idx \/ (m = it.page_idx + 1 /\ r.slot_id < it.rid.slot_id)

Ahead(r) ==
    \E m \in 1 .. Len(page_ids) :
        /\ page_ids[m] = r.page_id
        /\ m > it.page_idx + 1 \/ (m = it.page_idx + 1 /\ r.slot_id >= it.rid.slot_id)

WasVisited(r) == \E i \in 1 .. Len(visited) : visited[i] = r

\* The scan has stopped at rows it has passed, in order, and at the one it is at.
VisitedOK ==
    /\ visited \in Seq(RecordId)
    /\ VisitedInOrder
    /\ Scanning => /\ \A i \in 1 .. Len(visited) :
                         Passed(visited[i]) \/ (~advancing /\ visited[i] = it.rid)
                   /\ ~advancing => WasVisited(it.rid)

\* A row that has been there since Begin has been stopped at, or lies ahead.
DueOK ==
    /\ due \subseteq RecordId
    /\ \A r \in due : /\ Live(r)
                      /\ WasVisited(r) \/ (Scanning /\ Ahead(r))

IInv == TableOK /\ IteratorOK /\ VisitedOK /\ DueOK

-------------------------------------------------------------------------------
(* What RecordManager::Insert may do to the table under an iterator: the page *)
(* list grows at its end, and the rows of a page at theirs.                   *)

LEMMA LeastIsMember ==
    ASSUME NEW S \in SUBSET Nat, S # {}
    PROVE  Min(S) \in S
<1>1. \E x \in S : \A y \in S : x =< y
  BY LeastNumber
<1> QED BY <1>1 DEF Min

Grows ==
    /\ Len(page_ids) <= Len(page_ids')
    /\ \A m \in 1 .. Len(page_ids) : page_ids'[m] = page_ids[m]
    /\ \A p \in PageId :
          /\ Len(page[p].rows) <= Len(page'[p].rows)
          /\ \A s \in 1 .. Len(page[p].rows) : page'[p].rows[s] = page[p].rows[s]

\* `pages` are the table's pages, some of them compacted.
SameRows(pages) ==
    /\ DOMAIN pages = PageId
    /\ \A p \in PageId : /\ PageOK(pages[p])
                         /\ pages[p].rows = page[p].rows
                         /\ ~InPageIds(p) => pages[p] = page[p]

LEMMA CompactedSameRows ==
    ASSUME TableOK, NEW n \in 0 .. Len(page_ids)
    PROVE  SameRows(Compacted(n))
<1>1. Len(page_ids) \in Nat
  BY DEF TableOK
<1>2. \A p \in PageId : (\E i \in 1 .. n : page_ids[i] = p) => InPageIds(p)
  BY <1>1 DEF InPageIds
<1> QED BY <1>2, CompactOK DEF TableOK, SameRows, Compacted

\* A row is added to a page on the list.
LEMMA InsertIntoListed ==
    ASSUME TableOK, NEW d \in Tuples, NEW m \in 1 .. Len(page_ids), NEW pages,
           SameRows(pages), Fits(pages[page_ids[m]], d),
           page' = [pages EXCEPT ![page_ids[m]] = InsertRow(@, d)],
           UNCHANGED <<next_page_id, page_ids>>
    PROVE  TableOK' /\ Grows
<1> DEFINE q == page_ids[m]
<1>1. q \in PageId
  BY ScanAssumption DEF TableOK, PageId
<1>2. /\ PageOK(InsertRow(pages[q], d))
      /\ InsertRow(pages[q], d).rows = Append(page[q].rows, d)
  BY <1>1, InsertRowOK DEF SameRows
<1>3. page[q].rows \in Seq(Row) /\ d \in Row
  BY <1>1 DEF TableOK, PageOK, Row
<1>4. /\ Append(page[q].rows, d) # <<>>
      /\ Len(Append(page[q].rows, d)) = Len(page[q].rows) + 1
      /\ \A s \in 1 .. Len(page[q].rows) : Append(page[q].rows, d)[s] = page[q].rows[s]
  BY <1>3
<1>5. /\ DOMAIN page' = PageId
      /\ page'[q] = InsertRow(pages[q], d)
      /\ \A p \in PageId \ {q} : page'[p] = pages[p]
  BY <1>1 DEF SameRows
<1>6. \A p \in PageId : InPageIds(p)' <=> InPageIds(p)
  BY DEF InPageIds
<1>7. InPageIds(q)
  BY DEF InPageIds
<1> HIDE DEF q
<1>8. ASSUME NEW p \in PageId
      PROVE  /\ PageOK(page'[p])
             /\ page'[p].rows # <<>> <=> InPageIds(p)'
             /\ p >= next_page_id' => page'[p] = EmptyPage
  <2>1. PageOK(page'[p]) /\ (page'[p].rows # <<>> <=> InPageIds(p)')
    BY <1>2, <1>4, <1>5, <1>6, <1>7 DEF TableOK, SameRows
  <2>2. InPageIds(p) => p < next_page_id
    BY DEF TableOK, InPageIds
  <2>3. p >= next_page_id => p # q /\ page'[p] = page[p]
    BY <1>1, <1>5, <1>7, <2>2 DEF TableOK, SameRows, PageId
  <2> QED BY <2>1, <2>3 DEF TableOK
<1>9. TableOK'
  BY <1>5, <1>8 DEF TableOK
<1>10. \A p \in PageId : page[p].rows \in Seq(Row)
  BY DEF TableOK, PageOK
<1>11. ASSUME NEW p \in PageId
       PROVE  /\ Len(page[p].rows) <= Len(page'[p].rows)
              /\ \A s \in 1 .. Len(page[p].rows) : page'[p].rows[s] = page[p].rows[s]
  <2>1. Len(page[p].rows) \in Nat
    BY <1>10
  <2>2. CASE p = q
    <3>1. page'[p].rows = Append(page[q].rows, d)
      BY <1>2, <1>5, <2>2
    <3> QED BY <1>4, <2>1, <2>2, <3>1
  <2>3. CASE p # q
    <3>1. page'[p].rows = page[p].rows
      BY <1>5, <2>3 DEF SameRows
    <3> QED BY <2>1, <3>1
  <2> QED BY <2>2, <2>3
<1>12. Len(page_ids) \in Nat
  BY DEF TableOK
<1> QED BY <1>9, <1>11, <1>12 DEF Grows

\* A page is allocated, and listed with its first row or not at all.
LEMMA InsertNewPageLemma ==
    ASSUME TableOK, NEW d \in Tuples, NEW pages, SameRows(pages),
           next_page_id < MaxPages, next_page_id' = next_page_id + 1,
           IF Fits(EmptyPage, d)
           THEN /\ page' = [pages EXCEPT ![next_page_id] = InsertRow(@, d)]
                /\ page_ids' = Append(page_ids, next_page_id)
           ELSE page' = pages /\ UNCHANGED page_ids
    PROVE  TableOK' /\ Grows
<1> DEFINE q == next_page_id
           n == Len(page_ids)
<1>1. /\ q \in PageId /\ q \in Nat /\ n \in Nat
      /\ page_ids \in Seq(0 .. q - 1)
      /\ \A m \in 1 .. n : page_ids[m] \in 0 .. q - 1
  BY ScanAssumption DEF TableOK, PageId
<1>2. \A p \in PageId : page[p].rows \in Seq(Row)
  BY DEF TableOK, PageOK
<1>3. ~InPageIds(q)
  BY <1>1 DEF InPageIds
<1>4. /\ page[q].rows = <<>> /\ pages[q] = EmptyPage
      /\ \A p \in PageId : p > q => p # q /\ pages[p] = EmptyPage
  <2>1. \A p \in PageId : p >= q => ~InPageIds(p)
    BY <1>1 DEF InPageIds, PageId
  <2> QED BY <1>1, <1>3, <2>1 DEF TableOK, SameRows, PageId
<1>5. CASE ~Fits(EmptyPage, d)
  <2>1. page' = pages /\ page_ids' = page_ids
    BY <1>5
  <2>2. \A p \in PageId : PageOK(page'[p]) /\ page'[p].rows = page[p].rows
    BY <2>1 DEF SameRows
  <2>3. \A p \in PageId : InPageIds(p)' <=> InPageIds(p)
    BY <2>1 DEF InPageIds
  <2>4. page_ids' \in Seq(0 .. next_page_id' - 1)
    BY <1>1, <2>1
  <2>5. next_page_id' \in 0 .. MaxPages
    BY <1>1, ScanAssumption DEF TableOK
  <2>6. \A p \in PageId : p >= next_page_id' => page'[p] = EmptyPage
    BY <1>1, <1>4, <2>1 DEF PageId
  <2>7. TableOK'
    BY <2>1, <2>2, <2>3, <2>4, <2>5, <2>6 DEF TableOK, SameRows
  <2> QED BY <1>1, <1>2, <2>1, <2>2, <2>7 DEF Grows
<1>6. CASE Fits(EmptyPage, d)
  <2>1. /\ page' = [pages EXCEPT ![q] = InsertRow(@, d)]
        /\ page_ids' = Append(page_ids, q)
        /\ Fits(pages[q], d)
    BY <1>4, <1>6
  <2>2. /\ PageOK(InsertRow(pages[q], d))
        /\ InsertRow(pages[q], d).rows = Append(page[q].rows, d)
    <3>1. PageOK(pages[q]) /\ pages[q].rows = page[q].rows
      BY <1>1 DEF SameRows
    <3> HIDE DEF q
    <3> QED BY <2>1, <3>1, InsertRowOK
  <2>3. /\ DOMAIN page' = PageId
        /\ page'[q] = InsertRow(pages[q], d)
        /\ \A p \in PageId \ {q} : page'[p] = pages[p]
    BY <1>1, <2>1 DEF SameRows
  <2>4. Append(page[q].rows, d) # <<>> /\ Len(page[q].rows) = 0
    BY <1>4
  <2>5. /\ page_ids' \in Seq(0 .. next_page_id' - 1)
        /\ Len(page_ids') = n + 1
        /\ page_ids'[n + 1] = q
        /\ \A m \in 1 .. n : page_ids'[m] = page_ids[m]
    BY <1>1, <2>1
  <2>6. ASSUME NEW p \in PageId PROVE InPageIds(p)' <=> InPageIds(p) \/ p = q
    <3>1. InPageIds(p)' <=> \E m \in 1 .. n + 1 : page_ids'[m] = p
      BY <2>5 DEF InPageIds
    <3>2. n + 1 \in 1 .. n + 1 /\ \A m \in 1 .. n + 1 : m \in 1 .. n \/ m = n + 1
      BY <1>1
    <3>3. \A m \in 1 .. n : m \in 1 .. n + 1
      BY <1>1
    <3>4. InPageIds(p) <=> \E m \in 1 .. n : page_ids[m] = p
      BY DEF InPageIds
    <3> HIDE DEF n, q
    <3> QED BY <2>5, <3>1, <3>2, <3>3, <3>4
  <2>7. \A k, m \in 1 .. Len(page_ids') : page_ids'[k] = page_ids'[m] => k = m
    <3> SUFFICES ASSUME NEW k \in 1 .. n + 1, NEW m \in 1 .. n + 1, page_ids'[k] = page_ids'[m]
                 PROVE  k = m
      BY <2>5
    <3>1. CASE k = n + 1 /\ m = n + 1
      BY <3>1
    <3>2. CASE k = n + 1 /\ m \in 1 .. n
      BY <1>1, <2>5, <3>2
    <3>3. CASE k \in 1 .. n /\ m = n + 1
      BY <1>1, <2>5, <3>3
    <3>4. CASE k \in 1 .. n /\ m \in 1 .. n
      BY <2>5, <3>4 DEF TableOK
    <3> QED BY <1>1, <3>1, <3>2, <3>3, <3>4
  <2>8. ASSUME NEW p \in PageId
        PROVE  /\ PageOK(page'[p])
               /\ page'[p].rows # <<>> <=> InPageIds(p)'
               /\ p >= next_page_id' => page'[p] = EmptyPage
    <3>1. PageOK(page'[p]) /\ (page'[p].rows # <<>> <=> InPageIds(p)')
      BY <2>2, <2>3, <2>4, <2>6 DEF TableOK, SameRows
    <3>2. p >= next_page_id' => p > q
      BY <1>1 DEF PageId
    <3> QED BY <1>4, <2>3, <3>1, <3>2
  <2>9. next_page_id' \in 0 .. MaxPages
    BY <1>1, ScanAssumption DEF TableOK
  <2>10. TableOK'
    BY <2>3, <2>5, <2>7, <2>8, <2>9 DEF TableOK
  <2>11. ASSUME NEW p \in PageId
         PROVE  /\ Len(page[p].rows) <= Len(page'[p].rows)
                /\ \A s \in 1 .. Len(page[p].rows) : page'[p].rows[s] = page[p].rows[s]
    <3>1. CASE p = q
      <4>1. page'[p].rows = Append(page[q].rows, d) /\ Len(page[p].rows) = 0
        BY <2>2, <2>3, <2>4, <3>1
      <4>2. Len(Append(page[q].rows, d)) \in Nat
        BY <1>1, <1>2, <1>4
      <4> QED BY <4>1, <4>2
    <3>2. CASE p # q
      BY <1>2, <2>3, <3>2 DEF SameRows
    <3> QED BY <3>1, <3>2
  <2>12. Len(page_ids) <= Len(page_ids')
    BY <1>1, <2>5
  <2> QED BY <2>5, <2>10, <2>11, <2>12 DEF Grows
<1> QED BY <1>5, <1>6

LEMMA InsertLemma ==
    ASSUME TableOK, NEW d \in Tuples, Insert(d)
    PROVE  TableOK' /\ Grows
<1> DEFINE fits == {i \in 1 .. Len(page_ids) : Fits(page[page_ids[i]], d)}
           room == {i \in 1 .. Len(page_ids) : Fits(Compact(page[page_ids[i]]), d)}
           n == Len(page_ids)
           Into(pages, p) == page' = [pages EXCEPT ![p] = InsertRow(@, d)]
<1>1. n \in Nat /\ fits \in SUBSET Nat /\ room \in SUBSET Nat
  BY DEF TableOK
<1>2. SameRows(page)
  BY DEF TableOK, SameRows
<1>3. CASE /\ fits # {}
           /\ Into(page, page_ids[Min(fits)])
           /\ UNCHANGED <<next_page_id, page_ids>>
  <2>1. Min(fits) \in fits
    BY <1>1, <1>3, LeastIsMember
  <2> QED BY <1>2, <1>3, <2>1, InsertIntoListed
<1>4. CASE /\ fits = {} /\ room # {}
           /\ Into(Compacted(Min(room)), page_ids[Min(room)])
           /\ UNCHANGED <<next_page_id, page_ids>>
  <2>1. Min(room) \in room
    BY <1>1, <1>4, LeastIsMember
  <2> DEFINE m == Min(room)
  <2>2. m \in 1 .. n /\ m \in 0 .. n /\ Fits(Compact(page[page_ids[m]]), d)
    BY <1>1, <2>1
  <2>3. page_ids[m] \in PageId
    BY <2>2, ScanAssumption DEF TableOK, PageId
  <2>4. Compacted(m)[page_ids[m]] = Compact(page[page_ids[m]])
    <3>1. m \in 1 .. m
      BY <2>2
    <3> HIDE DEF m
    <3> QED BY <2>3, <3>1 DEF Compacted
  <2>5. SameRows(Compacted(m))
    BY <2>2, CompactedSameRows
  <2> HIDE DEF m
  <2> QED BY <1>4, <2>2, <2>4, <2>5, InsertIntoListed DEF m
<1>5. CASE /\ next_page_id < MaxPages
           /\ next_page_id' = next_page_id + 1
           /\ IF Fits(EmptyPage, d)
              THEN /\ Into(Compacted(n), next_page_id)
                   /\ page_ids' = Append(page_ids, next_page_id)
              ELSE /\ page' = Compacted(n)
                   /\ UNCHANGED page_ids
  <2>1. SameRows(Compacted(n))
    BY <1>1, CompactedSameRows
  <2> QED BY <1>5, <2>1, InsertNewPageLemma
<1> QED BY <1>3, <1>4, <1>5, Zenon DEF Insert

-------------------------------------------------------------------------------
(* Changes to the table between two steps of the scan.                        *)

LEMMA TableFacts ==
    ASSUME TableOK
    PROVE  /\ Len(page_ids) \in Nat
           /\ \A m \in 1 .. Len(page_ids) : page_ids[m] \in PageId
           /\ \A p \in PageId : /\ page[p].rows \in Seq(Row)
                                /\ SlotCount(p) \in 0 .. Capacity
                                /\ p # INVALID_PAGE_ID
<1>1. /\ Len(page_ids) \in Nat
      /\ \A m \in 1 .. Len(page_ids) : page_ids[m] \in PageId
  BY ScanAssumption DEF TableOK, PageId
<1>2. \A p \in PageId : p # INVALID_PAGE_ID
  BY ScanAssumption DEF PageId, INVALID_PAGE_ID
<1>3. \A p \in PageId : page[p].rows \in Seq(Row) /\ Len(page[p].rows) \in 0 .. Capacity
  <2> TAKE p \in PageId
  <2>1. PageOK(page[p])
    BY DEF TableOK
  <2> QED BY <2>1, PageBounds DEF PageOK
<1> QED BY <1>1, <1>2, <1>3 DEF SlotCount

LEMMA InsertTupleLemma ==
    ASSUME IInv, NEW d \in Tuples, InsertTuple(d)
    PROVE  IInv'
<1>1. TableOK' /\ Grows
  BY InsertLemma DEF IInv, InsertTuple
<1>2. UNCHANGED <<it, advancing, visited, due>> /\ (Scanning' <=> Scanning)
  BY DEF InsertTuple, Scanning, End
<1>3. /\ Len(page_ids) \in Nat /\ Len(page_ids') \in Nat
      /\ \A m \in 1 .. Len(page_ids) : m \in 1 .. Len(page_ids') /\ page_ids'[m] = page_ids[m]
  BY <1>1 DEF TableOK, Grows, IInv
<1>4. \A p \in PageId : /\ SlotCount(p) \in Nat /\ SlotCount(p)' \in Nat
                        /\ SlotCount(p) <= SlotCount(p)'
  BY <1>1, TableFacts DEF TableOK, Grows, IInv, SlotCount, PageOK
<1>5. IteratorOK'
  <2>1. Scanning => it.rid.page_id \in PageId
    BY TableFacts DEF IInv, IteratorOK
  <2>2. /\ advancing' \in BOOLEAN
        /\ it' \in [rid : [page_id : PageId \cup {INVALID_PAGE_ID}, slot_id : Nat],
                    page_idx : Nat]
        /\ advancing' => Scanning'
    BY <1>2 DEF IInv, IteratorOK
  <2>3. ASSUME Scanning
        PROVE  /\ it.page_idx < Len(page_ids')
               /\ page_ids'[it.page_idx + 1] = it.rid.page_id
               /\ it.rid.slot_id <= SlotCount(it.rid.page_id)'
               /\ ~advancing => it.rid.slot_id < SlotCount(it.rid.page_id)'
    <3>1. it.page_idx \in Nat /\ it.page_idx + 1 \in 1 .. Len(page_ids) /\ it.rid.slot_id \in Nat
      BY <1>3, <2>3 DEF IInv, IteratorOK
    <3>2. it' = it
      BY <1>2
    <3>3. /\ SlotCount(it.rid.page_id) \in Nat /\ SlotCount(it.rid.page_id)' \in Nat
          /\ SlotCount(it.rid.page_id) <= SlotCount(it.rid.page_id)'
      BY <1>4, <2>1, <2>3, <3>2 DEF SlotCount
    <3> QED BY <1>3, <2>3, <3>1, <3>3 DEF IInv, IteratorOK
  <2> QED BY <1>2, <2>2, <2>3 DEF IteratorOK
<1>6. VisitedOK'
  <2>1. \A r : Passed(r) => Passed(r)'
    BY <1>2, <1>3 DEF Passed
  <2>2. \A r, s : Before(r, s) => Before(r, s)'
    BY <1>3 DEF Before
  <2>3. VisitedInOrder'
    BY <1>2, <2>2 DEF IInv, VisitedOK, VisitedInOrder
  <2> QED BY <1>2, <2>1, <2>3 DEF IInv, VisitedOK, WasVisited
<1>7. DueOK'
  <2>1. \A r : Ahead(r) => Ahead(r)'
    BY <1>2, <1>3 DEF Ahead
  <2>2. ASSUME NEW r \in RecordId, Live(r) PROVE Live(r)'
    <3>1. r.page_id \in PageId /\ r.slot_id \in Nat
      BY DEF RecordId
    <3>2. /\ r.slot_id < SlotCount(r.page_id)
          /\ page[r.page_id].rows[r.slot_id + 1] # Deleted
      BY <2>2 DEF Live
    <3>3. r.slot_id + 1 \in 1 .. Len(page[r.page_id].rows)
      BY <1>4, <3>1, <3>2 DEF SlotCount
    <3>4. page'[r.page_id].rows[r.slot_id + 1] # Deleted
      BY <1>1, <3>1, <3>2, <3>3 DEF Grows
    <3>5. r.slot_id < SlotCount(r.page_id)'
      BY <1>4, <3>1, <3>2
    <3> QED BY <3>4, <3>5 DEF Live, SlotCount
  <2> QED BY <1>2, <2>1, <2>2 DEF IInv, DueOK, WasVisited
<1> QED BY <1>1, <1>5, <1>6, <1>7 DEF IInv

LEMMA DeleteTupleLemma ==
    ASSUME IInv, NEW rid \in RecordId, DeleteTuple(rid)
    PROVE  IInv'
<1> DEFINE q == rid.page_id
           s == rid.slot_id + 1
<1>1. /\ q \in PageId /\ s \in Nat /\ s \in 1 .. Len(page[q].rows)
      /\ page[q].rows \in Seq(Row)
  BY TableFacts DEF IInv, DeleteTuple, RecordId, SlotCount
<1>2. /\ page' = [page EXCEPT ![q] = SetRow(page[q], s, Deleted)]
      /\ due' = due \ {rid}
      /\ UNCHANGED <<next_page_id, page_ids, it, advancing, visited>>
      /\ Scanning' <=> Scanning
  BY DEF DeleteTuple, Scanning, End
<1>3. /\ PageOK(SetRow(page[q], s, Deleted))
      /\ SetRow(page[q], s, Deleted).rows = [page[q].rows EXCEPT ![s] = Deleted]
  <2>1. PageOK(page[q]) /\ Deleted \in Row /\ page[q].rows[s] \in Row
    BY <1>1 DEF IInv, TableOK, Row
  <2>2. LiveSize(Deleted) = 0 /\ LiveSize(page[q].rows[s]) \in Nat
    BY <2>1, LiveSizeType DEF LiveSize
  <2>3. LiveSize(Deleted) <= LiveSize(page[q].rows[s])
    BY <2>2
  <2> HIDE DEF q, s
  <2> QED BY <1>1, <2>1, <2>3, SetRowOK
<1>4. /\ DOMAIN page' = PageId
      /\ page'[q] = SetRow(page[q], s, Deleted)
      /\ \A p \in PageId \ {q} : page'[p] = page[p]
  BY <1>1, <1>2 DEF IInv, TableOK
<1>5. /\ [page[q].rows EXCEPT ![s] = Deleted] # <<>> /\ page[q].rows # <<>>
      /\ Len([page[q].rows EXCEPT ![s] = Deleted]) = Len(page[q].rows)
      /\ \A k \in 1 .. Len(page[q].rows) :
            k # s => [page[q].rows EXCEPT ![s] = Deleted][k] = page[q].rows[k]
  BY <1>1
<1>6. \A p \in PageId : InPageIds(p)' <=> InPageIds(p)
  BY <1>2 DEF InPageIds
<1>7. q < next_page_id
  <2>1. InPageIds(q)
    BY <1>1, <1>5 DEF IInv, TableOK
  <2> QED BY <2>1 DEF InPageIds, IInv, TableOK
<1> HIDE DEF q, s
<1>8. TableOK'
  <2>1. ASSUME NEW p \in PageId
        PROVE  /\ PageOK(page'[p])
               /\ page'[p].rows # <<>> <=> InPageIds(p)'
               /\ p >= next_page_id' => page'[p] = EmptyPage
    <3>1. CASE p = q
      <4>1. ~(p >= next_page_id')
        BY <1>2, <1>7, <3>1, ScanAssumption DEF IInv, TableOK, PageId
      <4> QED BY <1>1, <1>3, <1>4, <1>5, <1>6, <3>1, <4>1 DEF IInv, TableOK
    <3>2. CASE p # q
      BY <1>2, <1>4, <1>6, <3>2 DEF IInv, TableOK
    <3> QED BY <3>1, <3>2
  <2> QED BY <1>2, <1>4, <2>1 DEF IInv, TableOK
<1>9. \A p \in PageId : SlotCount(p)' = SlotCount(p)
  BY <1>3, <1>4, <1>5 DEF SlotCount
<1>10. IteratorOK'
  <2>1. Scanning => it.rid.page_id \in PageId
    <3>1. ASSUME Scanning PROVE it.page_idx + 1 \in 1 .. Len(page_ids)
      BY <3>1, TableFacts DEF IInv, IteratorOK
    <3> QED BY <3>1, TableFacts DEF IInv, IteratorOK
  <2>2. Scanning => SlotCount(it.rid.page_id)' = SlotCount(it.rid.page_id)
    BY <1>2, <1>9, <2>1 DEF SlotCount
  <2> QED BY <1>2, <2>2 DEF IInv, IteratorOK
<1>11. VisitedOK'
  <2>1. \A r : Passed(r)' <=> Passed(r)
    BY <1>2 DEF Passed
  <2>2. VisitedInOrder'
    BY <1>2 DEF IInv, VisitedOK, VisitedInOrder, Before
  <2> QED BY <1>2, <2>1, <2>2 DEF IInv, VisitedOK, WasVisited
<1>12. DueOK'
  <2>1. \A r : Ahead(r)' <=> Ahead(r)
    BY <1>2 DEF Ahead
  <2>2. ASSUME NEW r \in RecordId, r # rid, Live(r) PROVE Live(r)'
    <3>1. r.page_id \in PageId /\ r.slot_id \in Nat
      BY DEF RecordId
    <3>2. r.slot_id < SlotCount(r.page_id)'
      BY <1>9, <2>2, <3>1 DEF Live
    <3>3. CASE r.page_id # q
      BY <1>4, <2>2, <3>1, <3>2, <3>3 DEF Live, SlotCount
    <3>4. CASE r.page_id = q
      <4>1. r.slot_id + 1 # s
        BY <2>2, <3>4 DEF q, s, RecordId
      <4>2. r.slot_id + 1 \in 1 .. Len(page[q].rows)
        BY <2>2, <3>1, <3>4, TableFacts DEF Live, SlotCount, IInv
      <4>3. page'[q].rows[r.slot_id + 1] # Deleted
        BY <1>3, <1>4, <1>5, <2>2, <3>4, <4>1, <4>2 DEF Live
      <4> QED BY <3>2, <3>4, <4>3 DEF Live, SlotCount
    <3> QED BY <3>3, <3>4
  <2> QED BY <1>2, <2>1, <2>2 DEF IInv, DueOK, WasVisited
<1> QED BY <1>8, <1>10, <1>11, <1>12 DEF IInv

-------------------------------------------------------------------------------
(* The steps of the scan.                                                     *)

\* Every row is on the list, so a scan can reach it.
LEMMA LiveIsListed ==
    ASSUME TableOK, NEW r \in RecordId, Live(r)
    PROVE  \E m \in 1 .. Len(page_ids) : page_ids[m] = r.page_id
<1>1. r.page_id \in PageId /\ r.slot_id \in Nat /\ r.slot_id < Len(page[r.page_id].rows)
  BY DEF RecordId, Live, SlotCount
<1>2. page[r.page_id].rows # <<>>
  BY <1>1
<1> QED BY <1>1, <1>2 DEF TableOK, InPageIds

\* Where the iterator is, while there is a scan.
LEMMA ScanFacts ==
    ASSUME IInv, Scanning
    PROVE  /\ it.page_idx \in Nat /\ it.page_idx + 1 \in 1 .. Len(page_ids)
           /\ page_ids[it.page_idx + 1] = it.rid.page_id
           /\ it.rid.page_id \in PageId /\ it.rid.page_id # INVALID_PAGE_ID
           /\ it.rid.slot_id \in 0 .. SlotCount(it.rid.page_id)
           /\ SlotCount(it.rid.page_id) \in 0 .. Capacity
           /\ ~advancing => it.rid.slot_id < SlotCount(it.rid.page_id)
           /\ it.rid \in RecordId
<1>1. /\ it.page_idx \in Nat /\ it.page_idx + 1 \in 1 .. Len(page_ids)
      /\ page_ids[it.page_idx + 1] = it.rid.page_id
      /\ it.rid.slot_id \in Nat
      /\ it.rid.slot_id <= SlotCount(it.rid.page_id)
      /\ ~advancing => it.rid.slot_id < SlotCount(it.rid.page_id)
      /\ it.rid \in [page_id : PageId \cup {INVALID_PAGE_ID}, slot_id : Nat]
  BY TableFacts DEF IInv, IteratorOK
<1>2. /\ it.rid.page_id \in PageId /\ it.rid.page_id # INVALID_PAGE_ID
      /\ SlotCount(it.rid.page_id) \in 0 .. Capacity
  BY <1>1, TableFacts DEF IInv
<1>3. it.rid.slot_id \in 0 .. Capacity
  BY <1>1, <1>2, RowAssumption
<1> QED BY <1>1, <1>2, <1>3 DEF RecordId

LEMMA BeginLemma ==
    ASSUME IInv, Begin
    PROVE  IInv'
<1> DEFINE first == [page_id |-> PageAt(0), slot_id |-> 0]
<1>1. /\ due' = {r \in RecordId : Live(r)}
      /\ UNCHANGED table
      /\ ~advancing
  BY DEF Begin
<1>2. TableOK'
  BY <1>1 DEF IInv, TableOK, table, InPageIds
<1>3. Len(page_ids) \in Nat /\ page_ids' = page_ids /\ page' = page
  BY <1>1, TableFacts DEF IInv, table
<1>4. \A r \in due' : r \in RecordId /\ Live(r) /\ Live(r)'
  BY <1>1, <1>3 DEF Live, SlotCount
<1>5. CASE page_ids = <<>>
  <2>1. it' = End /\ visited' = <<>> /\ advancing' = FALSE
    BY <1>1, <1>5 DEF Begin
  <2>2. due' = {}
    BY <1>4, <1>5, LiveIsListed DEF IInv
  <2>3. ~Scanning' /\ advancing' = FALSE
    BY <2>1 DEF Scanning, End
  <2>4. IteratorOK'
    BY <2>1, <2>3 DEF IteratorOK, End
  <2>5. VisitedOK'
    BY <2>1, <2>3 DEF VisitedOK, VisitedInOrder
  <2>6. DueOK'
    BY <2>2 DEF DueOK
  <2> QED BY <1>2, <2>4, <2>5, <2>6 DEF IInv
<1>6. CASE page_ids # <<>>
  <2>1. 1 \in 1 .. Len(page_ids) /\ Len(page_ids) > 0
    BY <1>3, <1>6 DEF IInv, TableOK
  <2>2. /\ PageAt(0) = page_ids[1] /\ PageAt(0) \in PageId
        /\ PageAt(0) # INVALID_PAGE_ID
        /\ SlotCount(PageAt(0)) \in 0 .. Capacity
    BY <2>1, TableFacts DEF IInv, PageAt
  <2>3. 1 <= SlotCount(PageAt(0))
    <3>1. page[PageAt(0)].rows # <<>> /\ page[PageAt(0)].rows \in Seq(Row)
      BY <2>1, <2>2, TableFacts DEF IInv, TableOK, InPageIds
    <3> QED BY <3>1 DEF SlotCount
  <2>4. first \in RecordId
    BY <2>2, RowAssumption DEF RecordId
  <2>5. CASE Live(first)
    <3>1. /\ it' = [rid |-> first, page_idx |-> 0]
          /\ visited' = <<first>>
          /\ advancing' = FALSE
      BY <1>1, <1>6, <2>5 DEF Begin
    <3>2. Scanning'
      BY <2>2, <3>1 DEF Scanning, End
    <3>3. IteratorOK'
      <4>1. /\ it'.page_idx = 0 /\ it'.rid.slot_id = 0 /\ it'.rid.page_id = PageAt(0)
            /\ it' \in [rid : [page_id : PageId \cup {INVALID_PAGE_ID}, slot_id : Nat],
                        page_idx : Nat]
        BY <2>2, <3>1
      <4>2. SlotCount(it.rid.page_id)' = SlotCount(PageAt(0))
        BY <1>3, <4>1 DEF SlotCount
      <4>3. 0 < SlotCount(PageAt(0)) /\ 0 < Len(page_ids') /\ page_ids'[0 + 1] = PageAt(0)
        BY <1>3, <2>1, <2>2, <2>3
      <4>4. advancing' \in BOOLEAN
        BY <3>1
      <4> HIDE DEF first
      <4> QED BY <2>2, <3>2, <4>1, <4>2, <4>3, <4>4 DEF IteratorOK
    <3>4. /\ visited' \in Seq(RecordId) /\ Len(visited') = 1 /\ visited'[1] = first
          /\ 1 \in 1 .. 1
      BY <2>4, <3>1
    <3>5. VisitedOK'
      BY <3>1, <3>4 DEF VisitedOK, VisitedInOrder, WasVisited
    <3>6. ASSUME NEW r \in due' PROVE Ahead(r)'
      <4>1. PICK m \in 1 .. Len(page_ids) : page_ids[m] = r.page_id
        BY <1>4, LiveIsListed DEF IInv
      <4>2. r.slot_id >= 0
        BY <1>4 DEF RecordId
      <4>3. m > 1 \/ m = 1
        BY <4>1
      <4> QED BY <1>3, <3>1, <4>1, <4>2, <4>3 DEF Ahead
    <3>7. DueOK'
      BY <1>1, <1>4, <3>2, <3>6 DEF DueOK
    <3> QED BY <1>2, <3>3, <3>5, <3>7 DEF IInv
  <2>6. CASE ~Live(first)
    <3>1. /\ it' = [rid |-> [page_id |-> PageAt(0), slot_id |-> 1], page_idx |-> 0]
          /\ visited' = <<>>
          /\ advancing' = TRUE
      BY <1>1, <1>6, <2>6 DEF Begin
    <3>2. Scanning'
      BY <2>2, <3>1 DEF Scanning, End
    <3>3. IteratorOK'
      <4>1. /\ it'.page_idx = 0 /\ it'.rid.slot_id = 1 /\ it'.rid.page_id = PageAt(0)
            /\ it' \in [rid : [page_id : PageId \cup {INVALID_PAGE_ID}, slot_id : Nat],
                        page_idx : Nat]
        BY <2>2, <3>1
      <4>2. SlotCount(it.rid.page_id)' = SlotCount(PageAt(0))
        BY <1>3, <4>1 DEF SlotCount
      <4> QED BY <1>3, <2>1, <2>2, <2>3, <3>1, <3>2, <4>1, <4>2 DEF IteratorOK
    <3>4. VisitedOK'
      BY <3>1 DEF VisitedOK, VisitedInOrder
    <3>5. ASSUME NEW r \in due' PROVE Ahead(r)'
      <4>1. PICK m \in 1 .. Len(page_ids) : page_ids[m] = r.page_id
        BY <1>4, LiveIsListed DEF IInv
      <4>2. r.slot_id \in Nat /\ (m = 1 => r.slot_id # 0)
        BY <1>4, <2>2, <2>6, <4>1 DEF RecordId
      <4>3. m > 1 \/ (m = 1 /\ r.slot_id >= 1)
        BY <4>1, <4>2
      <4> QED BY <1>3, <3>1, <4>1, <4>3 DEF Ahead
    <3>6. DueOK'
      BY <1>1, <1>4, <3>2, <3>5 DEF DueOK
    <3> QED BY <1>2, <3>3, <3>4, <3>6 DEF IInv
  <2> QED BY <2>5, <2>6
<1> QED BY <1>5, <1>6

LEMMA IncrementLemma ==
    ASSUME IInv, Increment
    PROVE  IInv'
<1>1. /\ ~advancing /\ Scanning /\ advancing' = TRUE
      /\ it' = [it EXCEPT !.rid.slot_id = it.rid.slot_id + 1]
      /\ UNCHANGED <<next_page_id, page_ids, page, visited, due>>
  BY DEF Increment, table
<1>2. /\ it'.page_idx = it.page_idx
      /\ it'.rid.page_id = it.rid.page_id
      /\ it'.rid.slot_id = it.rid.slot_id + 1
      /\ it' \in [rid : [page_id : PageId \cup {INVALID_PAGE_ID}, slot_id : Nat], page_idx : Nat]
  BY <1>1, ScanFacts DEF IInv, IteratorOK
<1>3. Scanning'
  BY <1>1, <1>2, ScanFacts DEF Scanning, End
<1>4. TableOK'
  BY <1>1 DEF IInv, TableOK, InPageIds
<1>5. IteratorOK'
  BY <1>1, <1>2, <1>3, ScanFacts DEF IInv, IteratorOK, SlotCount
<1>6. VisitedOK'
  <2>1. ASSUME NEW i \in 1 .. Len(visited) PROVE Passed(visited[i])'
    <3>1. CASE Passed(visited[i])
      <4>1. PICK m \in 1 .. Len(page_ids) :
                /\ page_ids[m] = visited[i].page_id
                /\ \/ m <= it.page_idx
                   \/ m = it.page_idx + 1 /\ visited[i].slot_id < it.rid.slot_id
        BY <3>1 DEF Passed
      <4>2. visited[i].slot_id \in Nat
        <5>1. visited[i] \in RecordId
          BY DEF IInv, VisitedOK
        <5> QED BY <5>1 DEF RecordId
      <4>3. \/ m <= it'.page_idx
            \/ m = it'.page_idx + 1 /\ visited[i].slot_id < it'.rid.slot_id
        BY <1>1, <1>2, <4>1, <4>2, ScanFacts
      <4> QED BY <1>1, <4>1, <4>3 DEF Passed
    <3>2. CASE visited[i] = it.rid
      <4>1. visited[i].slot_id < it'.rid.slot_id
        BY <1>1, <1>2, <3>2, ScanFacts
      <4>2. it.page_idx + 1 \in 1 .. Len(page_ids) /\ page_ids[it.page_idx + 1] = visited[i].page_id
        BY <1>1, <3>2, ScanFacts
      <4> QED BY <1>1, <1>2, <4>1, <4>2 DEF Passed
    <3> QED BY <1>1, <3>1, <3>2 DEF IInv, VisitedOK
  <2>2. VisitedInOrder'
    BY <1>1 DEF IInv, VisitedOK, VisitedInOrder, Before
  <2> QED BY <1>1, <2>1, <2>2 DEF IInv, VisitedOK
<1>7. DueOK'
  <2>1. ASSUME NEW r \in due PROVE Live(r)' /\ (WasVisited(r)' \/ Ahead(r)')
    <3>1. Live(r)'
      BY <1>1 DEF IInv, DueOK, Live, SlotCount
    <3>2. r \in RecordId /\ r.slot_id \in Nat
      BY DEF IInv, DueOK, RecordId
    <3>3. CASE WasVisited(r)
      BY <1>1, <3>1, <3>3 DEF WasVisited
    <3>4. CASE Ahead(r)
      <4>1. PICK m \in 1 .. Len(page_ids) :
                /\ page_ids[m] = r.page_id
                /\ \/ m > it.page_idx + 1
                   \/ m = it.page_idx + 1 /\ r.slot_id >= it.rid.slot_id
        BY <3>4 DEF Ahead
      <4>2. CASE r = it.rid
        <5>1. WasVisited(r)
          BY <1>1, <4>2 DEF IInv, VisitedOK
        <5> QED BY <1>1, <3>1, <5>1 DEF WasVisited
      <4>3. CASE r # it.rid
        <5>1. m = it.page_idx + 1 => r.page_id = it.rid.page_id
          BY <1>1, <4>1, ScanFacts
        <5>2. it.rid \in RecordId /\ it.rid.slot_id \in Nat
          BY <1>1, ScanFacts DEF RecordId
        <5>3. m = it.page_idx + 1 => r.slot_id # it.rid.slot_id
          BY <3>2, <4>3, <5>1, <5>2 DEF RecordId
        <5>4. \/ m > it'.page_idx + 1
              \/ m = it'.page_idx + 1 /\ r.slot_id >= it'.rid.slot_id
          BY <1>1, <1>2, <3>2, <4>1, <5>2, <5>3, ScanFacts
        <5> QED BY <1>1, <3>1, <4>1, <5>4 DEF Ahead
      <4> QED BY <4>2, <4>3
    <3> QED BY <3>3, <3>4 DEF IInv, DueOK
  <2> QED BY <1>1, <1>3, <2>1 DEF IInv, DueOK
<1> QED BY <1>4, <1>5, <1>6, <1>7 DEF IInv

LEMMA NextSlotLemma ==
    ASSUME IInv, NextSlot
    PROVE  IInv'
<1>1. /\ advancing /\ Scanning
      /\ it.rid.slot_id < SlotCount(it.rid.page_id)
      /\ UNCHANGED <<next_page_id, page_ids, page, due>>
  BY DEF NextSlot, table, IInv, IteratorOK
<1>2. TableOK'
  BY <1>1 DEF IInv, TableOK, InPageIds
<1>3. \A r \in due : r \in RecordId /\ r.slot_id \in Nat /\ Live(r) /\ Live(r)'
  BY <1>1 DEF IInv, DueOK, Live, SlotCount, RecordId
<1>4. CASE Live(it.rid)
  <2>1. /\ advancing' = FALSE /\ it' = it /\ Scanning'
        /\ visited' = Append(visited, it.rid)
    BY <1>1, <1>4 DEF NextSlot, Scanning, End
  <2> DEFINE n == Len(visited)
  <2>2. /\ n \in Nat /\ visited' \in Seq(RecordId) /\ Len(visited') = n + 1
        /\ visited'[n + 1] = it.rid
        /\ \A i \in 1 .. n : visited'[i] = visited[i] /\ visited[i] \in RecordId
    BY <1>1, <2>1, ScanFacts DEF IInv, VisitedOK
  <2>3. \A i \in 1 .. n + 1 : i \in 1 .. n \/ i = n + 1
    BY <2>2
  <2>4. \A i \in 1 .. n : i \in 1 .. n + 1
    BY <2>2
  <2>5. n + 1 \in 1 .. n + 1
    BY <2>2
  <2> HIDE DEF n
  <2>6. IteratorOK'
    BY <1>1, <2>1 DEF IInv, IteratorOK, SlotCount
  <2>7. \A i \in 1 .. n : Passed(visited[i])
    BY <1>1 DEF IInv, VisitedOK, n
  <2>8. ASSUME NEW i \in 1 .. n PROVE Before(visited[i], it.rid)'
    <3>1. PICK m \in 1 .. Len(page_ids) :
              /\ page_ids[m] = visited[i].page_id
              /\ \/ m <= it.page_idx
                 \/ m = it.page_idx + 1 /\ visited[i].slot_id < it.rid.slot_id
      BY <2>7 DEF Passed
    <3>2. /\ it.page_idx \in Nat /\ it.page_idx + 1 \in 1 .. Len(page_ids)
          /\ page_ids[it.page_idx + 1] = it.rid.page_id
      BY <1>1, ScanFacts
    <3>3. \/ m < it.page_idx + 1
          \/ m = it.page_idx + 1 /\ visited[i].slot_id < it.rid.slot_id
      BY <3>1, <3>2
    <3>4. visited'[i] = visited[i] /\ it' = it /\ page_ids' = page_ids
      BY <1>1, <2>1, <2>2
    <3> QED BY <2>2, <3>1, <3>2, <3>3, <3>4 DEF Before
  <2>9. VisitedInOrder'
    <3> SUFFICES ASSUME NEW i \in 1 .. n + 1, NEW j \in 1 .. n + 1, i < j
                 PROVE  Before(visited[i], visited[j])'
      BY <2>2 DEF VisitedInOrder
    <3>1. i \in 1 .. n
      BY <2>2
    <3>2. CASE j \in 1 .. n
      <4>1. Before(visited[i], visited[j])
        BY <3>1, <3>2 DEF IInv, VisitedOK, VisitedInOrder, n
      <4>2. visited'[i] = visited[i] /\ visited'[j] = visited[j]
        BY <2>2, <3>1, <3>2
      <4> QED BY <1>1, <4>1, <4>2 DEF Before
    <3>3. CASE j = n + 1
      BY <2>1, <2>2, <2>8, <3>1, <3>3 DEF Before
    <3> QED BY <2>3, <3>2, <3>3
  <2>10. ASSUME NEW i \in 1 .. n + 1
         PROVE  Passed(visited[i])' \/ visited'[i] = it'.rid
    BY <1>1, <2>1, <2>2, <2>3, <2>7 DEF Passed
  <2>11. WasVisited(it.rid)'
    BY <2>1, <2>2, <2>5 DEF WasVisited
  <2>12. VisitedOK'
    BY <2>1, <2>2, <2>9, <2>10, <2>11 DEF VisitedOK
  <2>13. \A r : WasVisited(r) => WasVisited(r)'
    BY <2>2, <2>4 DEF WasVisited, n
  <2>14. \A r : Ahead(r) => Ahead(r)'
    BY <1>1, <2>1 DEF Ahead
  <2>15. DueOK'
    BY <1>1, <1>3, <2>1, <2>13, <2>14 DEF IInv, DueOK
  <2> QED BY <1>2, <2>6, <2>12, <2>15 DEF IInv
<1>5. CASE ~Live(it.rid)
  <2>1. /\ UNCHANGED <<advancing, visited>>
        /\ it' = [it EXCEPT !.rid.slot_id = it.rid.slot_id + 1]
    BY <1>5 DEF NextSlot, SlotAfterDeleted
  <2>2. /\ it'.page_idx = it.page_idx
        /\ it'.rid.page_id = it.rid.page_id
        /\ it'.rid.slot_id = it.rid.slot_id + 1
        /\ it' \in [rid : [page_id : PageId \cup {INVALID_PAGE_ID}, slot_id : Nat],
                    page_idx : Nat]
    BY <1>1, <2>1, ScanFacts DEF IInv, IteratorOK
  <2>3. Scanning'
    BY <1>1, <2>2, ScanFacts DEF Scanning, End
  <2>4. IteratorOK'
    BY <1>1, <2>1, <2>2, <2>3, ScanFacts DEF IInv, IteratorOK, SlotCount
  <2>5. ASSUME NEW i \in 1 .. Len(visited) PROVE Passed(visited[i])'
    <3>1. PICK m \in 1 .. Len(page_ids) :
              /\ page_ids[m] = visited[i].page_id
              /\ \/ m <= it.page_idx
                 \/ m = it.page_idx + 1 /\ visited[i].slot_id < it.rid.slot_id
      BY <1>1 DEF Passed, IInv, VisitedOK
    <3>2. visited[i].slot_id \in Nat
      <4>1. visited[i] \in RecordId
        BY DEF IInv, VisitedOK
      <4> QED BY <4>1 DEF RecordId
    <3>3. \/ m <= it'.page_idx
          \/ m = it'.page_idx + 1 /\ visited[i].slot_id < it'.rid.slot_id
      BY <1>1, <2>2, <3>1, <3>2, ScanFacts
    <3> QED BY <1>1, <2>1, <3>1, <3>3 DEF Passed
  <2>6. VisitedInOrder'
    BY <1>1, <2>1 DEF IInv, VisitedOK, VisitedInOrder, Before
  <2>7. VisitedOK'
    BY <1>1, <2>1, <2>5, <2>6 DEF IInv, VisitedOK
  <2>8. ASSUME NEW r \in due, Ahead(r) PROVE Ahead(r)'
    <3>1. PICK m \in 1 .. Len(page_ids) :
              /\ page_ids[m] = r.page_id
              /\ \/ m > it.page_idx + 1
                 \/ m = it.page_idx + 1 /\ r.slot_id >= it.rid.slot_id
      BY <2>8 DEF Ahead
    <3>2. m = it.page_idx + 1 => r.page_id = it.rid.page_id
      BY <1>1, <3>1, ScanFacts
    <3>3. it.rid \in RecordId /\ it.rid.slot_id \in Nat /\ r # it.rid
      BY <1>1, <1>3, <1>5, ScanFacts DEF RecordId
    <3>4. m = it.page_idx + 1 => r.slot_id # it.rid.slot_id
      BY <1>3, <3>2, <3>3 DEF RecordId
    <3>5. \/ m > it'.page_idx + 1
          \/ m = it'.page_idx + 1 /\ r.slot_id >= it'.rid.slot_id
      BY <1>1, <1>3, <2>2, <3>1, <3>3, <3>4, ScanFacts
    <3> QED BY <1>1, <3>1, <3>5 DEF Ahead
  <2>9. DueOK'
    BY <1>1, <1>3, <2>1, <2>3, <2>8 DEF IInv, DueOK, WasVisited
  <2> QED BY <1>2, <2>4, <2>7, <2>9 DEF IInv
<1> QED BY <1>4, <1>5

LEMMA NextPageLemma ==
    ASSUME IInv, NextPage
    PROVE  IInv'
<1> DEFINE idx == it.page_idx + 1
<1>1. /\ advancing /\ Scanning
      /\ it.rid.slot_id >= SlotCount(it.rid.page_id)
      /\ UNCHANGED <<next_page_id, page_ids, page, visited, due>>
  BY DEF NextPage, table, IInv, IteratorOK
<1>2. TableOK'
  BY <1>1 DEF IInv, TableOK, InPageIds
<1>3. \A r \in due : r \in RecordId /\ r.slot_id \in Nat /\ Live(r) /\ Live(r)'
  BY <1>1 DEF IInv, DueOK, Live, SlotCount, RecordId
<1>4. VisitedInOrder'
  BY <1>1 DEF IInv, VisitedOK, VisitedInOrder, Before
<1>5. idx \in 1 .. Len(page_ids) /\ Len(page_ids) \in Nat
  BY <1>1, ScanFacts, TableFacts DEF IInv
\* No row that is there lies ahead on the page the iterator leaves.
<1>6. ASSUME NEW r \in due, Ahead(r)
      PROVE  \E m \in 1 .. Len(page_ids) : page_ids[m] = r.page_id /\ m > idx
  <2>1. PICK m \in 1 .. Len(page_ids) :
            /\ page_ids[m] = r.page_id
            /\ \/ m > it.page_idx + 1
               \/ m = it.page_idx + 1 /\ r.slot_id >= it.rid.slot_id
    BY <1>6 DEF Ahead
  <2>2. m = idx => r.page_id = it.rid.page_id
    BY <1>1, <2>1, ScanFacts
  <2>3. r.slot_id < SlotCount(r.page_id)
    BY <1>3 DEF Live
  <2>4. ~(m = idx /\ r.slot_id >= it.rid.slot_id)
    BY <1>1, <1>3, <2>2, <2>3, ScanFacts
  <2> QED BY <2>1, <2>4
<1>7. CASE idx >= Len(page_ids)
  <2>1. it' = [rid |-> End.rid, page_idx |-> idx] /\ advancing' = FALSE
    BY <1>7 DEF NextPage, NextIndex
  <2>2. ~Scanning'
    BY <2>1 DEF Scanning
  <2>3. it' \in [rid : [page_id : PageId \cup {INVALID_PAGE_ID}, slot_id : Nat],
                 page_idx : Nat]
    BY <1>5, <2>1 DEF End
  <2>4. IteratorOK'
    BY <2>1, <2>2, <2>3 DEF IteratorOK
  <2>5. VisitedOK'
    BY <1>1, <1>4, <2>2 DEF IInv, VisitedOK
  <2>6. \A r \in due : ~Ahead(r)
    BY <1>5, <1>6, <1>7
  <2>7. DueOK'
    BY <1>1, <1>3, <2>6 DEF IInv, DueOK, WasVisited
  <2> QED BY <1>2, <2>4, <2>5, <2>7 DEF IInv
<1>8. CASE idx < Len(page_ids)
  <2>1. /\ it' = [rid |-> [page_id |-> page_ids[idx + 1], slot_id |-> 0], page_idx |-> idx]
        /\ advancing' = advancing
    <3>1. ~(idx >= Len(page_ids))
      BY <1>5, <1>8
    <3> QED BY <3>1, Zenon DEF NextPage, NextIndex, PageAt, FirstSlot
  <2>2. idx + 1 \in 1 .. Len(page_ids)
    BY <1>5, <1>8
  <2>3. /\ page_ids[idx + 1] \in PageId /\ page_ids[idx + 1] # INVALID_PAGE_ID
        /\ SlotCount(page_ids[idx + 1]) \in Nat
    BY <2>2, TableFacts DEF IInv
  <2>4. /\ it'.page_idx = idx /\ it'.rid.page_id = page_ids[idx + 1]
        /\ it'.rid.slot_id = 0
        /\ it' \in [rid : [page_id : PageId \cup {INVALID_PAGE_ID}, slot_id : Nat],
                    page_idx : Nat]
    BY <1>5, <2>1, <2>3
  <2>5. Scanning'
    BY <2>3, <2>4 DEF Scanning, End
  <2>6. SlotCount(it.rid.page_id)' = SlotCount(page_ids[idx + 1])
    BY <1>1, <2>4 DEF SlotCount
  <2>7. IteratorOK'
    BY <1>1, <1>8, <2>1, <2>3, <2>4, <2>5, <2>6 DEF IteratorOK
  <2>8. ASSUME NEW i \in 1 .. Len(visited) PROVE Passed(visited[i])'
    <3>1. PICK m \in 1 .. Len(page_ids) :
              /\ page_ids[m] = visited[i].page_id
              /\ \/ m <= it.page_idx
                 \/ m = it.page_idx + 1 /\ visited[i].slot_id < it.rid.slot_id
      BY <1>1 DEF Passed, IInv, VisitedOK
    <3>2. m <= it'.page_idx
      BY <1>1, <2>4, <3>1, ScanFacts
    <3> QED BY <1>1, <3>1, <3>2 DEF Passed
  <2>9. VisitedOK'
    BY <1>1, <1>4, <2>1, <2>8 DEF IInv, VisitedOK
  <2>10. ASSUME NEW r \in due, Ahead(r) PROVE Ahead(r)'
    <3>1. PICK m \in 1 .. Len(page_ids) : page_ids[m] = r.page_id /\ m > idx
      BY <1>6, <2>10
    <3>2. \/ m > it'.page_idx + 1
          \/ m = it'.page_idx + 1 /\ r.slot_id >= it'.rid.slot_id
      BY <1>3, <1>5, <2>4, <3>1
    <3> QED BY <1>1, <3>1, <3>2 DEF Ahead
  <2>11. DueOK'
    BY <1>1, <1>3, <2>5, <2>10 DEF IInv, DueOK, WasVisited
  <2> QED BY <1>2, <2>7, <2>9, <2>11 DEF IInv
<1> QED BY <1>5, <1>7, <1>8

-------------------------------------------------------------------------------
(* The theorems.                                                              *)

LEMMA InitLemma == Init => IInv
<1> SUFFICES ASSUME Init PROVE IInv
  OBVIOUS
<1>1. /\ Len(page_ids) = 0 /\ 1 .. 0 = {} /\ ~Scanning
      /\ it \in [rid : [page_id : PageId \cup {INVALID_PAGE_ID}, slot_id : Nat],
                 page_idx : Nat]
  BY DEF Init, Scanning, End
<1>2. TableOK
  BY <1>1, ScanAssumption, EmptyPageOK DEF Init, TableOK, InPageIds, EmptyPage
<1>3. IteratorOK
  BY <1>1 DEF Init, IteratorOK
<1>4. VisitedOK
  BY <1>1 DEF Init, VisitedOK, VisitedInOrder
<1>5. DueOK
  BY DEF Init, DueOK
<1> QED BY <1>2, <1>3, <1>4, <1>5 DEF IInv

LEMMA StepLemma == IInv /\ [Next]_vars => IInv'
<1> SUFFICES ASSUME IInv, [Next]_vars PROVE IInv'
  OBVIOUS
<1>1. ASSUME NEW d \in Tuples, InsertTuple(d) PROVE IInv'
  BY <1>1, InsertTupleLemma
<1>2. ASSUME NEW rid \in RecordId, DeleteTuple(rid) PROVE IInv'
  BY <1>2, DeleteTupleLemma
<1>3. CASE Begin
  BY <1>3, BeginLemma
<1>4. CASE Increment
  BY <1>4, IncrementLemma
<1>5. CASE NextSlot
  BY <1>5, NextSlotLemma
<1>6. CASE NextPage
  BY <1>6, NextPageLemma
<1>7. CASE UNCHANGED vars
  <2>1. UNCHANGED <<next_page_id, page_ids, page, it, advancing, visited, due>>
    BY <1>7 DEF vars, table
  <2>2. TableOK' /\ IteratorOK'
    BY <2>1 DEF IInv, TableOK, InPageIds, IteratorOK, Scanning, End, SlotCount
  <2>3. VisitedOK'
    BY <2>1 DEF IInv, VisitedOK, VisitedInOrder, Before, Scanning, End, Passed, WasVisited
  <2>4. DueOK'
    BY <2>1 DEF IInv, DueOK, Live, SlotCount, Scanning, End, Ahead, WasVisited
  <2> QED BY <2>2, <2>3, <2>4 DEF IInv
<1> QED BY <1>1, <1>2, <1>3, <1>4, <1>5, <1>6, <1>7 DEF Next

LEMMA Invariance == Spec => []IInv
BY InitLemma, StepLemma, PTL DEF Spec

\* The iterator's page_idx_ stays the place in the page list of the page rid_
\* names, and its slot a slot of the page, for every capacity of a page and
\* every number of pages: inserts lengthen the list and never reorder it.
THEOREM ScanTypeCorrect == Spec => []ScanTypeOK
<1>1. IInv => ScanTypeOK
  <2> SUFFICES ASSUME IInv PROVE ScanTypeOK
    OBVIOUS
  <2>1. \A p \in PageId : page[p].rows \in Seq(Tuples \cup {Deleted})
    BY DEF IInv, TableOK, PageOK, Row
  <2>2. next_page_id \in 0 .. MaxPages /\ page_ids \in Seq(0 .. next_page_id - 1)
    BY DEF IInv, TableOK
  <2>3. ASSUME Scanning
        PROVE  /\ it.rid \in RecordId
               /\ it.page_idx \in 0 .. Len(page_ids) - 1
               /\ page_ids[it.page_idx + 1] = it.rid.page_id
    <3>1. Len(page_ids) \in Nat
      BY TableFacts DEF IInv
    <3> QED BY <2>3, <3>1, ScanFacts
  <2>4. advancing \in BOOLEAN
    BY DEF IInv, IteratorOK
  <2> QED BY <2>1, <2>2, <2>3, <2>4 DEF ScanTypeOK
<1> QED BY Invariance, <1>1, PTL

\* A scan goes forward in the order of pages and slots: operator++ stops at no
\* row twice, whatever is inserted, deleted and compacted between its calls.
THEOREM ScanGoesForward == Spec => []VisitedInOrder
<1>1. IInv => VisitedInOrder
  BY DEF IInv, VisitedOK
<1> QED BY Invariance, <1>1, PTL

\* When the iterator compares equal to End(), it has stopped at every row that
\* was in the table from Begin on: neither a deleted row nor a page that filled
\* up or was compacted meanwhile hides one.
THEOREM ScanIsComplete == Spec => []EveryRowVisited
<1>1. IInv => EveryRowVisited
  BY DEF IInv, DueOK, WasVisited, EveryRowVisited
<1> QED BY Invariance, <1>1, PTL
===============================================================================
