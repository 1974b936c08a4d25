------------------------- MODULE RecordManagerProofs --------------------------
(***************************************************************************)
(* Proofs about RecordManager over its pool, for every pool size, number   *)
(* of pages and page size: it keeps the pool's discipline of one pin at a  *)
(* time, so the pool's invariant holds, its answers are true and it        *)
(* implements the record store.                                            *)
(***************************************************************************)
EXTENDS RecordManager, BufferPoolProofs, RowPageProofs, SequenceTheorems

-------------------------------------------------------------------------------
(* The inductive invariant: the pool's own (BufferPoolProofs!IInv), the       *)
(* pages, and what is known at each step of the call in progress.             *)

Listed(p) == \E i \in 1 .. Len(page_ids) : page_ids[i] = p

NoneHeld == \A q \in PageId : held[q] = 0
OnlyHeld(p) == p \in PageId /\ \A q \in PageId : held[q] = IF q = p THEN 1 ELSE 0

\* Every page with contents is well formed, every listed page has contents.
PagesOK ==
    /\ page_ids \in Seq(PageId)
    /\ \A i \in 1 .. Len(page_ids) : /\ page_ids[i] < next_page_id
                                     /\ contents[page_ids[i]] # Unwritten
    /\ \A i, j \in 1 .. Len(page_ids) : page_ids[i] = page_ids[j] => i = j
    /\ \A p \in PageId : contents[p] # Unwritten => PageOK(contents[p])

\* The pages with contents are listed, but for those of S.
ListedBut(S) == \A p \in PageId \ S : contents[p] # Unwritten => Listed(p)

\* None of the first n pages of the list has room for the tuple.
FullUpTo(n, d) ==
    \A j \in 1 .. Len(page_ids) : j <= n => ~Fits(Compact(contents[page_ids[j]]), d)

Steps == {"fetch", "access", "unpin"}

LoopOK ==
    /\ op \in [call : {"Insert"}, tuple : Tuples, phase : {"probe", "compact"},
               i : Nat \ {0}, at : Steps, rid : RecordId \cup {InvalidRecord}]
    /\ ListedBut({})
    /\ op.at = "fetch" => NoneHeld
    /\ op.at # "fetch" => op.i <= Len(page_ids) /\ OnlyHeld(page_ids[op.i])
    /\ op.at # "unpin" => op.rid = InvalidRecord /\ unflagged = {}
    /\ op.at = "unpin" => unflagged = {} \/ InsertUnpinFlag
    /\ op.rid # InvalidRecord => /\ op.rid \in RecordId
                                 /\ records[op.rid] = op.tuple
    /\ op.phase = "compact" =>
          /\ FullUpTo(op.i - 1, op.tuple)
          /\ op.at = "unpin" /\ op.rid = InvalidRecord => FullUpTo(op.i, op.tuple)

NewOK ==
    /\ op \in [call : {"Insert"}, tuple : Tuples, phase : {"new"},
               i : Nat \ {0}, at : Steps, rid : RecordId \cup {InvalidRecord}]
    /\ ListedBut({op.rid.page_id})
    /\ op.at = "fetch" => /\ NoneHeld /\ op.rid = InvalidRecord
                          /\ FullUpTo(Len(page_ids), op.tuple)
    /\ op.at # "fetch" => /\ OnlyHeld(op.rid.page_id)
                          /\ op.rid.slot_id = 0
                          /\ op.rid.page_id < next_page_id
                          /\ ~Listed(op.rid.page_id)
    /\ op.at # "unpin" => unflagged = {}
    /\ op.at = "access" => contents[op.rid.page_id] = Unwritten
    /\ op.at = "unpin" =>
          /\ op.rid.page_id \in unflagged
          /\ contents[op.rid.page_id] = IF Fits(EmptyPage, op.tuple)
                                        THEN InsertRow(EmptyPage, op.tuple) ELSE EmptyPage

\* What Get and Delete answer.
RowAnswer(a) ==
    /\ a.call = "Get" => IF a.ok THEN records[a.rid] = a.row ELSE records[a.rid] \notin Tuples
    /\ a.call = "Delete" => (a.ok <=> records[a.rid] # Absent)

RowOK ==
    /\ op \in [call : {"Get", "Delete", "Update"}, tuple : Row, rid : RecordId, at : Steps,
               ok : BOOLEAN, row : Row]
    /\ op.call = "Update" => op.tuple \in Tuples
    /\ ListedBut({}) /\ Listed(op.rid.page_id)
    /\ op.at = "fetch" => NoneHeld
    /\ op.at # "fetch" => OnlyHeld(op.rid.page_id)
    /\ op.at # "unpin" => unflagged = {} /\ ~op.ok
    /\ op.at = "unpin" => /\ unflagged = {} \/ (op.call # "Get" /\ op.ok)
                          /\ RowAnswer(op)

\* Between calls.
IdleOK ==
    /\ op = NoCall
    /\ ListedBut({}) /\ NoneHeld /\ unflagged = {}
    /\ \/ result = NoCall
       \/ /\ result \in [call : {"Insert"}, tuple : Tuples, rid : RecordId \cup {InvalidRecord}]
          /\ IF result.rid = InvalidRecord THEN ~Fits(EmptyPage, result.tuple)
             ELSE records[result.rid] = result.tuple
       \/ /\ result \in [call : {"Get", "Delete", "Update"}, rid : RecordId, ok : BOOLEAN,
                         row : Row]
          /\ RowAnswer(result)

RInv == IInv /\ PagesOK /\ (IdleOK \/ LoopOK \/ NewOK \/ RowOK)

-------------------------------------------------------------------------------
(* The pool's operations as the record manager uses them: the abstract store  *)
(* of BufferPoolProofs says what they do to the contents and the pins.        *)

LEMMA OpKind ==
    ASSUME RInv
    PROVE  /\ op = NoCall => IdleOK
           /\ InLoop => LoopOK
           /\ op.call = "Insert" /\ op.phase = "new" => NewOK
           /\ RowCall => RowOK
<1>1. CASE IdleOK
  BY <1>1 DEF IdleOK, NoCall, InLoop, RowCall
<1>2. CASE LoopOK
  BY <1>2 DEF LoopOK, NoCall, InLoop, RowCall
<1>3. CASE NewOK
  BY <1>3 DEF NewOK, NoCall, InLoop, RowCall
<1>4. CASE RowOK
  BY <1>4 DEF RowOK, NoCall, InLoop, RowCall
<1> QED BY <1>1, <1>2, <1>3, <1>4 DEF RInv

LEMMA PageIsData ==
    ASSUME NEW page, PageOK(page)
    PROVE  page \in Data /\ page # Unwritten
<1>1. /\ page \in [rows : Seq(Row), free : Nat] /\ Len(page.rows) \in 0 .. Capacity
      /\ page.free \in 0 .. Capacity
  BY PageBounds DEF PageOK
<1>2. page.rows \in [1 .. Len(page.rows) -> Tuples \cup {Deleted}]
  BY <1>1 DEF Row
<1>3. [rows |-> page.rows, free |-> page.free] \in Data
  BY <1>1, <1>2, RecordAssumption
<1>4. page = [rows |-> page.rows, free |-> page.free]
  BY <1>1
<1> QED BY <1>3, <1>4, PoolAssumption

\* What is written is what has contents; a pinned page is read through its pointer.
LEMMA ContentsFacts ==
    ASSUME IInv
    PROVE  /\ contents = [p \in PageId |-> contents[p]]
           /\ \A p \in PageId : contents[p] # Unwritten <=> p \in written
           /\ \A p \in PageId : held[p] > 0 /\ p \in written => Image(p) = contents[p]
<1>1. contents = [p \in PageId |-> contents[p]]
  BY DEF contents
<1>2. ASSUME NEW p \in PageId, p \in written PROVE contents[p] \in Data
  <2>1. /\ pages \in [Frame -> Page] /\ page_table \in [PageId -> Frame \cup {NoFrame}]
        /\ disk \in [extent : SUBSET PageId, page : [PageId -> Data]]
    BY DEF IInv, TypeOK
  <2>2. CASE Resident(p)
    <3>1. pages[page_table[p]] \in Page
      BY <2>1, <2>2 DEF Resident
    <3> QED BY <1>2, <2>2, <3>1 DEF contents, Page
  <2>3. CASE ~Resident(p)
    BY <1>2, <2>1, <2>3 DEF contents
  <2> QED BY <2>2, <2>3
<1>3. \A p \in PageId : contents[p] # Unwritten <=> p \in written
  <2>1. \A p \in PageId : p \notin written => contents[p] = Unwritten
    BY DEF contents
  <2> QED BY <1>2, <2>1, PoolAssumption
<1>4. \A p \in PageId : held[p] > 0 /\ p \in written => Image(p) = contents[p]
  BY DEF IInv, PointerValid, contents, Image
<1> QED BY <1>1, <1>3, <1>4

LEMMA FetchStep ==
    ASSUME IInv, NoneHeld, NEW p \in PageId, FetchPage(p)
    PROVE  IInv' /\ OnlyHeld(p)' /\ UNCHANGED <<contents, unflagged, next_page_id>>
<1>1. held[p] = 0
  BY DEF NoneHeld
<1>2. IInv' /\ Store!Pin(p)
  BY <1>1, FetchHitLemma, FetchMissLemma DEF FetchPage
<1>3. held' = [held EXCEPT ![p] = @ + 1] /\ held \in [PageId -> 0 .. MaxPins]
  BY DEF FetchPage, IInv, TypeOK
<1>4. \A q \in PageId : held'[q] = IF q = p THEN 1 ELSE 0
  BY <1>3 DEF NoneHeld
<1> QED BY <1>2, <1>4 DEF Store!Pin, OnlyHeld

\* The page the call holds is the only one it can have written.
LEMMA OnlyUnflagged ==
    ASSUME IInv, NEW p, OnlyHeld(p)
    PROVE  unflagged \subseteq {p}
<1>1. unflagged \subseteq PageId
  BY DEF IInv, TypeOK
<1> QED BY <1>1 DEF IInv, UnflaggedHeld, OnlyHeld

LEMMA UnpinStep ==
    ASSUME IInv, NEW p, OnlyHeld(p), NEW flag \in BOOLEAN, UnpinPage(p, flag)
    PROVE  /\ IInv' /\ NoneHeld' /\ unflagged' = {} /\ next_page_id' = next_page_id
           /\ flag \/ unflagged = {} => contents' = contents
           /\ ~flag /\ p \in unflagged => contents' = [contents EXCEPT ![p] = Unwritten]
<1>1. p \in PageId /\ held[p] = 1
  BY DEF OnlyHeld
<1>2. IInv' /\ Store!Unpin(p, flag)
  BY <1>1, UnpinPageLemma
<1>3. unflagged' = {}
  BY <1>2, OnlyUnflagged DEF Store!Unpin
<1>4. NoneHeld'
  <2>1. held' = [held EXCEPT ![p] = @ - 1] /\ held \in [PageId -> 0 .. MaxPins]
    BY DEF UnpinPage, IInv, TypeOK
  <2> QED BY <1>1, <2>1 DEF OnlyHeld, NoneHeld
<1> QED BY <1>2, <1>3, <1>4 DEF Store!Unpin

LEMMA WriteStep ==
    ASSUME IInv, NEW p, OnlyHeld(p), NEW d, PageOK(d), WriteData(p, d)
    PROVE  /\ IInv' /\ OnlyHeld(p)' /\ unflagged' = unflagged \cup {p}
           /\ contents' = [contents EXCEPT ![p] = d] /\ next_page_id' = next_page_id
<1>1. p \in PageId /\ d \in Data
  BY PageIsData DEF OnlyHeld
<1>2. IInv' /\ Store!Write(p, d)
  BY <1>1, WriteDataLemma
<1> QED BY <1>2 DEF Store!Write, OnlyHeld

LEMMA NewPageStep ==
    ASSUME IInv, NoneHeld, NEW p, p = next_page_id, NewPage
    PROVE  /\ IInv' /\ p \in PageId /\ contents[p] = Unwritten
           /\ next_page_id' = p + 1 /\ UNCHANGED <<contents, unflagged>>
           /\ \A q \in PageId : held'[q] = IF q = p THEN 1 ELSE 0
<1>1. IInv' /\ Store!Allocate
  BY NewPageLemma
<1>2. p \in PageId /\ p \notin written
  BY PoolAssumption DEF NewPage, IInv, TypeOK, OnlyAllocated, PageId
<1>3. held' = [held EXCEPT ![p] = 1] /\ held \in [PageId -> 0 .. MaxPins]
  BY DEF NewPage, IInv, TypeOK
<1>4. \A q \in PageId : held'[q] = IF q = p THEN 1 ELSE 0
  BY <1>3 DEF NoneHeld
<1>5. contents[p] = Unwritten
  BY <1>2 DEF contents
<1> QED BY <1>1, <1>2, <1>4, <1>5 DEF Store!Allocate

\* With no page pinned some frame is free or unpinned: no fetch fails.
LEMMA FrameThere ==
    ASSUME IInv, NoneHeld
    PROVE  FrameAvailable
<1>1. 0 \in Frame
  BY PoolAssumption DEF Frame
<1>2. held \in [PageId -> 0 .. MaxPins]
  BY DEF IInv, TypeOK
<1> QED BY <1>1, <1>2, ExhaustionLemma DEF NoSpuriousExhaustion, NoneHeld

-------------------------------------------------------------------------------
(* The records.                                                               *)

RowAt(page, s) ==
    IF page = Unwritten THEN Absent
    ELSE IF s >= Len(page.rows) THEN Absent ELSE page.rows[s + 1]

LEMMA RecordFacts ==
    /\ records = [r \in RecordId |-> RowAt(contents[r.page_id], r.slot_id)]
    /\ records' = [r \in RecordId |-> RowAt(contents'[r.page_id], r.slot_id)]
    /\ contents' = contents => records' = records
<1>1. records = [r \in RecordId |-> RowAt(contents[r.page_id], r.slot_id)]
  BY DEF records, RowAt
<1>2. records' = [r \in RecordId |-> RowAt(contents'[r.page_id], r.slot_id)]
  BY DEF records, RowAt
<1> QED BY <1>1, <1>2

LEMMA RecordsWritten ==
    ASSUME IInv, NEW p \in PageId, NEW d, contents' = [contents EXCEPT ![p] = d]
    PROVE  \A r \in RecordId :
              records'[r] = IF r.page_id = p THEN RowAt(d, r.slot_id) ELSE records[r]
<1> SUFFICES ASSUME NEW r \in RecordId
             PROVE  records'[r] = IF r.page_id = p THEN RowAt(d, r.slot_id) ELSE records[r]
  OBVIOUS
<1>1. r.page_id \in PageId
  BY DEF RecordId
<1>2. contents'[r.page_id] = IF r.page_id = p THEN d ELSE contents[r.page_id]
  BY <1>1, ContentsFacts
<1>3. /\ records[r] = RowAt(contents[r.page_id], r.slot_id)
      /\ records'[r] = RowAt(contents'[r.page_id], r.slot_id)
  BY RecordFacts
<1> QED BY <1>2, <1>3

\* The records are the same when every row is.
LEMMA RecordsSame ==
    ASSUME \A r \in RecordId : records'[r] = records[r]
    PROVE  records' = records
<1>1. /\ records = [r \in RecordId |-> records[r]]
      /\ records' = [r \in RecordId |-> records'[r]]
  BY RecordFacts
<1> QED BY <1>1

\* One record changes.
LEMMA OneRecord ==
    ASSUME NEW rid \in RecordId, NEW row,
           \A r \in RecordId : records'[r] = IF r = rid THEN row ELSE records[r]
    PROVE  records' = [records EXCEPT ![rid] = row]
<1>1. /\ records = [r \in RecordId |-> records[r]]
      /\ records' = [r \in RecordId |-> records'[r]]
  BY RecordFacts
<1> QED BY <1>1

-------------------------------------------------------------------------------
(* What every step must be: it keeps the invariant, is a step of the record   *)
(* store or none at all, and adds a page only when no listed page has room.   *)

Sound ==
    /\ RInv'
    /\ [Records!Next]_records
    /\ next_page_id' # next_page_id => FullUpTo(Len(page_ids), op.tuple)

LEMMA QuietPages ==
    ASSUME PagesOK, UNCHANGED <<contents, page_ids, next_page_id>>
    PROVE  /\ PagesOK' /\ records' = records
           /\ \A p : Listed(p) => Listed(p)'
<1>1. PagesOK'
  BY DEF PagesOK
<1>2. \A p : Listed(p) => \E i \in 1 .. Len(page_ids') : page_ids'[i] = p
  BY DEF Listed
<1> QED BY <1>1, <1>2, RecordFacts DEF Listed

LEMMA CallInsertOK ==
    ASSUME RInv, NEW d \in Tuples, CallInsert(d)
    PROVE  Sound
<1>1. IdleOK /\ PagesOK /\ IInv
  BY OpKind DEF RInv, CallInsert
<1>2. /\ UNCHANGED vars /\ UNCHANGED page_ids
      /\ op' = [call |-> "Insert", tuple |-> d, phase |-> "probe", i |-> 1,
                at |-> "fetch", rid |-> InvalidRecord]
  BY DEF CallInsert
<1>3. IInv' /\ UNCHANGED <<next_page_id, contents, held, unflagged>>
  BY <1>1, <1>2, StutterLemma DEF storeVars
<1>4. PagesOK' /\ records' = records
  BY <1>1, <1>2, <1>3, QuietPages
<1>5. LoopOK'
  <2>1. op' \in [call : {"Insert"}, tuple : Tuples, phase : {"probe", "compact"},
                 i : Nat \ {0}, at : Steps, rid : RecordId \cup {InvalidRecord}]
    BY <1>2 DEF Steps
  <2>2. ListedBut({})' /\ NoneHeld'
    BY <1>1, <1>2, <1>3 DEF IdleOK, ListedBut, Listed, NoneHeld
  <2> QED BY <1>1, <1>2, <1>3, <2>1, <2>2 DEF LoopOK, IdleOK
<1> QED BY <1>3, <1>4, <1>5 DEF Sound, RInv

LEMMA InsertFetchOK ==
    ASSUME RInv, InsertFetch
    PROVE  Sound
<1>1. LoopOK /\ PagesOK /\ IInv /\ op.at = "fetch"
  BY OpKind DEF RInv, InsertFetch
<1>2. NoneHeld /\ op.i \in Nat \ {0} /\ op.i <= Len(page_ids)
  BY <1>1 DEF LoopOK, InsertFetch
<1>3. PICK p \in PageId : p = page_ids[op.i]
  BY <1>1, <1>2 DEF PagesOK
<1>4. /\ FetchPage(p) /\ op' = [op EXCEPT !.at = "access"] /\ UNCHANGED <<page_ids, result>>
  <2>1. FrameAvailable
    BY <1>1, <1>2, FrameThere
  <2>2. ~FetchFails(p)
    BY <2>1 DEF FetchFails
  <2> QED BY <1>3, <2>2 DEF InsertFetch
<1>5. IInv' /\ OnlyHeld(p)' /\ UNCHANGED <<contents, unflagged, next_page_id>>
  BY <1>1, <1>2, <1>3, <1>4, FetchStep
<1>6. PagesOK' /\ records' = records
  BY <1>1, <1>4, <1>5, QuietPages
<1>7. LoopOK'
  <2>1. /\ op' \in [call : {"Insert"}, tuple : Tuples, phase : {"probe", "compact"},
                    i : Nat \ {0}, at : Steps, rid : RecordId \cup {InvalidRecord}]
        /\ op'.at = "access" /\ op'.i = op.i /\ op'.rid = op.rid /\ op'.phase = op.phase
        /\ op'.tuple = op.tuple
    BY <1>1, <1>4 DEF LoopOK, Steps
  <2>2. ListedBut({})'
    BY <1>1, <1>4, <1>5 DEF LoopOK, ListedBut, Listed
  <2>3. \A n, d : FullUpTo(n, d) =>
            \A j \in 1 .. Len(page_ids') : j <= n => ~Fits(Compact(contents'[page_ids'[j]]), d)
    BY <1>4, <1>5 DEF FullUpTo
  <2>4. op'.phase = "compact" => FullUpTo(op.i - 1, op.tuple)
    BY <1>1, <2>1 DEF LoopOK
  <2>5. (op.phase = "compact" => FullUpTo(op.i - 1, op.tuple))'
    BY <2>1, <2>3, <2>4 DEF FullUpTo
  <2>6. op'.i <= Len(page_ids') /\ page_ids'[op'.i] = p
    BY <1>2, <1>3, <1>4, <2>1
  <2>7. OnlyHeld(page_ids[op.i])'
    BY <1>5, <2>6 DEF OnlyHeld
  <2>8. op.rid = InvalidRecord /\ unflagged = {}
    BY <1>1 DEF LoopOK
  <2> QED BY <1>5, <2>1, <2>2, <2>5, <2>6, <2>7, <2>8 DEF LoopOK
<1> QED BY <1>5, <1>6, <1>7 DEF Sound, RInv

LEMMA PagesWritten ==
    ASSUME IInv, PagesOK, NEW p \in PageId, NEW d, PageOK(d),
           contents' = [contents EXCEPT ![p] = d], UNCHANGED <<page_ids, next_page_id>>
    PROVE  /\ PagesOK'
           /\ \A q \in PageId : contents'[q] = IF q = p THEN d ELSE contents[q]
<1>1. \A q \in PageId : contents'[q] = IF q = p THEN d ELSE contents[q]
  BY ContentsFacts
<1>2. d # Unwritten
  BY PageIsData
<1>3. \A i \in 1 .. Len(page_ids) : page_ids[i] \in PageId
  BY DEF PagesOK
<1>4. \A i \in 1 .. Len(page_ids) : contents'[page_ids[i]] # Unwritten
  BY <1>1, <1>2, <1>3 DEF PagesOK
<1>5. \A q \in PageId : contents'[q] # Unwritten => PageOK(contents'[q])
  BY <1>1 DEF PagesOK
<1>6. PagesOK'
  BY <1>4, <1>5 DEF PagesOK
<1> QED BY <1>1, <1>6

LEMMA CompactTwice ==
    ASSUME NEW page, PageOK(page)
    PROVE  Compact(Compact(page)).free = Compact(page).free
<1>1. Compact(page) \in [rows : Seq(Row), free : Nat] /\ Compact(page).rows = page.rows
  BY CompactOK DEF PageOK
<1>2. page \in [rows : Seq(Row), free : Nat]
  BY DEF PageOK
<1>3. Compact(page).free = Capacity - Used(page.rows)
  BY <1>2 DEF Compact
<1>4. Compact(Compact(page)).free = Capacity - Used(Compact(page).rows)
  <2> DEFINE c == Compact(page)
  <2>1. c \in [rows : Seq(Row), free : Nat]
    BY <1>1
  <2> HIDE DEF c
  <2>2. Compact(c).free = Capacity - Used(c.rows)
    BY <2>1 DEF Compact
  <2> QED BY <2>2 DEF c
<1> QED BY <1>1, <1>3, <1>4

\* Page p has the rows of `page`.
SameRows(p, page) == \A s \in 0 .. Capacity : RowAt(contents[p], s) = RowAt(page, s)

\* A row is appended to page p.
Appends(p, page, d, rid) ==
    /\ PageOK(page) /\ Fits(page, d) /\ SameRows(p, page)
    /\ contents' = [contents EXCEPT ![p] = InsertRow(page, d)]
    /\ rid = [page_id |-> p, slot_id |-> NewSlotId(page)]

LEMMA RowAppended ==
    ASSUME IInv, NEW p \in PageId, NEW page, NEW d \in Tuples, NEW rid,
           Appends(p, page, d, rid)
    PROVE  /\ PageOK(InsertRow(page, d))
           /\ rid \in RecordId /\ records'[rid] = d /\ Records!Insert(rid, d)
<1> DEFINE new == InsertRow(page, d)
           rows == page.rows
<1>0. /\ PageOK(page) /\ Fits(page, d) /\ SameRows(p, page)
      /\ contents' = [contents EXCEPT ![p] = InsertRow(page, d)]
      /\ rid = [page_id |-> p, slot_id |-> NewSlotId(page)]
  BY DEF Appends
<1>1. PageOK(new) /\ new.rows = Append(rows, d) /\ Len(rows) < Capacity
  BY <1>0, InsertRowOK
<1>2. rows \in Seq(Row) /\ d \in Row /\ Len(rows) \in 0 .. Capacity
  BY <1>0, PageBounds DEF PageOK, Row
<1>3. rid \in RecordId /\ rid.page_id = p /\ rid.slot_id = Len(rows)
  BY <1>0, <1>2 DEF RecordId, NewSlotId
<1>4. page # Unwritten /\ new # Unwritten
  BY <1>0, <1>1, PageIsData
<1> HIDE DEF new
<1>5. ASSUME NEW s \in 0 .. Capacity
      PROVE  RowAt(new, s) = IF s = Len(rows) THEN d ELSE RowAt(page, s)
  <2> HIDE DEF rows
  <2>1. /\ Len(Append(rows, d)) = Len(rows) + 1 /\ Append(rows, d)[Len(rows) + 1] = d
        /\ \A k \in 1 .. Len(rows) : Append(rows, d)[k] = rows[k]
    BY <1>2
  <2>2. RowAt(new, s) = IF s >= Len(rows) + 1 THEN Absent ELSE Append(rows, d)[s + 1]
    BY <1>1, <1>4, <2>1 DEF RowAt
  <2>3. RowAt(page, s) = IF s >= Len(rows) THEN Absent ELSE rows[s + 1]
    BY <1>4 DEF RowAt, rows
  <2>4. CASE s < Len(rows)
    BY <1>2, <2>1, <2>2, <2>3, <2>4
  <2>5. CASE s = Len(rows)
    BY <1>2, <2>1, <2>2, <2>5
  <2>6. CASE s > Len(rows)
    BY <1>2, <2>2, <2>3, <2>6
  <2> QED BY <1>2, <2>4, <2>5, <2>6
<1>6. contents' = [contents EXCEPT ![p] = new]
  BY <1>0 DEF new
<1>7. \A r \in RecordId :
         records'[r] = IF r.page_id = p THEN RowAt(new, r.slot_id) ELSE records[r]
  BY <1>6, RecordsWritten
<1>8. \A r \in RecordId : records[r] = RowAt(contents[r.page_id], r.slot_id)
  BY RecordFacts
<1>9. ASSUME NEW r \in RecordId PROVE records'[r] = IF r = rid THEN d ELSE records[r]
  <2>1. r.slot_id \in 0 .. Capacity /\ r = [page_id |-> r.page_id, slot_id |-> r.slot_id]
    BY DEF RecordId
  <2>2. rid = [page_id |-> rid.page_id, slot_id |-> rid.slot_id]
    BY <1>3 DEF RecordId
  <2>3. CASE r.page_id # p
    BY <1>3, <1>7, <2>3
  <2>4. CASE r.page_id = p
    BY <1>0, <1>3, <1>5, <1>7, <1>8, <2>1, <2>2, <2>4 DEF SameRows
  <2> QED BY <2>3, <2>4
<1>10. records[rid] = Absent
  <2>1. records[rid] = RowAt(page, Len(rows))
    BY <1>0, <1>2, <1>3, <1>8 DEF SameRows
  <2> QED BY <1>2, <1>4, <2>1 DEF RowAt
<1>11. records' = [records EXCEPT ![rid] = d]
  BY <1>3, <1>9, OneRecord
<1> QED BY <1>1, <1>3, <1>9, <1>10, <1>11 DEF new, Records!Insert

\* FullUpTo over the contents c.
Full(c, n, d) == \A j \in 1 .. Len(page_ids) : j <= n => ~Fits(Compact(c[page_ids[j]]), d)

\* The access to a page of the loop is done.
LEMMA LoopAccessed ==
    ASSUME LoopOK, op.at = "access", NEW p \in PageId, p = page_ids[op.i], OnlyHeld(p)',
           UNCHANGED page_ids,
           \A q \in PageId : contents'[q] # Unwritten => contents[q] # Unwritten,
           NEW rid \in RecordId \cup {InvalidRecord},
           op' = [op EXCEPT !.at = "unpin", !.rid = rid],
           unflagged' = {} \/ op.phase = "compact" \/ rid # InvalidRecord,
           rid # InvalidRecord => records'[rid] = op.tuple,
           op.phase = "compact" => Full(contents', op.i - 1, op.tuple),
           op.phase = "compact" /\ rid = InvalidRecord => Full(contents', op.i, op.tuple)
    PROVE  LoopOK'
<1>1. /\ op' \in [call : {"Insert"}, tuple : Tuples, phase : {"probe", "compact"},
                  i : Nat \ {0}, at : Steps, rid : RecordId \cup {InvalidRecord}]
      /\ op'.at = "unpin" /\ op'.rid = rid /\ op'.i = op.i /\ op'.phase = op.phase
      /\ op'.tuple = op.tuple /\ op.i <= Len(page_ids)
  BY DEF LoopOK, Steps
<1>2. ListedBut({})'
  <2>1. \A q \in PageId : contents[q] # Unwritten => \E i \in 1 .. Len(page_ids) : page_ids[i] = q
    BY DEF LoopOK, ListedBut, Listed
  <2> QED BY <2>1 DEF ListedBut, Listed
<1>3. OnlyHeld(page_ids[op.i])'
  BY <1>1 DEF OnlyHeld
<1>4. op'.rid # InvalidRecord => op'.rid \in RecordId /\ records'[op'.rid] = op'.tuple
  BY <1>1
<1>5. (op.phase = "compact" => FullUpTo(op.i - 1, op.tuple))'
  BY <1>1 DEF FullUpTo, Full
<1>6. (op.phase = "compact" /\ op.rid = InvalidRecord => FullUpTo(op.i, op.tuple))'
  BY <1>1 DEF FullUpTo, Full
<1>7. (unflagged = {} \/ InsertUnpinFlag)'
  BY <1>1 DEF InsertUnpinFlag
<1> QED BY <1>1, <1>2, <1>3, <1>4, <1>5, <1>6, <1>7 DEF LoopOK

LEMMA InsertAccessOK ==
    ASSUME RInv, InsertAccess
    PROVE  Sound
<1>1. LoopOK /\ PagesOK /\ IInv /\ op.at = "access"
  BY OpKind DEF RInv, InsertAccess
<1>2. /\ op.i \in 1 .. Len(page_ids) /\ op.rid = InvalidRecord /\ unflagged = {}
      /\ op \in [call : {"Insert"}, tuple : Tuples, phase : {"probe", "compact"},
                 i : Nat \ {0}, at : Steps, rid : RecordId \cup {InvalidRecord}]
  <2>1. op.i \in Nat \ {0} /\ op.i <= Len(page_ids) /\ Len(page_ids) \in Nat
    BY <1>1 DEF LoopOK, PagesOK
  <2> QED BY <1>1, <2>1 DEF LoopOK
<1>3. PICK p \in PageId : p = page_ids[op.i]
  BY <1>1, <1>2 DEF PagesOK
<1>4. /\ OnlyHeld(p) /\ held[p] = 1 /\ contents[p] # Unwritten /\ PageOK(contents[p])
  BY <1>1, <1>2, <1>3 DEF LoopOK, PagesOK, OnlyHeld
<1>5. Image(p) = contents[p]
  BY <1>1, <1>4, ContentsFacts
<1>6. PICK d \in Tuples : d = op.tuple
  BY <1>2
<1>7. PICK page : page = IF op.phase = "probe" THEN Image(p) ELSE Compact(Image(p))
  OBVIOUS
<1>8. PageOK(page) /\ page.rows = contents[p].rows /\ page # Unwritten
  BY <1>4, <1>5, <1>7, CompactOK, PageIsData
<1>9. SameRows(p, page)
  BY <1>4, <1>8 DEF SameRows, RowAt
<1>10. UNCHANGED <<page_ids, result>>
  BY DEF InsertAccess
<1>11. CASE Fits(page, d)
  <2>1. PICK rid : rid = [page_id |-> p, slot_id |-> NewSlotId(page)]
    OBVIOUS
  <2>2. /\ WriteData(p, InsertRow(page, d))
        /\ op' = [op EXCEPT !.at = "unpin", !.rid = rid]
    BY <1>3, <1>6, <1>7, <1>11, <2>1 DEF InsertAccess
  <2>3. PageOK(InsertRow(page, d))
    BY <1>8, <1>11, InsertRowOK
  <2>4. /\ IInv' /\ OnlyHeld(p)'
        /\ contents' = [contents EXCEPT ![p] = InsertRow(page, d)]
        /\ next_page_id' = next_page_id
    BY <1>1, <1>4, <2>2, <2>3, WriteStep
  <2>5. rid \in RecordId /\ records'[rid] = d /\ Records!Insert(rid, d)
    <3>1. Appends(p, page, d, rid)
      BY <1>8, <1>9, <1>11, <2>1, <2>4 DEF Appends
    <3>2. IInv
      BY <1>1
    <3> QED BY <3>1, <3>2, RowAppended
  <2>6. rid # InvalidRecord
    <3>1. rid.page_id = p /\ InvalidRecord.page_id = INVALID_PAGE_ID
      BY <2>1 DEF InvalidRecord
    <3> QED BY <3>1 DEF PageId, INVALID_PAGE_ID
  <2>7. /\ PagesOK'
        /\ \A q \in PageId : contents'[q] = IF q = p THEN InsertRow(page, d) ELSE contents[q]
    BY <1>1, <1>10, <2>3, <2>4, PagesWritten
  <2>8. op.phase = "compact" => Full(contents', op.i - 1, op.tuple)
    <3> SUFFICES ASSUME op.phase = "compact", NEW j \in 1 .. Len(page_ids), j <= op.i - 1
                 PROVE  ~Fits(Compact(contents'[page_ids[j]]), op.tuple)
      BY DEF Full
    <3>1. FullUpTo(op.i - 1, op.tuple)
      BY <1>1 DEF LoopOK
    <3>2. page_ids[j] \in PageId /\ page_ids[j] # p
      BY <1>1, <1>2, <1>3 DEF PagesOK
    <3> QED BY <2>7, <3>1, <3>2 DEF FullUpTo
  <2>9. \A q \in PageId : contents'[q] # Unwritten => contents[q] # Unwritten
    BY <1>4, <2>7
  <2>10. LoopOK'
    BY <1>1, <1>3, <1>6, <1>10, <2>2, <2>4, <2>5, <2>6, <2>8, <2>9, LoopAccessed
  <2>11. Records!Next
    BY <2>5 DEF Records!Next
  <2> QED BY <2>4, <2>7, <2>10, <2>11 DEF Sound, RInv
<1>12. CASE ~Fits(page, d) /\ op.phase = "probe"
  <2>1. UNCHANGED vars /\ op' = [op EXCEPT !.at = "unpin"]
    BY <1>3, <1>6, <1>7, <1>12 DEF InsertAccess
  <2>2. IInv' /\ UNCHANGED <<next_page_id, contents, held, unflagged>>
    BY <1>1, <2>1, StutterLemma DEF storeVars
  <2>3. PagesOK' /\ records' = records
    BY <1>1, <1>10, <2>2, QuietPages
  <2>4. OnlyHeld(p)'
    BY <1>4, <2>2 DEF OnlyHeld
  <2>5. op' = [op EXCEPT !.at = "unpin", !.rid = InvalidRecord]
    BY <1>2, <2>1
  <2>6. LoopOK'
    BY <1>1, <1>2, <1>3, <1>10, <1>12, <2>2, <2>4, <2>5, LoopAccessed
  <2> QED BY <2>2, <2>3, <2>6 DEF Sound, RInv
<1>13. CASE ~Fits(page, d) /\ op.phase # "probe"
  <2>1. WriteData(p, page) /\ op' = [op EXCEPT !.at = "unpin"]
    BY <1>3, <1>6, <1>7, <1>13 DEF InsertAccess
  <2>2. /\ IInv' /\ OnlyHeld(p)' /\ contents' = [contents EXCEPT ![p] = page]
        /\ next_page_id' = next_page_id
    BY <1>1, <1>4, <1>8, <2>1, WriteStep
  <2>3. /\ PagesOK'
        /\ \A q \in PageId : contents'[q] = IF q = p THEN page ELSE contents[q]
    BY <1>1, <1>8, <1>10, <2>2, PagesWritten
  <2>4. records' = records
    <3>1. \A r \in RecordId :
             records'[r] = IF r.page_id = p THEN RowAt(page, r.slot_id) ELSE records[r]
      BY <1>1, <2>2, RecordsWritten
    <3>2. ASSUME NEW r \in RecordId PROVE records'[r] = records[r]
      <4>1. records[r] = RowAt(contents[r.page_id], r.slot_id) /\ r.slot_id \in 0 .. Capacity
        BY RecordFacts DEF RecordId
      <4> QED BY <1>9, <3>1, <4>1 DEF SameRows
    <3> QED BY <3>2, RecordsSame
  <2>5. ~Fits(Compact(page), d)
    <3>1. page = Compact(contents[p])
      BY <1>5, <1>7, <1>13
    <3>2. Compact(page).free = page.free
      BY <1>4, <3>1, CompactTwice
    <3> QED BY <1>13, <3>2 DEF Fits
  <2>6. Full(contents', op.i, op.tuple)
    <3> SUFFICES ASSUME NEW j \in 1 .. Len(page_ids), j <= op.i
                 PROVE  ~Fits(Compact(contents'[page_ids[j]]), op.tuple)
      BY DEF Full
    <3>1. FullUpTo(op.i - 1, op.tuple)
      BY <1>1, <1>2, <1>13 DEF LoopOK
    <3>2. CASE j = op.i
      BY <1>3, <1>6, <2>3, <2>5, <3>2
    <3>3. CASE j # op.i
      <4>1. page_ids[j] \in PageId /\ page_ids[j] # p
        BY <1>1, <1>2, <1>3, <3>3 DEF PagesOK
      <4>2. j <= op.i - 1
        BY <1>2, <3>3
      <4> QED BY <2>3, <3>1, <4>1, <4>2 DEF FullUpTo
    <3> QED BY <3>2, <3>3
  <2>7. Full(contents', op.i - 1, op.tuple)
    BY <1>2, <2>6 DEF Full
  <2>8. op' = [op EXCEPT !.at = "unpin", !.rid = InvalidRecord] /\ op.phase = "compact"
    BY <1>2, <1>13, <2>1
  <2>9. \A q \in PageId : contents'[q] # Unwritten => contents[q] # Unwritten
    BY <1>4, <2>3
  <2>10. LoopOK'
    BY <1>1, <1>3, <1>10, <2>2, <2>6, <2>7, <2>8, <2>9, LoopAccessed
  <2> QED BY <2>2, <2>3, <2>4, <2>10 DEF Sound, RInv
<1> QED BY <1>11, <1>12, <1>13

LEMMA InsertUnpinOK ==
    ASSUME RInv, InsertUnpin
    PROVE  Sound
<1>1. LoopOK /\ PagesOK /\ IInv /\ op.at = "unpin"
  BY OpKind DEF RInv, InsertUnpin
<1>2. /\ op.i \in 1 .. Len(page_ids)
      /\ op \in [call : {"Insert"}, tuple : Tuples, phase : {"probe", "compact"},
                 i : Nat \ {0}, at : Steps, rid : RecordId \cup {InvalidRecord}]
  <2>1. op.i \in Nat \ {0} /\ op.i <= Len(page_ids) /\ Len(page_ids) \in Nat
    BY <1>1 DEF LoopOK, PagesOK
  <2> QED BY <1>1, <2>1 DEF LoopOK
<1>3. PICK p \in PageId : p = page_ids[op.i]
  BY <1>1, <1>2 DEF PagesOK
<1>4. OnlyHeld(p)
  BY <1>1, <1>3 DEF LoopOK
<1>5. PICK flag \in BOOLEAN : flag = InsertUnpinFlag
  BY DEF InsertUnpinFlag
<1>6. UnpinPage(p, flag) /\ UNCHANGED page_ids
  BY <1>3, <1>5 DEF InsertUnpin
<1>7. /\ IInv' /\ NoneHeld' /\ unflagged' = {} /\ contents' = contents
      /\ next_page_id' = next_page_id
  <2>1. flag \/ unflagged = {}
    BY <1>1, <1>5 DEF LoopOK
  <2> QED BY <1>1, <1>4, <1>6, <2>1, UnpinStep
<1>8. PagesOK' /\ records' = records
  BY <1>1, <1>6, <1>7, QuietPages
<1>9. ListedBut({})'
  BY <1>1, <1>6, <1>7 DEF LoopOK, ListedBut, Listed
<1>10. CASE op.rid # InvalidRecord
  <2>1. op' = NoCall /\ result' = [call |-> "Insert", tuple |-> op.tuple, rid |-> op.rid]
    BY <1>10 DEF InsertUnpin, Return
  <2>2. /\ result' \in [call : {"Insert"}, tuple : Tuples, rid : RecordId \cup {InvalidRecord}]
        /\ result'.rid = op.rid /\ result'.tuple = op.tuple
    BY <1>2, <2>1
  <2>3. records'[result'.rid] = result'.tuple
    BY <1>1, <1>8, <1>10, <2>2 DEF LoopOK
  <2>4. IdleOK'
    BY <1>7, <1>9, <1>10, <2>1, <2>2, <2>3 DEF IdleOK
  <2> QED BY <1>7, <1>8, <2>4 DEF Sound, RInv
<1>11. CASE op.rid = InvalidRecord
  <2>1. op' = [op EXCEPT !.i = op.i + 1, !.at = "fetch"]
    BY <1>11 DEF InsertUnpin
  <2>2. /\ op' \in [call : {"Insert"}, tuple : Tuples, phase : {"probe", "compact"},
                    i : Nat \ {0}, at : Steps, rid : RecordId \cup {InvalidRecord}]
        /\ op'.at = "fetch" /\ op'.i - 1 = op.i /\ op'.rid = op.rid /\ op'.phase = op.phase
        /\ op'.tuple = op.tuple
    <3>1. PICK s : s = [op EXCEPT !.i = op.i + 1]
      OBVIOUS
    <3>2. /\ s \in [call : {"Insert"}, tuple : Tuples, phase : {"probe", "compact"},
                     i : Nat \ {0}, at : Steps, rid : RecordId \cup {InvalidRecord}]
          /\ s.i = op.i + 1 /\ s.rid = op.rid /\ s.phase = op.phase /\ s.tuple = op.tuple
      BY <1>2, <3>1
    <3>3. op' = [s EXCEPT !.at = "fetch"]
      BY <2>1, <3>1
    <3>4. op.i \in Int
      BY <1>2
    <3> QED BY <3>2, <3>3, <3>4 DEF Steps
  <2>3. op.phase = "compact" => FullUpTo(op.i, op.tuple)
    BY <1>1, <1>11 DEF LoopOK
  <2>4. (op.phase = "compact" => FullUpTo(op.i - 1, op.tuple))'
    BY <1>6, <1>7, <2>2, <2>3 DEF FullUpTo
  <2>5. LoopOK'
    BY <1>7, <1>9, <1>11, <2>2, <2>4 DEF LoopOK
  <2> QED BY <1>7, <1>8, <2>5 DEF Sound, RInv
<1> QED BY <1>10, <1>11

LEMMA InsertLoopEndOK ==
    ASSUME RInv, InsertLoopEnd
    PROVE  Sound
<1>1. /\ LoopOK /\ PagesOK /\ IInv /\ op.at = "fetch" /\ op.i > Len(page_ids)
      /\ UNCHANGED vars /\ UNCHANGED page_ids
  BY OpKind DEF RInv, InsertLoopEnd
<1>2. IInv' /\ UNCHANGED <<next_page_id, contents, held, unflagged>>
  BY <1>1, StutterLemma DEF storeVars
<1>3. PagesOK' /\ records' = records
  BY <1>1, <1>2, QuietPages
<1>4. /\ op \in [call : {"Insert"}, tuple : Tuples, phase : {"probe", "compact"},
                 i : Nat \ {0}, at : Steps, rid : RecordId \cup {InvalidRecord}]
      /\ op.rid = InvalidRecord /\ unflagged = {} /\ NoneHeld /\ Len(page_ids) \in Nat
  BY <1>1 DEF LoopOK, PagesOK
<1>5. NoneHeld' /\ ListedBut({})'
  BY <1>1, <1>2, <1>4 DEF LoopOK, ListedBut, Listed, NoneHeld
<1>6. CASE op.phase = "probe"
  <2>1. op' = [op EXCEPT !.phase = "compact", !.i = 1]
    BY <1>6 DEF InsertLoopEnd, PhaseAfterProbe
  <2>2. /\ op' \in [call : {"Insert"}, tuple : Tuples, phase : {"probe", "compact"},
                    i : Nat \ {0}, at : Steps, rid : RecordId \cup {InvalidRecord}]
        /\ op'.at = "fetch" /\ op'.i = 1 /\ op'.rid = InvalidRecord
    <3>1. PICK s : s = [op EXCEPT !.phase = "compact"]
      OBVIOUS
    <3>2. /\ s \in [call : {"Insert"}, tuple : Tuples, phase : {"probe", "compact"},
                     i : Nat \ {0}, at : Steps, rid : RecordId \cup {InvalidRecord}]
          /\ s.at = "fetch" /\ s.rid = InvalidRecord
      BY <1>1, <1>4, <3>1
    <3>3. op' = [s EXCEPT !.i = 1]
      BY <2>1, <3>1
    <3> QED BY <3>2, <3>3
  <2>3. FullUpTo(op.i - 1, op.tuple)'
    BY <1>1, <1>4, <2>2 DEF FullUpTo
  <2>4. LoopOK'
    BY <1>2, <1>4, <1>5, <2>2, <2>3 DEF LoopOK
  <2> QED BY <1>2, <1>3, <2>4 DEF Sound, RInv
<1>7. CASE op.phase = "compact"
  <2>1. op' = [op EXCEPT !.phase = "new"]
    BY <1>7 DEF InsertLoopEnd
  <2>2. /\ op' \in [call : {"Insert"}, tuple : Tuples, phase : {"new"},
                    i : Nat \ {0}, at : Steps, rid : RecordId \cup {InvalidRecord}]
        /\ op'.at = "fetch" /\ op'.rid = InvalidRecord /\ op'.tuple = op.tuple
    BY <1>1, <1>4, <2>1
  <2>3. FullUpTo(Len(page_ids), op.tuple)
    <3>1. FullUpTo(op.i - 1, op.tuple)
      BY <1>1, <1>7 DEF LoopOK
    <3> QED BY <1>1, <1>4, <3>1 DEF FullUpTo
  <2>4. FullUpTo(Len(page_ids), op.tuple)'
    BY <1>1, <1>2, <2>2, <2>3 DEF FullUpTo
  <2>5. ListedBut({op.rid.page_id})'
    BY <1>5 DEF ListedBut
  <2>6. NewOK'
    BY <1>2, <1>4, <1>5, <2>2, <2>4, <2>5 DEF NewOK
  <2> QED BY <1>2, <1>3, <2>6 DEF Sound, RInv
<1> QED BY <1>4, <1>6, <1>7

LEMMA InsertNewPageOK ==
    ASSUME RInv, InsertNewPage
    PROVE  Sound
<1>1. NewOK /\ PagesOK /\ IInv /\ op.at = "fetch"
  BY OpKind DEF RInv, InsertNewPage
<1>2. /\ op \in [call : {"Insert"}, tuple : Tuples, phase : {"new"},
                 i : Nat \ {0}, at : Steps, rid : RecordId \cup {InvalidRecord}]
      /\ NoneHeld /\ op.rid = InvalidRecord /\ unflagged = {}
      /\ FullUpTo(Len(page_ids), op.tuple)
  BY <1>1 DEF NewOK
<1>3. PICK p : p = next_page_id
  OBVIOUS
<1>4. PICK rid : rid = [page_id |-> p, slot_id |-> 0]
  OBVIOUS
<1>5. NewPage /\ op' = [op EXCEPT !.at = "access", !.rid = rid] /\ UNCHANGED page_ids
  <2>1. FrameAvailable
    BY <1>1, <1>2, FrameThere
  <2> QED BY <1>3, <1>4, <2>1 DEF InsertNewPage
<1>6. /\ IInv' /\ p \in PageId /\ contents[p] = Unwritten
      /\ next_page_id' = p + 1 /\ UNCHANGED <<contents, unflagged>>
      /\ \A q \in PageId : held'[q] = IF q = p THEN 1 ELSE 0
  BY <1>1, <1>2, <1>3, <1>5, NewPageStep
<1>7. records' = records
  BY <1>6, RecordFacts
<1>8. p \in Int /\ \A i \in 1 .. Len(page_ids) : page_ids[i] \in Int /\ page_ids[i] < p
  <2>1. \A i \in 1 .. Len(page_ids) : page_ids[i] \in PageId
    BY <1>1 DEF PagesOK
  <2> QED BY <1>1, <1>3, <1>6, <2>1 DEF PagesOK, PageId
<1>9. PagesOK'
  BY <1>1, <1>5, <1>6, <1>8 DEF PagesOK
<1>10. NewOK'
  <2>1. rid \in RecordId /\ rid.page_id = p /\ rid.slot_id = 0
    BY <1>4, <1>6, RowAssumption DEF RecordId
  <2>2. /\ op' \in [call : {"Insert"}, tuple : Tuples, phase : {"new"},
                    i : Nat \ {0}, at : Steps, rid : RecordId \cup {InvalidRecord}]
        /\ op'.at = "access" /\ op'.rid = rid
    <3>1. PICK s : s = [op EXCEPT !.at = "access"]
      OBVIOUS
    <3>2. /\ s \in [call : {"Insert"}, tuple : Tuples, phase : {"new"},
                    i : Nat \ {0}, at : Steps, rid : RecordId \cup {InvalidRecord}]
          /\ s.at = "access"
      BY <1>2, <3>1 DEF Steps
    <3>3. op' = [s EXCEPT !.rid = rid]
      BY <1>5, <3>1
    <3> QED BY <2>1, <3>2, <3>3
  <2>3. ListedBut({op.rid.page_id})'
    <3>1. \A q \in PageId : contents[q] # Unwritten => \E i \in 1 .. Len(page_ids) : page_ids[i] = q
      <4>1. op.rid.page_id \notin PageId
        BY <1>2 DEF InvalidRecord, PageId, INVALID_PAGE_ID
      <4> QED BY <1>1, <4>1 DEF NewOK, ListedBut, Listed
    <3> QED BY <1>5, <1>6, <3>1 DEF ListedBut, Listed
  <2>4. OnlyHeld(op.rid.page_id)'
    BY <1>6, <2>1, <2>2 DEF OnlyHeld
  <2>5. ~Listed(op.rid.page_id)'
    BY <1>5, <1>8, <2>1, <2>2 DEF Listed
  <2>6. op'.rid.page_id < next_page_id' /\ contents'[op'.rid.page_id] = Unwritten
    BY <1>6, <1>8, <2>1, <2>2
  <2> QED BY <1>2, <1>6, <2>1, <2>2, <2>3, <2>4, <2>5, <2>6 DEF NewOK
<1> QED BY <1>2, <1>6, <1>7, <1>9, <1>10 DEF Sound, RInv

LEMMA EmptyPageRows ==
    \A s \in 0 .. Capacity : RowAt(EmptyPage, s) = Absent /\ RowAt(Unwritten, s) = Absent
<1>1. EmptyPage.rows = <<>> /\ EmptyPage # Unwritten
  BY EmptyPageOK, PageIsData DEF EmptyPage
<1> QED BY <1>1, RowAssumption DEF RowAt

\* The identifier of the row of a new page.
LEMMA NewRid ==
    ASSUME NewOK, op.at # "fetch"
    PROVE  /\ op.rid \in RecordId /\ op.rid # InvalidRecord
           /\ op.rid = [page_id |-> op.rid.page_id, slot_id |-> NewSlotId(EmptyPage)]
<1>1. op.rid.page_id \in PageId /\ op.rid.slot_id = 0
  BY DEF NewOK, OnlyHeld
<1>2. InvalidRecord.page_id \notin PageId
  BY DEF InvalidRecord, PageId, INVALID_PAGE_ID
<1>3. op.rid \in RecordId /\ op.rid # InvalidRecord
  BY <1>1, <1>2 DEF NewOK
<1>4. NewSlotId(EmptyPage) = 0
  BY DEF NewSlotId, EmptyPage
<1> QED BY <1>1, <1>3, <1>4 DEF RecordId

LEMMA InsertNewAccessOK ==
    ASSUME RInv, InsertNewAccess
    PROVE  Sound
<1>1. NewOK /\ PagesOK /\ IInv /\ op.at = "access"
  BY OpKind DEF RInv, InsertNewAccess
<1>2. /\ op \in [call : {"Insert"}, tuple : Tuples, phase : {"new"},
                 i : Nat \ {0}, at : Steps, rid : RecordId \cup {InvalidRecord}]
      /\ OnlyHeld(op.rid.page_id) /\ op.rid.slot_id = 0 /\ op.rid.page_id < next_page_id
      /\ ~Listed(op.rid.page_id) /\ contents[op.rid.page_id] = Unwritten
  BY <1>1 DEF NewOK
<1>3. PICK p \in PageId : p = op.rid.page_id
  BY <1>2 DEF OnlyHeld
<1>4. PICK d \in Tuples : d = op.tuple
  BY <1>2
<1>5. PICK page : page = IF Fits(EmptyPage, d) THEN InsertRow(EmptyPage, d) ELSE EmptyPage
  OBVIOUS
<1>6. PageOK(page)
  BY <1>5, EmptyPageOK, InsertRowOK
<1>7. WriteData(p, page) /\ op' = [op EXCEPT !.at = "unpin"] /\ UNCHANGED page_ids
  BY <1>3, <1>4, <1>5 DEF InsertNewAccess
<1>8. /\ IInv' /\ OnlyHeld(p)' /\ unflagged' = unflagged \cup {p}
      /\ contents' = [contents EXCEPT ![p] = page] /\ next_page_id' = next_page_id
  BY <1>1, <1>2, <1>3, <1>6, <1>7, WriteStep
<1>9. /\ PagesOK'
      /\ \A q \in PageId : contents'[q] = IF q = p THEN page ELSE contents[q]
  BY <1>1, <1>6, <1>7, <1>8, PagesWritten
<1>10. NewOK'
  <2>1. /\ op' \in [call : {"Insert"}, tuple : Tuples, phase : {"new"},
                    i : Nat \ {0}, at : Steps, rid : RecordId \cup {InvalidRecord}]
        /\ op'.at = "unpin" /\ op'.rid = op.rid /\ op'.tuple = d
    BY <1>2, <1>4, <1>7 DEF Steps
  <2>2. ListedBut({op.rid.page_id})'
    <3>1. \A q \in PageId \ {p} :
             contents[q] # Unwritten => \E i \in 1 .. Len(page_ids) : page_ids[i] = q
      BY <1>1, <1>3 DEF NewOK, ListedBut, Listed
    <3> QED BY <1>3, <1>7, <1>9, <2>1, <3>1 DEF ListedBut, Listed
  <2>3. OnlyHeld(op.rid.page_id)'
    BY <1>3, <1>8, <2>1 DEF OnlyHeld
  <2>4. ~Listed(op.rid.page_id)'
    BY <1>2, <1>7, <2>1 DEF Listed
  <2>5. /\ op'.rid.page_id \in unflagged' /\ op'.rid.page_id < next_page_id'
        /\ op'.rid.slot_id = 0
    BY <1>2, <1>3, <1>8, <2>1
  <2>6. contents'[op'.rid.page_id] = IF Fits(EmptyPage, op'.tuple)
                                     THEN InsertRow(EmptyPage, op'.tuple) ELSE EmptyPage
    BY <1>3, <1>5, <1>9, <2>1
  <2> QED BY <2>1, <2>2, <2>3, <2>4, <2>5, <2>6 DEF NewOK
<1>11. [Records!Next]_records
  <2>1. CASE Fits(EmptyPage, d)
    <3>1. PICK rid \in RecordId : rid = op.rid
      BY <1>1, NewRid
    <3>2. Appends(p, EmptyPage, d, rid)
      <4>1. rid = [page_id |-> p, slot_id |-> NewSlotId(EmptyPage)]
        BY <1>1, <1>3, <3>1, NewRid
      <4>2. SameRows(p, EmptyPage)
        BY <1>2, <1>3, EmptyPageRows DEF SameRows
      <4> QED BY <1>5, <1>8, <2>1, <4>1, <4>2, EmptyPageOK DEF Appends
    <3>3. Records!Insert(rid, d)
      BY <1>1, <3>2, RowAppended
    <3> QED BY <3>3 DEF Records!Next
  <2>2. CASE ~Fits(EmptyPage, d)
    <3>1. \A r \in RecordId :
             records'[r] = IF r.page_id = p THEN RowAt(EmptyPage, r.slot_id) ELSE records[r]
      BY <1>1, <1>5, <1>8, <2>2, RecordsWritten
    <3>2. ASSUME NEW r \in RecordId PROVE records'[r] = records[r]
      <4>1. records[r] = RowAt(contents[r.page_id], r.slot_id) /\ r.slot_id \in 0 .. Capacity
        BY RecordFacts DEF RecordId
      <4> QED BY <1>2, <1>3, <3>1, <4>1, EmptyPageRows
    <3> QED BY <3>2, RecordsSame
  <2> QED BY <2>1, <2>2
<1> QED BY <1>8, <1>9, <1>10, <1>11 DEF Sound, RInv

LEMMA InsertNewUnpinOK ==
    ASSUME RInv, InsertNewUnpin
    PROVE  Sound
<1>1. NewOK /\ PagesOK /\ IInv /\ op.at = "unpin"
  BY OpKind DEF RInv, InsertNewUnpin
<1>2. /\ op \in [call : {"Insert"}, tuple : Tuples, phase : {"new"},
                 i : Nat \ {0}, at : Steps, rid : RecordId \cup {InvalidRecord}]
      /\ OnlyHeld(op.rid.page_id) /\ op.rid.slot_id = 0 /\ op.rid.page_id < next_page_id
      /\ ~Listed(op.rid.page_id) /\ op.rid.page_id \in unflagged
  BY <1>1 DEF NewOK
<1>3. PICK p \in PageId : p = op.rid.page_id
  BY <1>2 DEF OnlyHeld
<1>4. PICK d \in Tuples : d = op.tuple
  BY <1>2
<1>5. PICK ok \in BOOLEAN : ok = Fits(EmptyPage, d)
  <2>1. Fits(EmptyPage, d) \in BOOLEAN
    BY SMT DEF Fits
  <2> QED BY <2>1, Zenon
<1>6. PICK rid \in RecordId : rid = op.rid
  BY <1>1, NewRid
<1>7. rid # InvalidRecord /\ rid.page_id = p /\ rid.slot_id = 0
  BY <1>1, <1>2, <1>3, <1>6, NewRid
<1>8. /\ UnpinPage(p, ok)
      /\ page_ids' = IF ok THEN Append(page_ids, p) ELSE page_ids
      /\ op' = NoCall
      /\ result' = [call |-> "Insert", tuple |-> d, rid |-> IF ok THEN rid ELSE InvalidRecord]
  BY <1>3, <1>4, <1>5, <1>6 DEF InsertNewUnpin, Return, PageIdsWith
<1>9. /\ IInv' /\ NoneHeld' /\ unflagged' = {} /\ next_page_id' = next_page_id
      /\ ok => contents' = contents
      /\ ~ok => contents' = [contents EXCEPT ![p] = Unwritten]
  BY <1>1, <1>2, <1>3, <1>8, UnpinStep
<1>10. contents[p] = IF ok THEN InsertRow(EmptyPage, d) ELSE EmptyPage
  BY <1>1, <1>3, <1>4, <1>5 DEF NewOK
<1>11. result' \in [call : {"Insert"}, tuple : Tuples, rid : RecordId \cup {InvalidRecord}]
  BY <1>8
<1>12. /\ page_ids \in Seq(PageId)
       /\ \A i \in 1 .. Len(page_ids) : page_ids[i] \in PageId /\ page_ids[i] # p
       /\ \A q \in PageId \ {p} : contents[q] # Unwritten => Listed(q)
  BY <1>1, <1>2, <1>3 DEF PagesOK, NewOK, ListedBut, Listed
<1>13. CASE ok
  <2>1. /\ page_ids' \in Seq(PageId) /\ Len(page_ids') = Len(page_ids) + 1
        /\ page_ids'[Len(page_ids) + 1] = p
        /\ \A i \in 1 .. Len(page_ids) : page_ids'[i] = page_ids[i]
    BY <1>8, <1>12, <1>13
  <2>2. PageOK(contents[p]) /\ contents[p] # Unwritten
    BY <1>5, <1>10, <1>13, EmptyPageOK, InsertRowOK, PageIsData
  <2>3. PagesOK'
    <3>1. ASSUME NEW i \in 1 .. Len(page_ids')
          PROVE  page_ids'[i] < next_page_id' /\ contents'[page_ids'[i]] # Unwritten
      <4>1. CASE i = Len(page_ids) + 1
        BY <1>2, <1>3, <1>9, <1>13, <2>1, <2>2, <4>1
      <4>2. CASE i # Len(page_ids) + 1
        <5>1. i \in 1 .. Len(page_ids)
          BY <1>12, <2>1, <4>2
        <5> QED BY <1>1, <1>9, <1>13, <2>1, <5>1 DEF PagesOK
      <4> QED BY <4>1, <4>2
    <3>2. ASSUME NEW i \in 1 .. Len(page_ids'), NEW j \in 1 .. Len(page_ids'),
                 page_ids'[i] = page_ids'[j]
          PROVE  i = j
      <4>1. CASE i \in 1 .. Len(page_ids) /\ j \in 1 .. Len(page_ids)
        BY <1>1, <2>1, <3>2, <4>1 DEF PagesOK
      <4>2. CASE i = Len(page_ids) + 1 \/ j = Len(page_ids) + 1
        BY <1>12, <2>1, <3>2, <4>2
      <4> QED BY <1>12, <2>1, <4>1, <4>2
    <3>3. \A q \in PageId : contents'[q] # Unwritten => PageOK(contents'[q])
      BY <1>1, <1>9, <1>13 DEF PagesOK
    <3> QED BY <2>1, <3>1, <3>2, <3>3 DEF PagesOK
  <2>4. ListedBut({})'
    <3> SUFFICES ASSUME NEW q \in PageId, contents'[q] # Unwritten
                 PROVE  \E i \in 1 .. Len(page_ids') : page_ids'[i] = q
      BY DEF ListedBut, Listed
    <3>1. CASE q = p
      <4>1. Len(page_ids) + 1 \in 1 .. Len(page_ids')
        BY <1>12, <2>1
      <4> QED BY <2>1, <3>1, <4>1
    <3>2. CASE q # p
      <4>1. PICK i \in 1 .. Len(page_ids) : page_ids[i] = q
        BY <1>9, <1>12, <1>13, <3>2 DEF Listed
      <4>2. i \in 1 .. Len(page_ids')
        BY <1>12, <2>1
      <4> QED BY <2>1, <4>1, <4>2
    <3> QED BY <3>1, <3>2
  <2>5. records' = records
    BY <1>9, <1>13, RecordFacts
  <2>6. records[rid] = d
    <3>1. records[rid] = RowAt(contents[p], 0)
      BY <1>7, RecordFacts
    <3>2. contents[p].rows = <<d>>
      <4>1. EmptyPage.rows = <<>> /\ InsertRow(EmptyPage, d).rows = Append(EmptyPage.rows, d)
        BY DEF EmptyPage, InsertRow
      <4> QED BY <1>10, <1>13, <4>1
    <3> QED BY <2>2, <3>1, <3>2 DEF RowAt
  <2>7. result'.rid = rid /\ result'.tuple = d
    BY <1>8, <1>13
  <2>8. IdleOK'
    BY <1>7, <1>8, <1>9, <1>11, <2>4, <2>5, <2>6, <2>7 DEF IdleOK
  <2> QED BY <1>9, <2>3, <2>5, <2>8 DEF Sound, RInv
<1>14. CASE ~ok
  <2>1. page_ids' = page_ids
    BY <1>8, <1>14
  <2>2. \A q \in PageId : contents'[q] = IF q = p THEN Unwritten ELSE contents[q]
    BY <1>1, <1>9, <1>14, ContentsFacts
  <2>3. PagesOK'
    BY <1>1, <1>9, <1>12, <2>1, <2>2 DEF PagesOK
  <2>4. ListedBut({})'
    BY <1>12, <2>1, <2>2 DEF ListedBut, Listed
  <2>5. records' = records
    <3>1. \A r \in RecordId :
             records'[r] = IF r.page_id = p THEN RowAt(Unwritten, r.slot_id) ELSE records[r]
      BY <1>1, <1>9, <1>14, RecordsWritten
    <3>2. ASSUME NEW r \in RecordId PROVE records'[r] = records[r]
      <4>1. records[r] = RowAt(contents[r.page_id], r.slot_id) /\ r.slot_id \in 0 .. Capacity
        BY RecordFacts DEF RecordId
      <4> QED BY <1>10, <1>14, <3>1, <4>1, EmptyPageRows
    <3> QED BY <3>2, RecordsSame
  <2>6. result'.rid = InvalidRecord /\ result'.tuple = d
    BY <1>8, <1>14
  <2>7. IdleOK'
    BY <1>5, <1>8, <1>9, <1>11, <1>14, <2>4, <2>6 DEF IdleOK
  <2> QED BY <1>9, <2>3, <2>5, <2>7 DEF Sound, RInv
<1> QED BY <1>13, <1>14

LEMMA CallRowOK ==
    ASSUME RInv, NEW name \in {"Get", "Delete", "Update"}, NEW rid \in RecordId,
           NEW d \in Row, name = "Update" => d \in Tuples, CallRow(name, rid, d)
    PROVE  Sound
<1>1. /\ IdleOK /\ PagesOK /\ IInv /\ UNCHANGED vars /\ UNCHANGED page_ids
      /\ Listed(rid.page_id)
      /\ op' = [call |-> name, tuple |-> d, rid |-> rid, at |-> "fetch",
                ok |-> FALSE, row |-> Deleted]
  BY OpKind DEF RInv, CallRow, Listed
<1>2. IInv' /\ UNCHANGED <<next_page_id, contents, held, unflagged>>
  BY <1>1, StutterLemma DEF storeVars
<1>3. PagesOK' /\ records' = records
  BY <1>1, <1>2, QuietPages
<1>4. RowOK'
  <2>1. /\ op' \in [call : {"Get", "Delete", "Update"}, tuple : Row, rid : RecordId,
                    at : Steps, ok : BOOLEAN, row : Row]
        /\ op'.rid = rid /\ op'.at = "fetch" /\ op'.ok = FALSE /\ op'.tuple = d
        /\ op'.call = name
    BY <1>1 DEF Steps, Row
  <2>2. ListedBut({})' /\ NoneHeld'
    BY <1>1, <1>2 DEF IdleOK, ListedBut, Listed, NoneHeld
  <2>3. Listed(op.rid.page_id)'
    BY <1>1, <2>1 DEF Listed
  <2> QED BY <1>1, <1>2, <2>1, <2>2, <2>3 DEF RowOK, IdleOK
<1> QED BY <1>2, <1>3, <1>4 DEF Sound, RInv

LEMMA RowFetchOK ==
    ASSUME RInv, RowFetch
    PROVE  Sound
<1>1. RowOK /\ PagesOK /\ IInv /\ op.at = "fetch"
  BY OpKind DEF RInv, RowFetch
<1>2. /\ op \in [call : {"Get", "Delete", "Update"}, tuple : Row, rid : RecordId,
                 at : Steps, ok : BOOLEAN, row : Row]
      /\ NoneHeld /\ unflagged = {} /\ ~op.ok /\ Listed(op.rid.page_id)
  BY <1>1 DEF RowOK
<1>3. PICK p \in PageId : p = op.rid.page_id
  BY <1>2 DEF RecordId
<1>4. FetchPage(p) /\ op' = [op EXCEPT !.at = "access"] /\ UNCHANGED <<page_ids, result>>
  <2>1. FrameAvailable
    BY <1>1, <1>2, FrameThere
  <2>2. ~FetchFails(p)
    BY <2>1 DEF FetchFails
  <2> QED BY <1>3, <2>2 DEF RowFetch
<1>5. IInv' /\ OnlyHeld(p)' /\ UNCHANGED <<contents, unflagged, next_page_id>>
  BY <1>1, <1>2, <1>4, FetchStep
<1>6. PagesOK' /\ records' = records
  BY <1>1, <1>4, <1>5, QuietPages
<1>7. RowOK'
  <2>1. /\ op' \in [call : {"Get", "Delete", "Update"}, tuple : Row, rid : RecordId,
                    at : Steps, ok : BOOLEAN, row : Row]
        /\ op'.rid = op.rid /\ op'.at = "access" /\ op'.ok = op.ok /\ op'.tuple = op.tuple
        /\ op'.call = op.call
    BY <1>2, <1>4 DEF Steps
  <2>2. ListedBut({})'
    BY <1>1, <1>4, <1>5 DEF RowOK, ListedBut, Listed
  <2>3. Listed(op.rid.page_id)'
    BY <1>2, <1>4, <2>1 DEF Listed
  <2>4. OnlyHeld(op.rid.page_id)'
    BY <1>3, <1>5, <2>1 DEF OnlyHeld
  <2>5. op'.call = "Update" => op'.tuple \in Tuples
    BY <1>1, <2>1 DEF RowOK
  <2> QED BY <1>2, <1>5, <2>1, <2>2, <2>3, <2>4, <2>5 DEF RowOK
<1> QED BY <1>5, <1>6, <1>7 DEF Sound, RInv

\* The access to the page of a row call is done.
LEMMA RowAccessed ==
    ASSUME RowOK, op.at = "access", NEW p \in PageId, p = op.rid.page_id, OnlyHeld(p)',
           UNCHANGED page_ids,
           \A q \in PageId : contents'[q] # Unwritten => contents[q] # Unwritten,
           NEW ok \in BOOLEAN, NEW row \in Row,
           op' = [op EXCEPT !.at = "unpin", !.ok = ok, !.row = row],
           unflagged' = {} \/ (op.call # "Get" /\ ok),
           op.call = "Get" => IF ok THEN records'[op.rid] = row
                              ELSE records'[op.rid] \notin Tuples,
           op.call = "Delete" => (ok <=> records'[op.rid] # Absent)
    PROVE  RowOK'
<1>1. /\ op' \in [call : {"Get", "Delete", "Update"}, tuple : Row, rid : RecordId,
                  at : Steps, ok : BOOLEAN, row : Row]
      /\ op'.at = "unpin" /\ op'.rid = op.rid /\ op'.ok = ok /\ op'.row = row
      /\ op'.tuple = op.tuple /\ op'.call = op.call
  <2>1. PICK s : s = [op EXCEPT !.at = "unpin"]
    OBVIOUS
  <2>2. /\ s \in [call : {"Get", "Delete", "Update"}, tuple : Row, rid : RecordId,
                  at : Steps, ok : BOOLEAN, row : Row]
        /\ s.at = "unpin" /\ s.rid = op.rid /\ s.tuple = op.tuple /\ s.call = op.call
    BY <2>1 DEF RowOK, Steps
  <2>3. PICK t : t = [s EXCEPT !.ok = ok]
    OBVIOUS
  <2>4. /\ t \in [call : {"Get", "Delete", "Update"}, tuple : Row, rid : RecordId,
                  at : Steps, ok : BOOLEAN, row : Row]
        /\ t.at = "unpin" /\ t.rid = op.rid /\ t.tuple = op.tuple /\ t.call = op.call
        /\ t.ok = ok
    BY <2>2, <2>3
  <2>5. op' = [t EXCEPT !.row = row]
    BY <2>1, <2>3
  <2> QED BY <2>4, <2>5
<1>2. ListedBut({})'
  <2>1. \A q \in PageId : contents[q] # Unwritten => \E i \in 1 .. Len(page_ids) : page_ids[i] = q
    BY DEF RowOK, ListedBut, Listed
  <2> QED BY <2>1 DEF ListedBut, Listed
<1>3. Listed(op.rid.page_id)'
  BY <1>1 DEF RowOK, Listed
<1>4. OnlyHeld(op.rid.page_id)'
  BY <1>1 DEF OnlyHeld
<1>5. RowAnswer(op)'
  BY <1>1 DEF RowAnswer
<1>6. /\ op'.call = "Update" => op'.tuple \in Tuples
      /\ unflagged' = {} \/ (op'.call # "Get" /\ op'.ok)
  BY <1>1 DEF RowOK
<1> QED BY <1>1, <1>2, <1>3, <1>4, <1>5, <1>6 DEF RowOK

\* The row of record rid, in slot s of page p, is overwritten.
Overwrites(p, s, row, rid) ==
    /\ PageOK(contents[p]) /\ s \in 1 .. Len(contents[p].rows)
    /\ LiveSize(row) <= LiveSize(contents[p].rows[s])
    /\ rid.page_id = p /\ rid.slot_id + 1 = s
    /\ contents' = [contents EXCEPT ![p] = SetRow(contents[p], s, row)]

LEMMA RowOverwritten ==
    ASSUME IInv, NEW p \in PageId, NEW s, NEW row \in Row, NEW rid \in RecordId,
           Overwrites(p, s, row, rid)
    PROVE  records' = [records EXCEPT ![rid] = row] /\ records'[rid] = row
<1> DEFINE old == contents[p]
           new == SetRow(old, s, row)
<1>1. /\ PageOK(old) /\ s \in 1 .. Len(old.rows) /\ LiveSize(row) <= LiveSize(old.rows[s])
      /\ rid.page_id = p /\ rid.slot_id + 1 = s /\ contents' = [contents EXCEPT ![p] = new]
  BY DEF Overwrites
<1>2. PageOK(new) /\ new.rows = [old.rows EXCEPT ![s] = row]
  BY <1>1, SetRowOK
<1>3. old.rows \in Seq(Row) /\ old # Unwritten /\ new # Unwritten
  BY <1>1, <1>2, PageIsData DEF PageOK
<1> HIDE DEF old, new
<1>4. ASSUME NEW k \in 0 .. Capacity
      PROVE  RowAt(new, k) = IF k + 1 = s THEN row ELSE RowAt(old, k)
  <2>1. /\ Len(new.rows) = Len(old.rows)
        /\ \A i \in 1 .. Len(old.rows) : new.rows[i] = IF i = s THEN row ELSE old.rows[i]
    BY <1>1, <1>2, <1>3
  <2>2. Len(old.rows) \in Nat
    BY <1>3
  <2>3. CASE k < Len(old.rows)
    BY <1>3, <2>1, <2>2, <2>3 DEF RowAt
  <2>4. CASE k >= Len(old.rows)
    BY <1>1, <1>3, <2>1, <2>2, <2>4 DEF RowAt
  <2> QED BY <2>2, <2>3, <2>4
<1>5. \A r \in RecordId :
         records'[r] = IF r.page_id = p THEN RowAt(new, r.slot_id) ELSE records[r]
  BY <1>1, RecordsWritten
<1>6. ASSUME NEW r \in RecordId PROVE records'[r] = IF r = rid THEN row ELSE records[r]
  <2>1. /\ r.slot_id \in 0 .. Capacity /\ r = [page_id |-> r.page_id, slot_id |-> r.slot_id]
        /\ rid.slot_id \in 0 .. Capacity
        /\ rid = [page_id |-> rid.page_id, slot_id |-> rid.slot_id]
    BY DEF RecordId
  <2>2. records[r] = RowAt(contents[r.page_id], r.slot_id)
    BY RecordFacts
  <2>3. CASE r.page_id # p
    BY <1>1, <1>5, <2>3
  <2>4. CASE r.page_id = p
    <3>1. records'[r] = IF r.slot_id + 1 = s THEN row ELSE records[r]
      BY <1>4, <1>5, <2>1, <2>2, <2>4 DEF old
    <3>2. r.slot_id + 1 = s <=> r = rid
      BY <1>1, <2>1, <2>4
    <3> QED BY <3>1, <3>2
  <2> QED BY <2>3, <2>4
<1> QED BY <1>6, OneRecord

LEMMA RowAccessOK ==
    ASSUME RInv, RowAccess
    PROVE  Sound
<1>1. RowOK /\ PagesOK /\ IInv /\ op.at = "access"
  BY OpKind DEF RInv, RowAccess
<1>2. /\ op \in [call : {"Get", "Delete", "Update"}, tuple : Row, rid : RecordId,
                 at : Steps, ok : BOOLEAN, row : Row]
      /\ OnlyHeld(op.rid.page_id) /\ unflagged = {} /\ ~op.ok /\ Listed(op.rid.page_id)
  BY <1>1 DEF RowOK
<1>3. PICK p \in PageId : p = op.rid.page_id
  BY <1>2 DEF RecordId
<1>4. PICK rid \in RecordId : rid = op.rid
  BY <1>2
<1>5. contents[p] # Unwritten /\ PageOK(contents[p]) /\ held[p] = 1 /\ OnlyHeld(p)
  BY <1>1, <1>2, <1>3 DEF Listed, PagesOK, OnlyHeld
<1>6. PICK page : page = Image(p)
  OBVIOUS
<1>7. page = contents[p]
  BY <1>1, <1>5, <1>6, ContentsFacts
<1>8. PICK s : s = rid.slot_id + 1
  OBVIOUS
<1>9. PICK row : row = IF s <= Len(page.rows) THEN page.rows[s] ELSE Absent
  OBVIOUS
<1>10. /\ page.rows \in Seq(Row) /\ Len(page.rows) \in Nat
       /\ rid.slot_id \in Nat /\ rid.page_id = p
  BY <1>3, <1>4, <1>5, <1>7 DEF PageOK, RecordId
<1>11. records[rid] = row
  <2>1. records[rid] = RowAt(page, rid.slot_id)
    BY <1>7, <1>10, RecordFacts
  <2>2. CASE s <= Len(page.rows)
    BY <1>5, <1>7, <1>8, <1>9, <1>10, <2>1, <2>2 DEF RowAt
  <2>3. CASE ~(s <= Len(page.rows))
    BY <1>5, <1>7, <1>8, <1>9, <1>10, <2>1, <2>3 DEF RowAt
  <2> QED BY <2>2, <2>3
<1>12. UNCHANGED <<page_ids, result>>
  BY DEF RowAccess
<1>13. \/ /\ op.call = "Get" /\ UNCHANGED vars
          /\ op' = [op EXCEPT !.at = "unpin", !.ok = row \in Tuples,
                              !.row = IF row \in Tuples THEN row ELSE Deleted]
       \/ /\ op.call = "Delete" /\ row # Absent /\ WriteData(p, SetRow(page, s, Deleted))
          /\ op' = [op EXCEPT !.at = "unpin", !.ok = TRUE]
       \/ /\ op.call = "Update" /\ row \in Tuples /\ Size[op.tuple] <= Size[row]
          /\ WriteData(p, SetRow(page, s, op.tuple))
          /\ op' = [op EXCEPT !.at = "unpin", !.ok = TRUE]
       \/ /\ \/ op.call = "Delete" /\ row = Absent
             \/ op.call = "Update" /\ row \notin Tuples
          /\ op' = [op EXCEPT !.at = "unpin"] /\ UNCHANGED vars
  BY <1>3, <1>4, <1>6, <1>8, <1>9 DEF RowAccess
\* No row changes.
<1>14. ASSUME UNCHANGED vars
       PROVE  /\ IInv' /\ PagesOK' /\ records' = records /\ OnlyHeld(p)' /\ unflagged' = {}
              /\ next_page_id' = next_page_id
              /\ \A q \in PageId : contents'[q] # Unwritten => contents[q] # Unwritten
  <2>1. IInv' /\ UNCHANGED <<next_page_id, contents, held, unflagged>>
    BY <1>1, <1>14, StutterLemma DEF storeVars
  <2>2. PagesOK' /\ records' = records
    BY <1>1, <1>12, <2>1, QuietPages
  <2> QED BY <1>2, <1>5, <2>1, <2>2 DEF OnlyHeld
\* The row becomes r.
<1>15. ASSUME NEW r \in Row, row # Absent, LiveSize(r) <= LiveSize(row),
              WriteData(p, SetRow(page, s, r))
       PROVE  /\ IInv' /\ PagesOK' /\ OnlyHeld(p)' /\ next_page_id' = next_page_id
              /\ records' = [records EXCEPT ![rid] = r] /\ records'[rid] = r
              /\ \A q \in PageId : contents'[q] # Unwritten => contents[q] # Unwritten
  <2>1. s \in 1 .. Len(page.rows) /\ row = page.rows[s]
    BY <1>8, <1>9, <1>10, <1>15
  <2>2. PageOK(SetRow(page, s, r))
    BY <1>5, <1>7, <1>15, <2>1, SetRowOK
  <2>3. /\ IInv' /\ OnlyHeld(p)' /\ contents' = [contents EXCEPT ![p] = SetRow(page, s, r)]
        /\ next_page_id' = next_page_id
    BY <1>1, <1>5, <1>15, <2>2, WriteStep
  <2>4. /\ PagesOK'
        /\ \A q \in PageId : contents'[q] = IF q = p THEN SetRow(page, s, r) ELSE contents[q]
    BY <1>1, <1>12, <2>2, <2>3, PagesWritten
  <2>5. Overwrites(p, s, r, rid)
    BY <1>5, <1>7, <1>8, <1>10, <1>15, <2>1, <2>3 DEF Overwrites
  <2>6. records' = [records EXCEPT ![rid] = r] /\ records'[rid] = r
    BY <1>1, <2>5, RowOverwritten
  <2> QED BY <1>5, <2>3, <2>4, <2>6
<1>16. CASE /\ op.call = "Get" /\ UNCHANGED vars
            /\ op' = [op EXCEPT !.at = "unpin", !.ok = row \in Tuples,
                                !.row = IF row \in Tuples THEN row ELSE Deleted]
  <2>1. PICK ok \in BOOLEAN : ok = (row \in Tuples)
    <3>1. (row \in Tuples) \in BOOLEAN
      BY SMT
    <3> QED BY <3>1, Zenon
  <2>2. PICK r \in Row : r = IF row \in Tuples THEN row ELSE Deleted
    BY DEF Row
  <2>3. op' = [op EXCEPT !.at = "unpin", !.ok = ok, !.row = r]
    BY <1>16, <2>1, <2>2
  <2>4. IF ok THEN records'[op.rid] = r ELSE records'[op.rid] \notin Tuples
    BY <1>4, <1>11, <1>14, <1>16, <2>1, <2>2
  <2>5. RowOK'
    BY <1>1, <1>3, <1>12, <1>14, <1>16, <2>3, <2>4, RowAccessed
  <2> QED BY <1>14, <1>16, <2>5 DEF Sound, RInv
<1>17. CASE /\ op.call = "Delete" /\ row # Absent /\ WriteData(p, SetRow(page, s, Deleted))
            /\ op' = [op EXCEPT !.at = "unpin", !.ok = TRUE]
  <2>1. row \in Row
    BY <1>8, <1>9, <1>10, <1>17
  <2>2. Deleted \in Row /\ LiveSize(Deleted) <= LiveSize(row)
    BY <2>1, LiveSizeType DEF Row, LiveSize
  <2>3. /\ IInv' /\ PagesOK' /\ OnlyHeld(p)' /\ next_page_id' = next_page_id
        /\ records' = [records EXCEPT ![rid] = Deleted] /\ records'[rid] = Deleted
        /\ \A q \in PageId : contents'[q] # Unwritten => contents[q] # Unwritten
    BY <1>15, <1>17, <2>2
  <2>4. op' = [op EXCEPT !.at = "unpin", !.ok = TRUE, !.row = op.row] /\ op.row \in Row
    BY <1>2, <1>17
  <2>5. records'[op.rid] # Absent
    BY <1>4, <2>3, RecordAssumption
  <2>6. RowOK'
    BY <1>1, <1>3, <1>12, <1>17, <2>3, <2>4, <2>5, RowAccessed
  <2>7. Records!Next
    BY <1>11, <1>17, <2>3 DEF Records!Next, Records!Delete
  <2> QED BY <2>3, <2>6, <2>7 DEF Sound, RInv
<1>18. CASE /\ op.call = "Update" /\ row \in Tuples /\ Size[op.tuple] <= Size[row]
            /\ WriteData(p, SetRow(page, s, op.tuple))
            /\ op' = [op EXCEPT !.at = "unpin", !.ok = TRUE]
  <2>1. PICK d \in Tuples : d = op.tuple
    BY <1>1, <1>18 DEF RowOK
  <2>2. d \in Row /\ row # Absent /\ LiveSize(d) <= LiveSize(row)
    BY <1>18, <2>1, RowAssumption, RecordAssumption DEF Row, LiveSize
  <2>3. /\ IInv' /\ PagesOK' /\ OnlyHeld(p)' /\ next_page_id' = next_page_id
        /\ records' = [records EXCEPT ![rid] = d]
        /\ \A q \in PageId : contents'[q] # Unwritten => contents[q] # Unwritten
    BY <1>15, <1>18, <2>1, <2>2
  <2>4. op' = [op EXCEPT !.at = "unpin", !.ok = TRUE, !.row = op.row] /\ op.row \in Row
    BY <1>2, <1>18
  <2>5. RowOK'
    BY <1>1, <1>3, <1>12, <1>18, <2>3, <2>4, RowAccessed
  <2>6. Records!Next
    BY <1>11, <1>18, <2>3, RowAssumption, RecordAssumption DEF Records!Next, Records!Update
  <2> QED BY <2>3, <2>5, <2>6 DEF Sound, RInv
<1>19. CASE /\ \/ op.call = "Delete" /\ row = Absent
               \/ op.call = "Update" /\ row \notin Tuples
            /\ op' = [op EXCEPT !.at = "unpin"] /\ UNCHANGED vars
  <2>1. op' = [op EXCEPT !.at = "unpin", !.ok = FALSE, !.row = op.row] /\ op.row \in Row
    BY <1>2, <1>19
  <2>2. op.call = "Delete" => records'[op.rid] = Absent
    BY <1>4, <1>11, <1>14, <1>19
  <2>3. RowOK'
    BY <1>1, <1>3, <1>12, <1>14, <1>19, <2>1, <2>2, RowAccessed
  <2> QED BY <1>14, <1>19, <2>3 DEF Sound, RInv
<1> QED BY <1>13, <1>16, <1>17, <1>18, <1>19

LEMMA RowUnpinOK ==
    ASSUME RInv, RowUnpin
    PROVE  Sound
<1>1. RowOK /\ PagesOK /\ IInv /\ op.at = "unpin"
  BY OpKind DEF RInv, RowUnpin
<1>2. /\ op \in [call : {"Get", "Delete", "Update"}, tuple : Row, rid : RecordId,
                 at : Steps, ok : BOOLEAN, row : Row]
      /\ OnlyHeld(op.rid.page_id) /\ (unflagged = {} \/ (op.call # "Get" /\ op.ok))
      /\ RowAnswer(op)
  BY <1>1 DEF RowOK
<1>3. PICK p \in PageId : p = op.rid.page_id
  BY <1>2 DEF RecordId
<1>4. PICK flag \in BOOLEAN : flag = (op.call # "Get" /\ op.ok)
  OBVIOUS
<1>5. /\ UnpinPage(p, flag) /\ UNCHANGED page_ids /\ op' = NoCall
      /\ result' = [call |-> op.call, rid |-> op.rid, ok |-> op.ok, row |-> op.row]
  BY <1>3, <1>4 DEF RowUnpin, Return
<1>6. /\ IInv' /\ NoneHeld' /\ unflagged' = {} /\ contents' = contents
      /\ next_page_id' = next_page_id
  <2>1. OnlyHeld(p) /\ (flag \/ unflagged = {})
    BY <1>2, <1>3, <1>4
  <2> QED BY <1>1, <1>5, <2>1, UnpinStep
<1>7. PagesOK' /\ records' = records
  BY <1>1, <1>5, <1>6, QuietPages
<1>8. ListedBut({})'
  BY <1>1, <1>5, <1>6 DEF RowOK, ListedBut, Listed
<1>9. /\ result' \in [call : {"Get", "Delete", "Update"}, rid : RecordId, ok : BOOLEAN,
                      row : Row]
      /\ result'.call = op.call /\ result'.rid = op.rid /\ result'.ok = op.ok
      /\ result'.row = op.row
  BY <1>2, <1>5
<1>10. RowAnswer(result)'
  BY <1>2, <1>7, <1>9 DEF RowAnswer
<1>11. IdleOK'
  BY <1>5, <1>6, <1>8, <1>9, <1>10 DEF IdleOK
<1> QED BY <1>6, <1>7, <1>11 DEF Sound, RInv

\* Nothing the store shows changes, and no step of a call is taken.
LEMMA QuietStep ==
    ASSUME RInv, IInv', UNCHANGED storeVars, UNCHANGED recordVars
    PROVE  Sound
<1>1. /\ UNCHANGED <<next_page_id, contents, held, unflagged>>
      /\ UNCHANGED <<page_ids, op, result>>
  BY DEF storeVars, recordVars
<1>2. PagesOK' /\ records' = records
  BY <1>1, QuietPages DEF RInv
<1>3. /\ IdleOK => IdleOK'
      /\ RowOK => RowOK'
  <2>1. ListedBut({}) => ListedBut({})'
    BY <1>1 DEF ListedBut, Listed
  <2>2. NoneHeld => NoneHeld'
    BY <1>1 DEF NoneHeld
  <2>3. /\ RowAnswer(result) => RowAnswer(result)'
        /\ RowAnswer(op) => RowAnswer(op)'
    BY <1>1, <1>2 DEF RowAnswer
  <2>4. /\ Listed(op.rid.page_id) => Listed(op.rid.page_id)'
        /\ OnlyHeld(op.rid.page_id) => OnlyHeld(op.rid.page_id)'
    BY <1>1 DEF Listed, OnlyHeld
  <2>5. IdleOK => IdleOK'
    BY <1>1, <1>2, <2>1, <2>2, <2>3 DEF IdleOK
  <2>6. RowOK => RowOK'
    BY <1>1, <1>2, <2>1, <2>2, <2>3, <2>4 DEF RowOK
  <2> QED BY <2>5, <2>6
<1>4. /\ LoopOK => LoopOK'
      /\ NewOK => NewOK'
  <2>1. /\ ListedBut({}) => ListedBut({})'
        /\ ListedBut({op.rid.page_id}) => ListedBut({op.rid.page_id})'
        /\ Listed(op.rid.page_id)' => Listed(op.rid.page_id)
    BY <1>1 DEF ListedBut, Listed
  <2>2. /\ NoneHeld => NoneHeld'
        /\ OnlyHeld(page_ids[op.i]) => OnlyHeld(page_ids[op.i])'
        /\ OnlyHeld(op.rid.page_id) => OnlyHeld(op.rid.page_id)'
    BY <1>1 DEF NoneHeld, OnlyHeld
  <2>3. /\ FullUpTo(op.i - 1, op.tuple) => FullUpTo(op.i - 1, op.tuple)'
        /\ FullUpTo(op.i, op.tuple) => FullUpTo(op.i, op.tuple)'
        /\ FullUpTo(Len(page_ids), op.tuple) => FullUpTo(Len(page_ids), op.tuple)'
    BY <1>1 DEF FullUpTo
  <2>4. LoopOK => LoopOK'
    BY <1>1, <1>2, <2>1, <2>2, <2>3 DEF LoopOK, InsertUnpinFlag
  <2>5. NewOK => NewOK'
    BY <1>1, <1>2, <2>1, <2>2, <2>3 DEF NewOK
  <2> QED BY <2>4, <2>5
<1> QED BY <1>1, <1>2, <1>3, <1>4 DEF Sound, RInv

LEMMA FlushOK ==
    ASSUME RInv, Flush
    PROVE  Sound
<1>1. IInv /\ UNCHANGED recordVars
  BY DEF RInv, Flush
<1>2. CASE FlushAllPages
  BY <1>1, <1>2, FlushAllPagesLemma, QuietStep
<1>3. CASE UNCHANGED vars
  BY <1>1, <1>3, StutterLemma, QuietStep
<1> QED BY <1>2, <1>3 DEF Flush

-------------------------------------------------------------------------------
(* The specification.                                                         *)

LEMMA RecordInitOK == RecordInit => RInv /\ Records!Init
<1> SUFFICES ASSUME RecordInit PROVE RInv /\ Records!Init
  OBVIOUS
<1>1. IInv
  BY InitIInv DEF RecordInit
<1>2. /\ page_ids = <<>> /\ op = NoCall /\ result = NoCall /\ written = {} /\ unflagged = {}
      /\ held = [p \in PageId |-> 0]
  BY DEF RecordInit, Init
<1>3. \A p \in PageId : contents[p] = Unwritten
  BY <1>2 DEF contents
<1>4. PagesOK /\ ListedBut({}) /\ NoneHeld
  BY <1>2, <1>3 DEF PagesOK, ListedBut, NoneHeld
<1>5. IdleOK
  BY <1>2, <1>4 DEF IdleOK
<1>6. records = [r \in RecordId |-> Absent]
  BY <1>3 DEF records, RecordId
<1> QED BY <1>1, <1>4, <1>5, <1>6 DEF RInv, Records!Init

LEMMA RecordStep == RInv /\ [RecordNext]_allVars => Sound
<1> SUFFICES ASSUME RInv, [RecordNext]_allVars PROVE Sound
  OBVIOUS
<1>1. CASE UNCHANGED allVars
  <2>1. IInv' /\ UNCHANGED storeVars /\ UNCHANGED recordVars
    BY <1>1, StutterLemma DEF allVars, RInv
  <2> QED BY <2>1, QuietStep
<1>2. ASSUME NEW d \in Tuples, CallInsert(d) PROVE Sound
  BY <1>2, CallInsertOK
<1>3. CASE Insert
  BY <1>3, InsertFetchOK, InsertAccessOK, InsertUnpinOK, InsertLoopEndOK, InsertNewPageOK,
     InsertNewAccessOK, InsertNewUnpinOK DEF Insert
<1>4. ASSUME NEW rid \in RecordId, NEW name \in {"Get", "Delete"}, CallRow(name, rid, Deleted)
      PROVE  Sound
  <2>1. name \in {"Get", "Delete", "Update"} /\ Deleted \in Row /\ name # "Update"
    BY DEF Row
  <2> QED BY <1>4, <2>1, CallRowOK
<1>5. ASSUME NEW rid \in RecordId, NEW d \in Tuples, CallRow("Update", rid, d)
      PROVE  Sound
  <2>1. "Update" \in {"Get", "Delete", "Update"} /\ d \in Row
    BY DEF Row
  <2> QED BY <1>5, <2>1, CallRowOK
<1>6. CASE RowFetch
  BY <1>6, RowFetchOK
<1>7. CASE RowAccess
  BY <1>7, RowAccessOK
<1>8. CASE RowUnpin
  BY <1>8, RowUnpinOK
<1>9. CASE Flush
  BY <1>9, FlushOK
<1> QED BY <1>1, <1>2, <1>3, <1>4, <1>5, <1>6, <1>7, <1>8, <1>9 DEF RecordNext

LEMMA RecordInvariance == RecordSpec => []RInv
<1>1. RInv /\ [RecordNext]_allVars => RInv'
  BY RecordStep DEF Sound
<1> QED BY <1>1, RecordInitOK, PTL DEF RecordSpec

-------------------------------------------------------------------------------
(* The theorems.                                                              *)

\* The pool under the record manager keeps everything BufferPoolProofs shows of it,
\* with no bound on the pins a client may take: RecordManager itself keeps the
\* discipline that MaxPins = 1 imposes on BufferPool's client.
THEOREM PoolUnderRecords ==
    RecordSpec => [](PinsMatchHolders /\ PointerValid /\ NoWriteLost)
<1>1. RInv => PinsMatchHolders /\ PointerValid /\ NoWriteLost
  BY DEF RInv, IInv
<1> QED BY <1>1, RecordInvariance, PTL

\* page_ids_ names each page of the table once, all of them allocated, and every
\* page's rows and free space stay within the page.
THEOREM RecordTypeCorrect == RecordSpec => []RecordTypeOK
<1>1. ASSUME RInv PROVE RecordTypeOK
  <2>1. IInv /\ PagesOK /\ next_page_id \in Nat /\ written \subseteq PageId
    BY <1>1 DEF RInv, IInv, TypeOK
  <2>2. page_ids \in Seq(0 .. next_page_id - 1)
    <3>1. /\ page_ids \in Seq(PageId)
          /\ \A i \in 1 .. Len(page_ids) : page_ids[i] \in PageId /\ page_ids[i] < next_page_id
      BY <2>1 DEF PagesOK
    <3>2. \A i \in 1 .. Len(page_ids) : page_ids[i] \in 0 .. next_page_id - 1
      BY <2>1, <3>1 DEF PageId
    <3>3. Len(page_ids) \in Nat /\ page_ids = [i \in 1 .. Len(page_ids) |-> page_ids[i]]
      BY <3>1
    <3>4. page_ids \in [1 .. Len(page_ids) -> 0 .. next_page_id - 1]
      BY <3>2, <3>3
    <3> QED BY <3>3, <3>4, SeqDef
  <2>3. ASSUME NEW p \in written
        PROVE  /\ contents[p].rows \in Seq(Tuples \cup {Deleted})
               /\ contents[p].free \in 0 .. Capacity
    <3>1. PageOK(contents[p])
      BY <2>1, ContentsFacts DEF PagesOK
    <3> QED BY <3>1, PageBounds DEF PageOK, Row
  <2> QED BY <2>1, <2>2, <2>3 DEF RecordTypeOK, PagesOK
<1> QED BY <1>1, RecordInvariance, PTL

\* No operation of RecordManager holds two pins, and none returns with one.
THEOREM OnePin == RecordSpec => []OnePinAtATime
<1>1. ASSUME RInv PROVE OnePinAtATime
  <2>1. NoneHeld \/ \E p \in PageId : OnlyHeld(p)
    <3>1. CASE IdleOK
      BY <3>1 DEF IdleOK
    <3>2. CASE LoopOK
      BY <3>2 DEF LoopOK, OnlyHeld
    <3>3. CASE NewOK
      BY <3>3 DEF NewOK, OnlyHeld
    <3>4. CASE RowOK
      BY <3>4 DEF RowOK, OnlyHeld
    <3> QED BY <1>1, <3>1, <3>2, <3>3, <3>4 DEF RInv
  <2>2. op = NoCall => NoneHeld
    BY <1>1, OpKind DEF IdleOK
  <2> QED BY <2>1, <2>2 DEF OnePinAtATime, NoneHeld, OnlyHeld
<1> QED BY <1>1, RecordInvariance, PTL

\* No FetchPage or NewPage of RecordManager returns nullptr, in a pool of any size.
THEOREM PoolSuffices == RecordSpec => []PoolNeverExhausted
<1>1. ASSUME RInv, op = NoCall \/ op.at = "fetch" PROVE NoneHeld
  <2>1. CASE IdleOK
    BY <2>1 DEF IdleOK
  <2>2. CASE LoopOK
    BY <1>1, <2>2 DEF LoopOK, NoCall
  <2>3. CASE NewOK
    BY <1>1, <2>3 DEF NewOK, NoCall
  <2>4. CASE RowOK
    BY <1>1, <2>4 DEF RowOK, NoCall
  <2> QED BY <1>1, <2>1, <2>2, <2>3, <2>4 DEF RInv
<1>2. RInv => PoolNeverExhausted
  BY <1>1, FrameThere DEF PoolNeverExhausted, RInv
<1> QED BY <1>2, RecordInvariance, PTL

\* Between calls every row is on a page that page_ids_ lists, so scans find it.
THEOREM RowsAreListed == RecordSpec => []NoOrphanRow
<1>1. ASSUME RInv, op = NoCall, NEW p \in written
      PROVE  \E i \in 1 .. Len(page_ids) : page_ids[i] = p
  <2>1. IdleOK /\ IInv /\ written \subseteq PageId
    BY <1>1, OpKind DEF RInv, IInv, TypeOK
  <2> QED BY <2>1, ContentsFacts DEF IdleOK, ListedBut, Listed
<1>2. RInv => NoOrphanRow
  BY <1>1 DEF NoOrphanRow
<1> QED BY <1>2, RecordInvariance, PTL

\* What Insert, Get and Delete answer is what the store holds.
THEOREM TrueAnswers == RecordSpec => []AnswersAreTrue
<1>1. ASSUME RInv, op = NoCall
      PROVE  /\ result.call = "Insert" =>
                   IF result.rid = InvalidRecord THEN ~Fits(EmptyPage, result.tuple)
                   ELSE records[result.rid] = result.tuple
             /\ RowAnswer(result)
  <2>1. IdleOK
    BY <1>1, OpKind
  <2> QED BY <2>1 DEF IdleOK, RowAnswer, NoCall
<1>2. RInv => AnswersAreTrue
  BY <1>1 DEF AnswersAreTrue, RowAnswer
<1> QED BY <1>2, RecordInvariance, PTL

\* Insert takes a new page only when no listed page, compacted, has room.
THEOREM GrowthIsNeeded == RecordSpec => GrowsOnlyWhenFull
<1>1. ASSUME RInv, [RecordNext]_allVars
      PROVE  [next_page_id' # next_page_id =>
                \A i \in 1 .. Len(page_ids) :
                    ~Fits(Compact(contents[page_ids[i]]), op.tuple)]_allVars
  <2>1. next_page_id' # next_page_id => FullUpTo(Len(page_ids), op.tuple)
    BY <1>1, RecordStep DEF Sound
  <2>2. Len(page_ids) \in Nat
    BY <1>1 DEF RInv, PagesOK
  <2> QED BY <2>1, <2>2 DEF FullUpTo
<1> QED BY <1>1, RecordInvariance, PTL DEF RecordSpec, GrowsOnlyWhenFull

\* RecordManager over its pool implements the record store: whatever is evicted and
\* read back between them, a record holds the tuple last stored under its identifier,
\* and no identifier is given out twice.
THEOREM RecordRefinement == RecordSpec => RecordsReadBack
<1>1. RInv /\ [RecordNext]_allVars => [Records!Next]_records
  BY RecordStep DEF Sound
<1> QED BY <1>1, RecordInitOK, RecordInvariance, PTL DEF RecordSpec, RecordsReadBack, Records!Spec
===============================================================================
