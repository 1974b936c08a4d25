------------------------------ MODULE TableScan -------------------------------
(***************************************************************************)
(* TableManager (src/manager/table_manager.cpp) and the iterator it hands  *)
(* out (src/utils/table_iterator.cpp).  The loop inside operator++ is one  *)
(* step per slot or page; between two calls of operator++ the client may   *)
(* insert and delete, the row under the iterator included.                 *)
(*                                                                         *)
(* Calls of RecordManager are atomic here and never run out of frames:     *)
(* RecordManager checks both (RecordsReadBack, PoolNeverExhausted).        *)
(***************************************************************************)
EXTENDS RowPage, FiniteSetsExt

CONSTANT MaxPages   \* bound: page ids are 0 .. MaxPages - 1

ASSUME ScanAssumption == MaxPages \in Nat

PageId == 0 .. MaxPages - 1
INVALID_PAGE_ID == -1
RecordId == [page_id : PageId, slot_id : 0 .. Capacity]

VARIABLES
    next_page_id,   \* of the record manager's pool
    page_ids,       \* page_ids_ of the record manager
    page,           \* what the pages hold
    it,             \* the client's iterator: rid_ and page_idx_
    advancing,      \* whether operator++ is running
    visited,        \* history: rows the iterator has stopped at since Begin
    due             \* history: rows live at Begin and not deleted since

table == <<next_page_id, page_ids, page>>
vars == <<table, it, advancing, visited, due>>

-------------------------------------------------------------------------------

End == [rid |-> [page_id |-> INVALID_PAGE_ID, slot_id |-> 0], page_idx |-> 0]

\* it != End(): operator== compares the record ids.
Scanning == it.rid # End.rid

SlotCount(p) == Len(page[p].rows)

\* RecordManager::Get succeeds.
Live(rid) == /\ rid.slot_id < SlotCount(rid.page_id)
             /\ page[rid.page_id].rows[rid.slot_id + 1] # Deleted

\* Mutant: the index in the list taken for the page id.
PageAtIsIndex(page_idx) == page_idx

PageAt(page_idx) == page_ids[page_idx + 1]

\* Mutant: page_idx_++ is missing.
NextIndexSame(page_idx) == page_idx

NextIndex(page_idx) == page_idx + 1

\* Mutant: the slot of the last page is kept, not reset.
FirstSlotKept == it.rid.slot_id

FirstSlot == 0

\* Mutant: a deleted slot is not stepped over.
SlotAfterDeletedSame(slot_id) == slot_id

SlotAfterDeleted(slot_id) == slot_id + 1

-------------------------------------------------------------------------------
(* Changes to the table.                                                      *)

\* The pages of the list up to its n-th, compacted.
Compacted(n) ==
    [p \in PageId |-> IF \E i \in 1 .. n : page_ids[i] = p THEN Compact(page[p])
                      ELSE page[p]]

\* RecordManager::Insert: the first page with room; else the first that has it
\* once compacted, with those before it; else a new page, listed if the tuple
\* fits it.
Insert(d) ==
    LET fits == {i \in 1 .. Len(page_ids) : Fits(page[page_ids[i]], d)}
        room == {i \in 1 .. Len(page_ids) : Fits(Compact(page[page_ids[i]]), d)}
        Into(pages, p) == page' = [pages EXCEPT ![p] = InsertRow(@, d)]
    IN  \/ /\ fits # {}
           /\ Into(page, page_ids[Min(fits)])
           /\ UNCHANGED <<next_page_id, page_ids>>
        \/ /\ fits = {} /\ room # {}
           /\ Into(Compacted(Min(room)), page_ids[Min(room)])
           /\ UNCHANGED <<next_page_id, page_ids>>
        \/ /\ fits = {} /\ room = {}
           /\ next_page_id < MaxPages       \* bound
           /\ next_page_id' = next_page_id + 1
           /\ IF Fits(EmptyPage, d)
              THEN /\ Into(Compacted(Len(page_ids)), next_page_id)
                   /\ page_ids' = Append(page_ids, next_page_id)
              ELSE /\ page' = Compacted(Len(page_ids))
                   /\ UNCHANGED page_ids

InsertTuple(d) ==
    /\ ~advancing
    /\ Insert(d)
    /\ UNCHANGED <<it, advancing, visited, due>>

DeleteTuple(rid) ==
    /\ ~advancing
    /\ rid.slot_id < SlotCount(rid.page_id)
    /\ page' = [page EXCEPT ![rid.page_id] = SetRow(@, rid.slot_id + 1, Deleted)]
    /\ due' = due \ {rid}
    /\ UNCHANGED <<next_page_id, page_ids, it, advancing, visited>>

-------------------------------------------------------------------------------
(* The scan: for (it = Begin(); it != End(); ++it).                           *)

\* Begin: slot 0 of the first page, or what operator++ makes of it.
Begin ==
    /\ ~advancing /\ ~Scanning
    /\ due' = {r \in RecordId : Live(r)}
    /\ IF page_ids = <<>>
       THEN it' = End /\ visited' = <<>> /\ UNCHANGED advancing
       ELSE LET first == [page_id |-> PageAt(0), slot_id |-> 0]
            IN  IF Live(first)
                THEN /\ it' = [rid |-> first, page_idx |-> 0]
                     /\ visited' = <<first>>
                     /\ UNCHANGED advancing
                ELSE /\ it' = [rid |-> [first EXCEPT !.slot_id = 1], page_idx |-> 0]
                     /\ visited' = <<>>
                     /\ advancing' = TRUE
    /\ UNCHANGED table

Increment ==
    /\ ~advancing /\ Scanning
    /\ it' = [it EXCEPT !.rid.slot_id = @ + 1]
    /\ advancing' = TRUE
    /\ UNCHANGED <<table, visited, due>>

NextSlot ==
    /\ advancing
    /\ it.rid.slot_id < SlotCount(it.rid.page_id)
    /\ IF Live(it.rid)
       THEN /\ advancing' = FALSE
            /\ visited' = Append(visited, it.rid)
            /\ UNCHANGED it
       ELSE /\ it' = [it EXCEPT !.rid.slot_id = SlotAfterDeleted(@)]
            /\ UNCHANGED <<advancing, visited>>
    /\ UNCHANGED <<table, due>>

NextPage ==
    LET page_idx == NextIndex(it.page_idx)
    IN  /\ advancing
        /\ it.rid.slot_id >= SlotCount(it.rid.page_id)
        /\ IF page_idx >= Len(page_ids)
           THEN /\ it' = [rid |-> End.rid, page_idx |-> page_idx]
                /\ advancing' = FALSE
           ELSE /\ it' = [rid |-> [page_id |-> PageAt(page_idx), slot_id |-> FirstSlot],
                          page_idx |-> page_idx]
                /\ UNCHANGED advancing
        /\ UNCHANGED <<table, visited, due>>

-------------------------------------------------------------------------------

Init ==
    /\ next_page_id = 0
    /\ page_ids = <<>>
    /\ page = [p \in PageId |-> EmptyPage]
    /\ it = End
    /\ advancing = FALSE
    /\ visited = <<>>
    /\ due = {}

Next ==
    \/ \E d \in Tuples : InsertTuple(d)
    \/ \E rid \in RecordId : DeleteTuple(rid)
    \/ Begin
    \/ Increment
    \/ NextSlot
    \/ NextPage

\* operator++ is a loop in the only thread: it goes on until it returns.
Spec == Init /\ [][Next]_vars /\ WF_vars(NextSlot \/ NextPage)

-------------------------------------------------------------------------------
(* Properties.                                                                *)

\* Every variable keeps its type, and page_idx_ stays the place in the list of
\* the page rid_ names, also when the list has grown under the iterator.
ScanTypeOK ==
    /\ next_page_id \in 0 .. MaxPages
    /\ page_ids \in Seq(0 .. next_page_id - 1)
    /\ \A p \in PageId : page[p].rows \in Seq(Tuples \cup {Deleted})
    /\ advancing \in BOOLEAN
    /\ Scanning => /\ it.rid \in RecordId
                   /\ it.page_idx \in 0 .. Len(page_ids) - 1
                   /\ page_ids[it.page_idx + 1] = it.rid.page_id

\* The order of a scan: that of the page list, then that of the slots.
Before(r, s) ==
    \E m, n \in 1 .. Len(page_ids) :
        /\ page_ids[m] = r.page_id /\ page_ids[n] = s.page_id
        /\ m < n \/ (m = n /\ r.slot_id < s.slot_id)

\* A scan goes forward, and so visits no row twice, even if the client inserts
\* rows and has pages compacted between two steps of the iterator.
VisitedInOrder ==
    \A i, j \in 1 .. Len(visited) : i < j => Before(visited[i], visited[j])

\* A scan that has reached End() has stopped at every row that was there from
\* its beginning to its end: deleted rows, also the one under the iterator and
\* those at the start of the table, hide no other.
EveryRowVisited ==
    ~advancing /\ ~Scanning =>
        \A r \in due : \E i \in 1 .. Len(visited) : visited[i] = r

\* operator++ returns, however many deleted rows and pages lie ahead.
IncrementReturns == advancing ~> ~advancing
===============================================================================
