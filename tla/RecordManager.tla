---------------------------- MODULE RecordManager -----------------------------
(***************************************************************************)
(* RecordManager (src/manager/record_manager.cpp) as the client of its own *)
(* BufferPool: every FetchPage, access through the Page* and UnpinPage is  *)
(* a step, so what an operation leaves behind in the pool is visible.      *)
(*                                                                         *)
(* A page is what RowPage keeps of it.  Update with a longer tuple is left *)
(* to SlottedPage: no component calls Update.                              *)
(***************************************************************************)
EXTENDS BufferPool, RowPage

CONSTANT
    Absent      \* records: an identifier not given out

ASSUME RecordAssumption ==
    /\ Absent \notin Tuples \cup {Deleted}
    \* The pool's images include those of the pages.
    /\ \A n \in 0 .. Capacity :
          \A rows \in [1 .. n -> Tuples \cup {Deleted}], free \in 0 .. Capacity :
              [rows |-> rows, free |-> free] \in Data

VARIABLES
    page_ids,   \* page_ids_
    op,         \* the call in progress and where it is, or NoCall
    result      \* what the last call returned, NoCall while one is in progress

recordVars == <<page_ids, op, result>>
allVars == <<vars, recordVars>>

-------------------------------------------------------------------------------
(* Calls.  `at` is the next step: fetch, access or unpin a page.              *)

NoCall == [call |-> "none"]
InvalidRecord == [page_id |-> INVALID_PAGE_ID, slot_id |-> 0]
RecordId == [page_id : PageId, slot_id : 0 .. Capacity]

Image(p) == pages[ptr[p]].data

\* FetchPage returns nullptr.
FetchFails(p) == page_table[p] = NoFrame /\ ~FrameAvailable

Return(r) == op' = NoCall /\ result' = r

\* RecordManager::Insert: two loops over page_ids_, then a new page.
CallInsert(d) ==
    /\ op = NoCall
    /\ next_page_id < MaxPages          \* bound
    /\ op' = [call |-> "Insert", tuple |-> d, phase |-> "probe", i |-> 1,
              at |-> "fetch", rid |-> InvalidRecord]
    /\ result' = NoCall
    /\ UNCHANGED <<vars, page_ids>>

InLoop == op.call = "Insert" /\ op.phase \in {"probe", "compact"}

InsertFetch ==
    /\ InLoop /\ op.at = "fetch" /\ op.i <= Len(page_ids)
    /\ LET p == page_ids[op.i]
       IN  \/ /\ FetchPage(p)
              /\ op' = [op EXCEPT !.at = "access"]
           \/ /\ FetchFails(p)
              /\ op' = [op EXCEPT !.i = @ + 1]
              /\ UNCHANGED vars
    /\ UNCHANGED <<page_ids, result>>

InsertAccess ==
    /\ InLoop /\ op.at = "access"
    /\ LET p == page_ids[op.i]
           page == IF op.phase = "probe" THEN Image(p) ELSE Compact(Image(p))
       IN  IF Fits(page, op.tuple)
           THEN /\ WriteData(p, InsertRow(page, op.tuple))
                /\ op' = [op EXCEPT !.at = "unpin",
                             !.rid = [page_id |-> p, slot_id |-> NewSlotId(page)]]
           ELSE /\ IF op.phase = "probe" THEN UNCHANGED vars ELSE WriteData(p, page)
                /\ op' = [op EXCEPT !.at = "unpin"]
    /\ UNCHANGED <<page_ids, result>>

\* Mutant: a tuple placed by the first loop is not flagged dirty.
InsertUnpinFlagCompact == op.phase = "compact"

InsertUnpinFlag == op.phase = "compact" \/ op.rid # InvalidRecord

InsertUnpin ==
    /\ InLoop /\ op.at = "unpin"
    /\ UnpinPage(page_ids[op.i], InsertUnpinFlag)
    /\ IF op.rid # InvalidRecord
       THEN Return([call |-> "Insert", tuple |-> op.tuple, rid |-> op.rid])
       ELSE /\ op' = [op EXCEPT !.i = @ + 1, !.at = "fetch"]
            /\ UNCHANGED result
    /\ UNCHANGED page_ids

\* Mutant: no second loop.
PhaseAfterProbeNew == "new"

PhaseAfterProbe == "compact"

InsertLoopEnd ==
    /\ InLoop /\ op.at = "fetch" /\ op.i > Len(page_ids)
    /\ op' = IF op.phase = "probe" THEN [op EXCEPT !.phase = PhaseAfterProbe, !.i = 1]
             ELSE [op EXCEPT !.phase = "new"]
    /\ UNCHANGED <<vars, page_ids, result>>

InsertNewPage ==
    /\ op.call = "Insert" /\ op.phase = "new" /\ op.at = "fetch"
    /\ \/ /\ NewPage
          /\ op' = [op EXCEPT !.at = "access",
                              !.rid = [page_id |-> next_page_id, slot_id |-> 0]]
          /\ UNCHANGED result
       \/ /\ ~FrameAvailable
          /\ Return([call |-> "Insert", tuple |-> op.tuple, rid |-> InvalidRecord])
          /\ UNCHANGED vars
    /\ UNCHANGED page_ids

\* InitializePage and InsertTuple.
InsertNewAccess ==
    /\ op.call = "Insert" /\ op.phase = "new" /\ op.at = "access"
    /\ WriteData(op.rid.page_id, IF Fits(EmptyPage, op.tuple)
                                 THEN InsertRow(EmptyPage, op.tuple) ELSE EmptyPage)
    /\ op' = [op EXCEPT !.at = "unpin"]
    /\ UNCHANGED <<page_ids, result>>

\* Mutant: push_back is missing.
PageIdsWithForgotten(p) == page_ids

PageIdsWith(p) == Append(page_ids, p)

InsertNewUnpin ==
    LET ok == Fits(EmptyPage, op.tuple)
    IN  /\ op.call = "Insert" /\ op.phase = "new" /\ op.at = "unpin"
        /\ UnpinPage(op.rid.page_id, ok)
        /\ page_ids' = IF ok THEN PageIdsWith(op.rid.page_id) ELSE page_ids
        /\ Return([call |-> "Insert", tuple |-> op.tuple,
                   rid |-> IF ok THEN op.rid ELSE InvalidRecord])

Insert ==
    \/ InsertFetch
    \/ InsertAccess
    \/ InsertUnpin
    \/ InsertLoopEnd
    \/ InsertNewPage
    \/ InsertNewAccess
    \/ InsertNewUnpin

-------------------------------------------------------------------------------
(* Get, Delete and Update: fetch the page of rid, look at the slot, unpin.    *)

\* The record under each identifier, as the pool's client reads it.
records ==
    [r \in RecordId |->
        LET page == contents[r.page_id]
        IN  IF page = Unwritten THEN Absent
            ELSE IF r.slot_id >= Len(page.rows) THEN Absent
            ELSE page.rows[r.slot_id + 1]]

\* rid names a page of the table, or the slot after its last one.
CallRow(name, rid, d) ==
    /\ op = NoCall
    /\ \E i \in 1 .. Len(page_ids) : rid.page_id = page_ids[i]
    /\ name = "Update" /\ records[rid] \in Tuples => Size[d] <= Size[records[rid]]
    /\ op' = [call |-> name, tuple |-> d, rid |-> rid, at |-> "fetch",
              ok |-> FALSE, row |-> Deleted]
    /\ result' = NoCall
    /\ UNCHANGED <<vars, page_ids>>

RowCall == op.call \in {"Get", "Delete", "Update"}

RowFetch ==
    /\ RowCall /\ op.at = "fetch"
    /\ \/ /\ FetchPage(op.rid.page_id)
          /\ op' = [op EXCEPT !.at = "access"]
          /\ UNCHANGED result
       \/ /\ FetchFails(op.rid.page_id)
          /\ Return([call |-> op.call, rid |-> op.rid, ok |-> FALSE, row |-> Deleted])
          /\ UNCHANGED vars
    /\ UNCHANGED page_ids

RowAccess ==
    /\ RowCall /\ op.at = "access"
    /\ LET page == Image(op.rid.page_id)
           s == op.rid.slot_id + 1
           Row == IF s <= Len(page.rows) THEN page.rows[s] ELSE Absent
       IN  \/ /\ op.call = "Get"
              /\ op' = [op EXCEPT !.at = "unpin", !.ok = Row \in Tuples,
                                  !.row = IF Row \in Tuples THEN Row ELSE Deleted]
              /\ UNCHANGED vars
           \/ /\ op.call = "Delete" /\ Row # Absent
              /\ WriteData(op.rid.page_id, SetRow(page, s, Deleted))
              /\ op' = [op EXCEPT !.at = "unpin", !.ok = TRUE]
           \/ /\ op.call = "Update" /\ Row \in Tuples /\ Size[op.tuple] <= Size[Row]
              /\ WriteData(op.rid.page_id, SetRow(page, s, op.tuple))
              /\ op' = [op EXCEPT !.at = "unpin", !.ok = TRUE]
           \/ /\ \/ op.call = "Delete" /\ Row = Absent
                 \/ op.call = "Update" /\ Row \notin Tuples
              /\ op' = [op EXCEPT !.at = "unpin"]
              /\ UNCHANGED vars
    /\ UNCHANGED <<page_ids, result>>

\* Mutant: the early returns forget UnpinPage.
RowUnpinSkipped ==
    /\ RowCall /\ op.at = "unpin"
    /\ IF op.ok THEN UnpinPage(op.rid.page_id, op.call # "Get") ELSE UNCHANGED vars
    /\ Return([call |-> op.call, rid |-> op.rid, ok |-> op.ok, row |-> op.row])
    /\ UNCHANGED page_ids

RowUnpin ==
    /\ RowCall /\ op.at = "unpin"
    /\ UnpinPage(op.rid.page_id, op.call # "Get" /\ op.ok)
    /\ Return([call |-> op.call, rid |-> op.rid, ok |-> op.ok, row |-> op.row])
    /\ UNCHANGED page_ids

\* RecordManager::Flush.
Flush ==
    /\ op = NoCall
    /\ FlushAllPages \/ (DirtyPages = {} /\ UNCHANGED vars)
    /\ UNCHANGED recordVars

-------------------------------------------------------------------------------

RecordInit ==
    /\ Init
    /\ page_ids = <<>>
    /\ op = NoCall
    /\ result = NoCall

RecordNext ==
    \/ \E d \in Tuples : CallInsert(d)
    \/ Insert
    \/ \E rid \in RecordId :
          \/ \E name \in {"Get", "Delete"} : CallRow(name, rid, Deleted)
          \/ \E d \in Tuples : CallRow("Update", rid, d)
    \/ RowFetch
    \/ RowAccess
    \/ RowUnpin
    \/ Flush

RecordSpec == RecordInit /\ [][RecordNext]_allVars

-------------------------------------------------------------------------------
(* Properties.                                                                *)

\* page_ids_ lists allocated pages, each once, and free space stays within
\* the page.
RecordTypeOK ==
    /\ page_ids \in Seq(0 .. next_page_id - 1)
    /\ \A i, j \in 1 .. Len(page_ids) : page_ids[i] = page_ids[j] => i = j
    /\ \A p \in written : /\ contents[p].rows \in Seq(Tuples \cup {Deleted})
                          /\ contents[p].free \in 0 .. Capacity

\* No operation holds two pins, and none returns, on any of its early exits,
\* with a page still pinned: the discipline under which the pool is correct.
OnePinAtATime ==
    /\ \A p, q \in PageId : held[p] > 0 /\ held[q] > 0 => p = q /\ held[p] = 1
    /\ op = NoCall => \A p \in PageId : held[p] = 0

\* FetchPage and NewPage never return nullptr, so no scan or search for space
\* silently skips a page.
PoolNeverExhausted == op = NoCall \/ op.at = "fetch" => FrameAvailable

\* A row outside page_ids_ is one no scan and no later Insert would find.
NoOrphanRow ==
    op = NoCall => \A p \in written :
        contents[p].rows # <<>> => \E i \in 1 .. Len(page_ids) : page_ids[i] = p

\* What a call answers is what the store holds: Insert's identifier leads to
\* the tuple, Get's tuple is the record's, and Insert fails only for a tuple
\* no page could hold.
AnswersAreTrue ==
    op = NoCall =>
        /\ result.call = "Insert" =>
              IF result.rid = InvalidRecord THEN ~Fits(EmptyPage, result.tuple)
              ELSE records[result.rid] = result.tuple
        /\ result.call = "Get" =>
              IF result.ok THEN records[result.rid] = result.row
              ELSE records[result.rid] \notin Tuples
        /\ result.call = "Delete" => (result.ok <=> records[result.rid] # Absent)

\* A page is added only when compacting any listed page would not make room.
GrowsOnlyWhenFull ==
    [][next_page_id' # next_page_id =>
          \A i \in 1 .. Len(page_ids) :
              ~Fits(Compact(contents[page_ids[i]]), op.tuple)]_allVars

\* The record manager over the buffer pool implements the record store.
Records == INSTANCE RecordStore
RecordsReadBack == Records!Spec
===============================================================================
