------------------------------ MODULE BufferPool ------------------------------
(***************************************************************************)
(* BufferPoolManager (src/manager/buffer_pool_manager.cpp) over one        *)
(* DiskManager file, driven by a client like RecordManager: it fetches     *)
(* only pages it was given by NewPage, writes through the pointer while it *)
(* holds a pin, and unpins.  A client that unpins with is_dirty = false    *)
(* after it wrote gives those writes up, as RecordManager::Insert does     *)
(* with the header of a new page its tuple did not fit in.                 *)
(*                                                                         *)
(* lru_pos_ is the set of frames in lru_list_ with their positions; the    *)
(* code updates the two together, so lru_list stands for both.             *)
(***************************************************************************)
EXTENDS DiskManager, Sequences, FiniteSets

CONSTANTS
    PoolSize,   \* pool_size_
    MaxPins,    \* bound: pins the client holds on one page at a time
    Data,       \* page images
    Unwritten   \* what the abstract store holds for a page never written

ASSUME PoolAssumption ==
    /\ PoolSize \in Nat \ {0}
    /\ MaxPages \in Nat
    /\ MaxPins \in Nat \ {0}
    /\ Zero \in Data
    /\ Unwritten \notin Data

VARIABLES
    pages,          \* pages_: the frames
    page_table,     \* page_table_: page id -> frame, NoFrame when absent
    free_list,      \* free_list_
    lru_list,       \* lru_list_ / lru_pos_, least recently unpinned first
    next_page_id,   \* next_page_id_
    disk,           \* the file behind disk_manager_
    held,           \* client: pins it holds on each page
    ptr,            \* client: the frame its pointer to the page points to
    written,        \* client: pages whose contents it has written
    unflagged       \* client: pages written since their last dirty unpin

poolVars == <<pages, page_table, free_list, lru_list, next_page_id, disk>>
clientVars == <<held, ptr, written, unflagged>>
vars == <<pages, page_table, free_list, lru_list, next_page_id, disk,
          held, ptr, written, unflagged>>

Frame == 0 .. PoolSize - 1
NoFrame == -1
INVALID_PAGE_ID == -1

Page == [page_id   : PageId \cup {INVALID_PAGE_ID},
         pin_count : Nat,
         is_dirty  : BOOLEAN,
         data      : Data]

-------------------------------------------------------------------------------
(* The list operations.                                                       *)

InList(s, f) == \E i \in 1 .. Len(s) : s[i] = f

\* lru_list_.erase(lru_pos_[f]), for a list in which f occurs once.
Erase(s, f) ==
    LET k == CHOOSE i \in 1 .. Len(s) : s[i] = f
    IN  [i \in 1 .. Len(s) - 1 |-> IF i < k THEN s[i] ELSE s[i + 1]]

\* Mutants: a pin leaves the frame evictable; an unpin forgets the frame.
PinFrameIgnored(s, f) == s
UnpinFrameForgotten(s, f) == s

PinFrame(s, f) == IF InList(s, f) THEN Erase(s, f) ELSE s
UnpinFrame(s, f) == IF InList(s, f) THEN s ELSE Append(s, f)

-------------------------------------------------------------------------------
(* GetFreeFrameOrVictim, and what FetchPage and NewPage do with the frame.    *)

\* Mutant: no victim is looked for.
FrameAvailableNoVictim == free_list # <<>>

FrameAvailable == free_list # <<>> \/ lru_list # <<>>

GetFreeFrameOrVictim ==
    IF free_list = <<>> THEN Head(lru_list) ELSE Head(free_list)

\* Mutant: the previous page is dropped instead of written back.
DiskAfterEvictionDropped(f) == disk

\* The file once the frame's previous page has been written back.
DiskAfterEviction(f) ==
    IF pages[f].page_id # INVALID_PAGE_ID /\ pages[f].is_dirty
    THEN WritePage(disk, pages[f].page_id, pages[f].data)
    ELSE disk

\* Mutant: the victim's entry stays in the table.
TableAfterInstallKeepsVictim(p, f) == [page_table EXCEPT ![p] = f]

TableAfterInstall(p, f) ==
    [q \in PageId |-> IF q = p THEN f
                      ELSE IF q = pages[f].page_id THEN NoFrame
                      ELSE page_table[q]]

\* Page p, holding `data`, takes frame f over from whatever f held.
Install(p, f, data) ==
    /\ free_list' = IF free_list = <<>> THEN free_list ELSE Tail(free_list)
    /\ lru_list' =
          PinFrame(IF free_list = <<>> THEN Tail(lru_list) ELSE lru_list, f)
    /\ disk' = DiskAfterEviction(f)
    /\ page_table' = TableAfterInstall(p, f)
    /\ pages' = [pages EXCEPT ![f] = [page_id |-> p, pin_count |-> 1,
                                      is_dirty |-> FALSE, data |-> data]]

-------------------------------------------------------------------------------
(* Operations.  The calls that fail (an exhausted pool, an unknown or pinned  *)
(* page) change nothing and are stuttering steps.                             *)

NewPage ==
    /\ next_page_id < MaxPages
    /\ FrameAvailable
    /\ Install(next_page_id, GetFreeFrameOrVictim, Zero)
    /\ next_page_id' = next_page_id + 1
    /\ held' = [held EXCEPT ![next_page_id] = 1]
    /\ ptr' = [ptr EXCEPT ![next_page_id] = GetFreeFrameOrVictim]
    /\ UNCHANGED <<written, unflagged>>

\* Mutant: a second fetch does not count.
FetchHitUncounted(p) ==
    /\ page_table[p] # NoFrame
    /\ lru_list' = PinFrame(lru_list, page_table[p])
    /\ ptr' = [ptr EXCEPT ![p] = page_table[p]]
    /\ UNCHANGED <<pages, page_table, free_list, disk>>

FetchHit(p) ==
    /\ page_table[p] # NoFrame
    /\ pages' = [pages EXCEPT ![page_table[p]].pin_count = @ + 1]
    /\ lru_list' = PinFrame(lru_list, page_table[p])
    /\ ptr' = [ptr EXCEPT ![p] = page_table[p]]
    /\ UNCHANGED <<page_table, free_list, disk>>

FetchMiss(p) ==
    /\ page_table[p] = NoFrame
    /\ FrameAvailable
    /\ LET f == GetFreeFrameOrVictim
       IN  /\ Install(p, f, ReadPage(DiskAfterEviction(f), p, pages[f].data))
           /\ ptr' = [ptr EXCEPT ![p] = f]

FetchPage(p) ==
    /\ p < next_page_id
    /\ held[p] < MaxPins
    /\ FetchHit(p) \/ FetchMiss(p)
    /\ held' = [held EXCEPT ![p] = @ + 1]
    /\ UNCHANGED <<next_page_id, written, unflagged>>

UnpinPage(p, is_dirty) ==
    /\ held[p] > 0
    /\ page_table[p] # NoFrame
    /\ LET f == page_table[p]
       IN  /\ pages[f].pin_count > 0
           /\ pages' = [pages EXCEPT ![f] =
                          [page_id   |-> pages[f].page_id,
                           pin_count |-> pages[f].pin_count - 1,
                           is_dirty  |-> is_dirty \/ pages[f].is_dirty,
                           data      |-> pages[f].data]]
           /\ lru_list' = UnpinFrame(lru_list, f)
    /\ held' = [held EXCEPT ![p] = @ - 1]
    /\ written' = IF is_dirty \/ p \notin unflagged THEN written ELSE written \ {p}
    /\ unflagged' = unflagged \ {p}
    /\ UNCHANGED <<page_table, free_list, next_page_id, disk, ptr>>

FlushPage(p) ==
    /\ page_table[p] # NoFrame
    /\ LET f == page_table[p]
       IN  /\ pages[f].is_dirty
           /\ disk' = WritePage(disk, p, pages[f].data)
           /\ pages' = [pages EXCEPT ![f].is_dirty = FALSE]
    /\ UNCHANGED <<page_table, free_list, lru_list, next_page_id>>
    /\ UNCHANGED clientVars

\* Mutant: pinned pages are not flushed.
DirtyPagesUnpinned ==
    {p \in PageId : /\ page_table[p] # NoFrame
                    /\ pages[page_table[p]].is_dirty
                    /\ pages[page_table[p]].pin_count = 0}

\* FlushAllPages writes every dirty page in the table, in hash-map order.
DirtyPages ==
    {p \in PageId : page_table[p] # NoFrame /\ pages[page_table[p]].is_dirty}

FlushAllPages ==
    /\ DirtyPages # {}
    /\ disk' = [extent |-> disk.extent \cup
                             {q \in PageId : \E p \in DirtyPages : q <= p},
                page   |-> [p \in PageId |-> IF p \in DirtyPages
                                             THEN pages[page_table[p]].data
                                             ELSE disk.page[p]]]
    /\ pages' = [f \in Frame |->
                    IF pages[f].page_id \in DirtyPages
                    THEN [pages[f] EXCEPT !.is_dirty = FALSE] ELSE pages[f]]
    /\ UNCHANGED <<page_table, free_list, lru_list, next_page_id>>
    /\ UNCHANGED clientVars

\* The frame goes to the free list but is left in lru_list_.
DeletePage(p) ==
    /\ page_table[p] # NoFrame
    /\ LET f == page_table[p]
       IN  /\ pages[f].pin_count <= 0
           /\ disk' = IF pages[f].is_dirty
                      THEN WritePage(disk, p, pages[f].data) ELSE disk
           /\ pages' = [pages EXCEPT ![f] =
                          [page_id |-> INVALID_PAGE_ID, pin_count |-> 0,
                           is_dirty |-> FALSE, data |-> pages[f].data]]
           /\ free_list' = Append(free_list, f)
    /\ page_table' = [page_table EXCEPT ![p] = NoFrame]
    /\ UNCHANGED <<lru_list, next_page_id>>
    /\ UNCHANGED clientVars

\* The client stores d through the Page* it holds (PageDataManager, memcpy).
WriteData(p, d) ==
    /\ held[p] > 0
    /\ pages' = [pages EXCEPT ![ptr[p]].data = d]
    /\ written' = written \cup {p}
    /\ unflagged' = unflagged \cup {p}
    /\ UNCHANGED <<page_table, free_list, lru_list, next_page_id, disk,
                   held, ptr>>

-------------------------------------------------------------------------------

\* Mutant: frame ids start at 1.
InitialFreeListFromOne == [i \in 1 .. PoolSize |-> i]

InitialFreeList == [i \in 1 .. PoolSize |-> i - 1]

Init ==
    /\ pages = [f \in Frame |-> [page_id |-> INVALID_PAGE_ID, pin_count |-> 0,
                                 is_dirty |-> FALSE, data |-> Zero]]
    /\ page_table = [p \in PageId |-> NoFrame]
    /\ free_list = InitialFreeList
    /\ lru_list = <<>>
    /\ next_page_id = 0
    /\ disk = EmptyFile
    /\ held = [p \in PageId |-> 0]
    /\ ptr = [p \in PageId |-> NoFrame]
    /\ written = {}
    /\ unflagged = {}

Next ==
    \/ NewPage
    \/ FlushAllPages
    \/ \E p \in PageId :
          \/ FetchPage(p)
          \/ \E is_dirty \in BOOLEAN : UnpinPage(p, is_dirty)
          \/ FlushPage(p)
          \/ DeletePage(p)
          \/ \E d \in Data : WriteData(p, d)

Spec == Init /\ [][Next]_vars

-------------------------------------------------------------------------------
(* Properties.                                                                *)

Resident(p) == page_table[p] # NoFrame

\* Every variable keeps its type.
TypeOK ==
    /\ pages \in [Frame -> Page]
    /\ page_table \in [PageId -> Frame \cup {NoFrame}]
    /\ free_list \in Seq(Frame)
    /\ lru_list \in Seq(Frame)
    /\ next_page_id \in 0 .. MaxPages
    /\ disk \in [extent : SUBSET PageId, page : [PageId -> Data]]
    /\ held \in [PageId -> 0 .. MaxPins]
    /\ ptr \in [PageId -> Frame \cup {NoFrame}]
    /\ written \in SUBSET PageId
    /\ unflagged \in SUBSET written

\* The page table and the frames' page_id fields are inverse to each other:
\* no page has two frames, no entry survives the eviction of its page.
TableMatchesFrames ==
    /\ \A p \in PageId : Resident(p) => pages[page_table[p]].page_id = p
    /\ \A f \in Frame : pages[f].page_id # INVALID_PAGE_ID =>
                            page_table[pages[f].page_id] = f

\* Every frame can be used again: an empty one is in free_list, an unpinned
\* one in lru_list, and neither list hands a frame out twice.
NoFrameLost ==
    /\ \A f \in Frame :
          /\ pages[f].page_id = INVALID_PAGE_ID <=> InList(free_list, f)
          /\ pages[f].pin_count = 0 => InList(free_list, f) \/ InList(lru_list, f)
    /\ \A i, j \in 1 .. Len(free_list) : free_list[i] = free_list[j] => i = j
    /\ \A i, j \in 1 .. Len(lru_list) : lru_list[i] = lru_list[j] => i = j

\* The pool's pin count is the number of pins its client holds, whatever the
\* interleaving of hits, misses, evictions and deletions.
PinsMatchHolders ==
    \A p \in PageId : Resident(p) => pages[page_table[p]].pin_count = held[p]

\* While a client holds a pin, the frame behind its Page* still is that
\* page's: nothing evicts, deletes or reuses it under the pointer.
PointerValid ==
    \A p \in PageId : held[p] > 0 => /\ Resident(p)
                                     /\ page_table[p] = ptr[p]

\* GetFreeFrameOrVictim fails only when every frame is pinned by the client.
NoSpuriousExhaustion ==
    ~FrameAvailable => \A f \in Frame : \E p \in PageId : ptr[p] = f /\ held[p] > 0

\* "All pages pinned means no eviction candidate": a pinned frame is never
\* offered as a victim (tests/test_buffer_pool_manager.cpp).
AllPinnedMeansNoVictim ==
    (\A f \in Frame : pages[f].pin_count > 0) => ~FrameAvailable

\* A page whose writes were all flagged is either dirty in the pool or on disk
\* as last written: eviction, deletion and flushing never drop a write.
NoWriteLost ==
    \A p \in written :
        \/ p \in unflagged
        \/ Resident(p) /\ pages[page_table[p]].is_dirty
        \/ /\ p \in disk.extent
           /\ Resident(p) => disk.page[p] = pages[page_table[p]].data

\* What a client that fetches p would find in it.
contents ==
    [p \in PageId |->
        IF p \notin written THEN Unwritten
        ELSE IF Resident(p) THEN pages[page_table[p]].data
        ELSE disk.page[p]]

\* After FlushAllPages the file alone reproduces every flagged write, so a
\* process that stops afterwards loses none of them.
FlushIsComplete ==
    [][FlushAllPages =>
          \A p \in written \ unflagged : /\ p \in disk'.extent
                                         /\ disk'.page[p] = contents[p]]_vars

\* The pool implements the page store: no sequence of operations lets a client
\* observe that pages are cached, evicted and read back.
Store == INSTANCE PageStore WITH allocated <- next_page_id
CachingInvisible == Store!Spec
===============================================================================
