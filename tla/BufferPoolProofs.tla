--------------------------- MODULE BufferPoolProofs ---------------------------
(***************************************************************************)
(* Proofs about BufferPool, for every pool size, number of pages and set   *)
(* of images, under the discipline that RecordManager keeps                *)
(* (RecordManagerProofs): one pin per page at a time.  The lemmas ask for  *)
(* it in the step they are about, the theorems as MaxPins = 1.  Without it *)
(* the pool is wrong, as the run of AllPinnedMeansNoVictim shows.          *)
(***************************************************************************)
EXTENDS BufferPool, TLAPS

-------------------------------------------------------------------------------
(* Lists without repetition: what each list operation does to the elements.   *)

NoDup(s) == \A i, j \in 1 .. Len(s) : s[i] = s[j] => i = j

\* std::list::erase through the position map takes out that frame and no other.
LEMMA EraseLemma ==
    ASSUME NEW S, NEW s \in Seq(S), NEW f, NoDup(s), InList(s, f)
    PROVE  /\ Erase(s, f) \in Seq(S)
           /\ NoDup(Erase(s, f))
           /\ \A g : InList(Erase(s, f), g) <=> InList(s, g) /\ g # f
<1> DEFINE k == CHOOSE i \in 1 .. Len(s) : s[i] = f
           t == [i \in 1 .. Len(s) - 1 |-> IF i < k THEN s[i] ELSE s[i + 1]]
<1>1. k \in 1 .. Len(s) /\ s[k] = f
  BY DEF InList
<1>2. Len(s) \in Nat
  OBVIOUS
<1> HIDE DEF k
<1>3. t \in Seq(S) /\ Len(t) = Len(s) - 1
  BY <1>1, <1>2
<1>4. NoDup(t)
  BY <1>1, <1>2, <1>3 DEF NoDup
<1>5. ASSUME NEW g PROVE InList(t, g) <=> InList(s, g) /\ g # f
  <2>1. ASSUME InList(t, g) PROVE InList(s, g) /\ g # f
    BY <1>1, <1>2, <1>3, <2>1 DEF InList, NoDup
  <2>2. ASSUME InList(s, g), g # f PROVE InList(t, g)
    <3>1. PICK i \in 1 .. Len(s) : s[i] = g
      BY <2>2 DEF InList
    <3>2. CASE i < k
      <4>1. i \in 1 .. Len(t) /\ t[i] = g
        BY <1>1, <1>2, <1>3, <3>1, <3>2
      <4> QED BY <4>1 DEF InList
    <3>3. CASE i > k
      <4>1. i - 1 \in 1 .. Len(t) /\ t[i - 1] = g
        BY <1>1, <1>2, <1>3, <3>1, <3>3
      <4> QED BY <4>1 DEF InList
    <3> QED BY <1>1, <2>2, <3>1, <3>2, <3>3
  <2> QED BY <2>1, <2>2
<1>6. Erase(s, f) = t
  BY DEF Erase, k
<1> QED BY <1>3, <1>4, <1>5, <1>6

\* pop_front.
LEMMA TailLemma ==
    ASSUME NEW S, NEW s \in Seq(S), NoDup(s), s # <<>>
    PROVE  /\ Head(s) \in S /\ InList(s, Head(s))
           /\ Tail(s) \in Seq(S)
           /\ NoDup(Tail(s))
           /\ \A g : InList(Tail(s), g) <=> InList(s, g) /\ g # Head(s)
<1>1. /\ Len(s) \in Nat \ {0}
      /\ Head(s) = s[1]
      /\ Tail(s) \in Seq(S)
      /\ Len(Tail(s)) = Len(s) - 1
      /\ \A i \in 1 .. Len(Tail(s)) : Tail(s)[i] = s[i + 1]
  OBVIOUS
<1>2. Head(s) \in S /\ InList(s, Head(s))
  BY <1>1 DEF InList
<1>3. NoDup(Tail(s))
  BY <1>1 DEF NoDup
<1>4. ASSUME NEW g, InList(Tail(s), g) PROVE InList(s, g) /\ g # Head(s)
  BY <1>1, <1>4 DEF InList, NoDup
<1>5. ASSUME NEW g, InList(s, g), g # Head(s) PROVE InList(Tail(s), g)
  <2>1. PICK i \in 1 .. Len(s) : s[i] = g
    BY <1>5 DEF InList
  <2>2. i - 1 \in 1 .. Len(Tail(s)) /\ Tail(s)[i - 1] = g
    BY <1>1, <1>5, <2>1
  <2> QED BY <2>2 DEF InList
<1> QED BY <1>1, <1>2, <1>3, <1>4, <1>5

\* push_back of a frame the list does not hold.
LEMMA AppendLemma ==
    ASSUME NEW S, NEW s \in Seq(S), NEW f \in S, NoDup(s), ~InList(s, f)
    PROVE  /\ Append(s, f) \in Seq(S)
           /\ NoDup(Append(s, f))
           /\ \A g : InList(Append(s, f), g) <=> InList(s, g) \/ g = f
<1>1. /\ Len(s) \in Nat
      /\ Append(s, f) \in Seq(S)
      /\ Len(Append(s, f)) = Len(s) + 1
      /\ \A i \in 1 .. Len(s) : Append(s, f)[i] = s[i]
      /\ Append(s, f)[Len(s) + 1] = f
  OBVIOUS
<1>2. NoDup(Append(s, f))
  BY <1>1 DEF NoDup, InList
<1>3. ASSUME NEW g, InList(Append(s, f), g) PROVE InList(s, g) \/ g = f
  BY <1>1, <1>3 DEF InList
<1>4. ASSUME NEW g, InList(s, g) \/ g = f PROVE InList(Append(s, f), g)
  <2>1. CASE g = f
    <3>1. Len(s) + 1 \in 1 .. Len(Append(s, f))
      BY <1>1
    <3> QED BY <1>1, <2>1, <3>1 DEF InList
  <2>2. CASE InList(s, g)
    BY <1>1, <2>2 DEF InList
  <2> QED BY <1>4, <2>1, <2>2
<1> QED BY <1>1, <1>2, <1>3, <1>4

-------------------------------------------------------------------------------
(* The inductive invariant.  To the checked invariants it adds what the code  *)
(* relies on at each step: an unpinned frame is on one of the lists (else it  *)
(* is lost), a listed resident frame is unpinned (else it is evicted under    *)
(* its pointer), and the client's unflagged writes are still pinned.          *)

LruUnpinned ==
    \A f \in Frame : InList(lru_list, f) /\ pages[f].page_id # INVALID_PAGE_ID
                        => pages[f].pin_count = 0

EmptyUnpinned ==
    \A f \in Frame : pages[f].page_id = INVALID_PAGE_ID => pages[f].pin_count = 0

OnlyAllocated ==
    \A p \in PageId : Resident(p) \/ p \in written => p < next_page_id

UnflaggedHeld == \A p \in unflagged : held[p] > 0

IInv ==
    /\ TypeOK
    /\ TableMatchesFrames
    /\ NoFrameLost
    /\ PinsMatchHolders
    /\ PointerValid
    /\ NoWriteLost
    /\ LruUnpinned
    /\ EmptyUnpinned
    /\ OnlyAllocated
    /\ UnflaggedHeld

LEMMA InitIInv == Init => IInv
<1> SUFFICES ASSUME Init PROVE IInv
  OBVIOUS
<1> USE PoolAssumption DEF Init, InitialFreeList
<1>1. /\ free_list \in Seq(Frame)
      /\ \A f \in Frame : InList(free_list, f)
      /\ NoDup(free_list)
  <2>1. PoolSize \in Nat
    OBVIOUS
  <2>2. free_list \in Seq(Frame) /\ Len(free_list) = PoolSize
    BY <2>1 DEF Frame
  <2>3. ASSUME NEW f \in Frame PROVE InList(free_list, f)
    <3>1. f + 1 \in 1 .. Len(free_list) /\ free_list[f + 1] = f
      BY <2>1, <2>2 DEF Frame
    <3> QED BY <3>1 DEF InList
  <2> QED BY <2>1, <2>2, <2>3 DEF NoDup
<1>2. TypeOK
  BY <1>1 DEF TypeOK, Frame, Page, PageId, NoFrame, INVALID_PAGE_ID, EmptyFile
<1>3. NoFrameLost
  BY <1>1 DEF NoFrameLost, NoDup, INVALID_PAGE_ID
<1>4. TableMatchesFrames /\ PinsMatchHolders /\ PointerValid /\ NoWriteLost
  BY DEF TableMatchesFrames, PinsMatchHolders, PointerValid, NoWriteLost, Resident
<1>5. LruUnpinned /\ EmptyUnpinned /\ OnlyAllocated /\ UnflaggedHeld
  BY DEF LruUnpinned, EmptyUnpinned, OnlyAllocated, UnflaggedHeld, Resident
<1> QED BY <1>2, <1>3, <1>4, <1>5 DEF IInv

\* The frame that GetFreeFrameOrVictim picks is empty or holds an unpinned
\* page, and taking it removes it from both lists.
LEMMA VictimLemma ==
    ASSUME IInv, FrameAvailable,
           NEW p, NEW d, NEW f, f = GetFreeFrameOrVictim, Install(p, f, d)
    PROVE  /\ f \in Frame /\ pages[f].pin_count = 0
           /\ free_list' \in Seq(Frame) /\ NoDup(free_list')
           /\ \A g : InList(free_list', g) <=> InList(free_list, g) /\ g # f
           /\ lru_list' \in Seq(Frame) /\ NoDup(lru_list')
           /\ \A g : InList(lru_list', g) <=> InList(lru_list, g) /\ g # f
<1>1. /\ free_list \in Seq(Frame) /\ NoDup(free_list)
      /\ lru_list \in Seq(Frame) /\ NoDup(lru_list)
  BY DEF IInv, TypeOK, NoFrameLost, NoDup
<1>2. CASE free_list = <<>>
  <2>1. lru_list # <<>> /\ f = Head(lru_list)
    BY <1>2 DEF FrameAvailable, GetFreeFrameOrVictim
  <2>2. /\ f \in Frame /\ InList(lru_list, f)
        /\ Tail(lru_list) \in Seq(Frame) /\ NoDup(Tail(lru_list))
        /\ \A g : InList(Tail(lru_list), g) <=> InList(lru_list, g) /\ g # f
    BY <1>1, <2>1, TailLemma
  <2>3. ~InList(free_list, f)
    BY <1>2 DEF InList
  <2>4. pages[f].pin_count = 0
    BY <2>2, <2>3 DEF IInv, NoFrameLost, LruUnpinned
  <2>5. free_list' = free_list /\ lru_list' = Tail(lru_list)
    BY <1>2, <2>2 DEF Install, PinFrame
  <2>6. \A g : ~InList(free_list, g)
    BY <1>2 DEF InList
  <2> QED BY <1>1, <2>2, <2>4, <2>5, <2>6
<1>3. CASE free_list # <<>>
  <2>1. f = Head(free_list)
    BY <1>3 DEF GetFreeFrameOrVictim
  <2>2. /\ f \in Frame /\ InList(free_list, f)
        /\ Tail(free_list) \in Seq(Frame) /\ NoDup(Tail(free_list))
        /\ \A g : InList(Tail(free_list), g) <=> InList(free_list, g) /\ g # f
    BY <1>1, <1>3, <2>1, TailLemma
  <2>3. pages[f].pin_count = 0
    BY <2>2 DEF IInv, NoFrameLost, EmptyUnpinned
  <2>4. free_list' = Tail(free_list) /\ lru_list' = PinFrame(lru_list, f)
    BY <1>3 DEF Install
  <2>5. /\ lru_list' \in Seq(Frame) /\ NoDup(lru_list')
        /\ \A g : InList(lru_list', g) <=> InList(lru_list, g) /\ g # f
    <3>1. CASE InList(lru_list, f)
      BY <1>1, <2>4, <3>1, EraseLemma DEF PinFrame
    <3>2. CASE ~InList(lru_list, f)
      BY <1>1, <2>4, <3>2 DEF PinFrame
    <3> QED BY <3>1, <3>2
  <2> QED BY <2>2, <2>3, <2>4, <2>5
<1> QED BY <1>2, <1>3

\* A page moves into a frame: NewPage, and FetchPage of a page not resident.
LEMMA InstallLemma ==
    ASSUME IInv, FrameAvailable,
           NEW p \in PageId, ~Resident(p),
           NEW d \in Data, p \in written => d = disk.page[p],
           Install(p, GetFreeFrameOrVictim, d),
           next_page_id' \in next_page_id .. MaxPages, p < next_page_id',
           held' = [held EXCEPT ![p] = 1],
           ptr' = [ptr EXCEPT ![p] = GetFreeFrameOrVictim],
           UNCHANGED <<written, unflagged>>
    PROVE  /\ IInv'
           /\ contents' = contents
<1> DEFINE f == GetFreeFrameOrVictim
<1> USE PoolAssumption
<1>1. /\ f \in Frame /\ pages[f].pin_count = 0
      /\ free_list' \in Seq(Frame) /\ NoDup(free_list')
      /\ \A g : InList(free_list', g) <=> InList(free_list, g) /\ g # f
      /\ lru_list' \in Seq(Frame) /\ NoDup(lru_list')
      /\ \A g : InList(lru_list', g) <=> InList(lru_list, g) /\ g # f
  BY VictimLemma
<1>2. /\ pages' = [pages EXCEPT ![f] = [page_id |-> p, pin_count |-> 1,
                                        is_dirty |-> FALSE, data |-> d]]
      /\ page_table' = [q \in PageId |-> IF q = p THEN f
                                         ELSE IF q = pages[f].page_id THEN NoFrame
                                         ELSE page_table[q]]
      /\ disk' = DiskAfterEviction(f)
      /\ ptr' = [ptr EXCEPT ![p] = f]
  BY DEF Install, TableAfterInstall
<1>3. TypeOK /\ held[p] = 0 /\ next_page_id \in Nat
  BY DEF IInv, TypeOK, PointerValid
<1>4. pages[f] \in Page
  BY <1>1, <1>3 DEF TypeOK
<1> HIDE DEF f
<1>5. /\ disk' \in [extent : SUBSET PageId, page : [PageId -> Data]]
      /\ disk.extent \subseteq disk'.extent
      /\ \A q \in PageId : q # pages[f].page_id => disk'.page[q] = disk.page[q]
      /\ pages[f].page_id = INVALID_PAGE_ID => disk' = disk
      /\ \A q \in PageId :
            q = pages[f].page_id =>
                IF pages[f].is_dirty
                THEN q \in disk'.extent /\ disk'.page[q] = pages[f].data
                ELSE disk' = disk
  <2>1. disk \in [extent : SUBSET PageId, page : [PageId -> Data]]
    BY <1>3 DEF TypeOK
  <2>2. CASE pages[f].page_id # INVALID_PAGE_ID /\ pages[f].is_dirty
    <3>1. disk' = WritePage(disk, pages[f].page_id, pages[f].data)
      BY <1>2, <2>2 DEF DiskAfterEviction
    <3>2. pages[f].page_id \in PageId /\ pages[f].data \in Data
      BY <1>4, <2>2 DEF Page
    <3>3. 0 .. pages[f].page_id \subseteq PageId
          /\ pages[f].page_id \in 0 .. pages[f].page_id
      BY <3>2 DEF PageId
    <3> QED BY <2>1, <2>2, <3>1, <3>2, <3>3 DEF WritePage
  <2>3. CASE ~(pages[f].page_id # INVALID_PAGE_ID /\ pages[f].is_dirty)
    <3>1. disk' = disk
      BY <1>2, <2>3 DEF DiskAfterEviction
    <3>2. ASSUME NEW q \in PageId, q = pages[f].page_id PROVE ~pages[f].is_dirty
      BY <2>3, <3>2 DEF PageId, INVALID_PAGE_ID
    <3> QED BY <2>1, <3>1, <3>2
  <2> QED BY <2>2, <2>3
<1>6. TypeOK'
  <2>1. pages' \in [Frame -> Page]
    BY <1>1, <1>2, <1>3 DEF TypeOK, Page
  <2>2. page_table' \in [PageId -> Frame \cup {NoFrame}]
    BY <1>1, <1>2, <1>3 DEF TypeOK
  <2>3. held' \in [PageId -> 0 .. MaxPins] /\ ptr' \in [PageId -> Frame \cup {NoFrame}]
    BY <1>1, <1>2, <1>3 DEF TypeOK
  <2>4. /\ next_page_id' \in 0 .. MaxPages
        /\ written' \in SUBSET PageId
        /\ unflagged' \in SUBSET written'
    BY <1>3 DEF TypeOK
  <2>5. /\ free_list' \in Seq(Frame) /\ lru_list' \in Seq(Frame)
        /\ disk' \in [extent : SUBSET PageId, page : [PageId -> Data]]
    BY <1>1, <1>5
  <2> HIDE PoolAssumption
  <2> QED BY ONLY <2>1, <2>2, <2>3, <2>4, <2>5, Zenon DEF TypeOK
<1>7. TableMatchesFrames'
  <2>1. ASSUME NEW q \in PageId, page_table'[q] # NoFrame
        PROVE  pages'[page_table'[q]].page_id = q
    BY <1>1, <1>2, <1>3, <2>1 DEF IInv, TypeOK, TableMatchesFrames, Resident
  <2>2. ASSUME NEW g \in Frame, pages'[g].page_id # INVALID_PAGE_ID
        PROVE  page_table'[pages'[g].page_id] = g
    <3>1. CASE g = f
      BY <1>1, <1>2, <1>3, <3>1 DEF TypeOK
    <3>2. CASE g # f
      <4>1. pages'[g] = pages[g] /\ pages[g] \in Page
        BY <1>2, <1>3, <3>2 DEF TypeOK
      <4>2. pages[g].page_id \in PageId /\ page_table[pages[g].page_id] = g
        BY <2>2, <4>1 DEF IInv, TableMatchesFrames, Page
      <4>3. pages[g].page_id # p
        BY <4>2 DEF Resident, NoFrame, Frame
      <4>4. pages[g].page_id # pages[f].page_id
        BY <1>1, <3>2, <4>2, <2>2, <4>1 DEF IInv, TableMatchesFrames
      <4> QED BY <1>2, <4>1, <4>2, <4>3, <4>4
    <3> QED BY <3>1, <3>2
  <2> QED BY <2>1, <2>2 DEF TableMatchesFrames, Resident
<1>8. NoFrameLost'
  <2>1. ASSUME NEW g \in Frame
        PROVE  /\ pages'[g].page_id = INVALID_PAGE_ID <=> InList(free_list', g)
               /\ pages'[g].pin_count = 0
                    => InList(free_list', g) \/ InList(lru_list', g)
    BY <1>1, <1>2, <1>3 DEF IInv, TypeOK, NoFrameLost, PageId, INVALID_PAGE_ID
  <2> QED BY <1>1, <2>1 DEF NoFrameLost, NoDup
<1>9. \A q \in PageId : q # p => /\ (page_table'[q] # NoFrame =>
                                       /\ page_table'[q] = page_table[q]
                                       /\ page_table[q] \in Frame
                                       /\ page_table[q] # f
                                       /\ pages'[page_table[q]] = pages[page_table[q]])
  BY <1>1, <1>2, <1>3, <1>4 DEF IInv, TypeOK, TableMatchesFrames, Resident
<1>10. page_table'[p] = f /\ f # NoFrame /\ pages'[f].pin_count = 1
  BY <1>1, <1>2, <1>3 DEF TypeOK, Frame, NoFrame
<1>11. \A q \in PageId : q = pages[f].page_id => page_table[q] = f /\ held[q] = 0 /\ q # p
  <2> SUFFICES ASSUME NEW q \in PageId, q = pages[f].page_id
               PROVE  page_table[q] = f /\ held[q] = 0 /\ q # p
    OBVIOUS
  <2>1. page_table[q] = f
    BY <1>1 DEF IInv, TableMatchesFrames, PageId, INVALID_PAGE_ID
  <2>2. page_table[q] # NoFrame
    BY <1>10, <2>1
  <2>3. held[q] = 0
    BY <1>1, <2>1, <2>2 DEF IInv, PinsMatchHolders, Resident
  <2> QED BY <2>1, <2>2, <2>3 DEF Resident
<1>12. PinsMatchHolders'
  BY <1>2, <1>3, <1>9, <1>10 DEF IInv, TypeOK, PinsMatchHolders, Resident
<1>13. PointerValid'
  BY <1>2, <1>3, <1>9, <1>10, <1>11 DEF IInv, TypeOK, PointerValid, Resident
<1>14. LruUnpinned' /\ EmptyUnpinned'
  BY <1>1, <1>2, <1>3 DEF IInv, TypeOK, LruUnpinned, EmptyUnpinned, PageId,
     INVALID_PAGE_ID
<1>15. OnlyAllocated'
  BY <1>3, <1>9, <1>2 DEF IInv, OnlyAllocated, Resident, PageId, TypeOK
<1>16. UnflaggedHeld'
  BY <1>3 DEF IInv, TypeOK, UnflaggedHeld, PageId
<1>17. NoWriteLost'
  <2> SUFFICES ASSUME NEW q \in written, q \notin unflagged
               PROVE  \/ page_table'[q] # NoFrame /\ pages'[page_table'[q]].is_dirty
                      \/ /\ q \in disk'.extent
                         /\ page_table'[q] # NoFrame
                              => disk'.page[q] = pages'[page_table'[q]].data
    BY DEF NoWriteLost, Resident
  <2>1. q \in PageId
    BY <1>3 DEF TypeOK, PageId
  <2>2. CASE q = p
    <3>1. p \in disk.extent
      BY <2>2 DEF IInv, NoWriteLost
    <3>2. p # pages[f].page_id
      BY <1>11
    <3>3. pages'[f].data = d
      BY <1>1, <1>2, <1>3 DEF TypeOK
    <3> QED BY <1>5, <1>10, <2>2, <3>1, <3>2, <3>3
  <2>3. CASE q # p /\ q = pages[f].page_id
    <3>1. page_table'[q] = NoFrame /\ page_table[q] = f /\ f # NoFrame
      BY <1>2, <1>10, <1>11, <2>1, <2>3
    <3>2. pages[f].is_dirty \/ q \in disk.extent
      BY <3>1 DEF IInv, NoWriteLost, Resident
    <3> QED BY <1>5, <2>1, <2>3, <3>1, <3>2
  <2>4. CASE q # p /\ q # pages[f].page_id
    <3>1. page_table'[q] = page_table[q] /\ disk'.page[q] = disk.page[q]
      BY <1>2, <1>5, <2>1, <2>4
    <3>2. \/ page_table[q] # NoFrame /\ pages[page_table[q]].is_dirty
          \/ /\ q \in disk.extent
             /\ page_table[q] # NoFrame
                  => disk.page[q] = pages[page_table[q]].data
      BY DEF IInv, NoWriteLost, Resident
    <3>3. q \in disk.extent => q \in disk'.extent
      BY <1>5
    <3> QED BY <1>9, <2>1, <2>4, <3>1, <3>2, <3>3
  <2> QED BY <2>2, <2>3, <2>4
<1>18. contents' = contents
  <2> SUFFICES ASSUME NEW q \in PageId, q \in written
               PROVE  (IF page_table'[q] # NoFrame THEN pages'[page_table'[q]].data
                                                   ELSE disk'.page[q])
                      = (IF page_table[q] # NoFrame THEN pages[page_table[q]].data
                                                    ELSE disk.page[q])
    BY DEF contents, Resident
  <2>1. CASE q = p
    <3>1. pages'[f].data = d
      BY <1>1, <1>2, <1>3 DEF TypeOK
    <3> QED BY <1>10, <2>1, <3>1 DEF Resident
  <2>2. CASE q # p /\ q = pages[f].page_id
    <3>1. page_table'[q] = NoFrame /\ page_table[q] = f /\ f # NoFrame
      BY <1>2, <1>10, <1>11, <2>2
    <3>2. q \notin unflagged
      BY <1>3, <1>11, <2>2 DEF IInv, TypeOK, UnflaggedHeld
    <3>3. \/ pages[f].is_dirty
          \/ disk.page[q] = pages[f].data
      BY <3>1, <3>2 DEF IInv, NoWriteLost, Resident
    <3> QED BY <1>5, <2>2, <3>1, <3>3
  <2>3. CASE q # p /\ q # pages[f].page_id
    <3>1. page_table'[q] = page_table[q] /\ disk'.page[q] = disk.page[q]
      BY <1>2, <1>5, <2>3
    <3> QED BY <1>9, <2>3, <3>1
  <2> QED BY <2>1, <2>2, <2>3
<1> QED BY <1>6, <1>7, <1>8, <1>12, <1>13, <1>14, <1>15, <1>16, <1>17, <1>18 DEF IInv

-------------------------------------------------------------------------------
(* One lemma per operation: it keeps the invariant, and in the abstract store *)
(* it is the operation of the same name or no step at all.                    *)

storeVars == <<next_page_id, contents, held, unflagged>>

LEMMA NewPageLemma ==
    ASSUME IInv, NewPage
    PROVE  IInv' /\ Store!Allocate
<1> DEFINE p == next_page_id
<1> USE PoolAssumption DEF NewPage
<1>1. p \in PageId /\ p \in Nat /\ ~Resident(p) /\ p \notin written
  BY DEF IInv, TypeOK, OnlyAllocated, PageId
<1>2. p + 1 \in p .. MaxPages /\ p < p + 1
  BY <1>1 DEF PageId
<1>3. IInv' /\ contents' = contents
  BY <1>1, <1>2, InstallLemma
<1> QED BY <1>3 DEF Store!Allocate

LEMMA FetchMissLemma ==
    ASSUME IInv, NEW p \in PageId, FetchPage(p), FetchMiss(p)
    PROVE  IInv' /\ Store!Pin(p)
<1> DEFINE f == GetFreeFrameOrVictim
           d == ReadPage(DiskAfterEviction(f), p, pages[f].data)
<1> USE PoolAssumption
<1>1. /\ ~Resident(p) /\ held[p] = 0 /\ p \in 0 .. next_page_id - 1
      /\ next_page_id \in 0 .. MaxPages
  BY DEF IInv, TypeOK, PointerValid, FetchPage, FetchMiss, Resident, PageId
<1>2. held' = [held EXCEPT ![p] = 1]
  BY <1>1 DEF FetchPage
<1>3. FrameAvailable /\ Install(p, f, d) /\ ptr' = [ptr EXCEPT ![p] = f]
  BY DEF FetchMiss
<1>4. f \in Frame
  BY <1>3, VictimLemma
<1>5. /\ disk \in [extent : SUBSET PageId, page : [PageId -> Data]]
      /\ pages[f] \in Page
  BY <1>4 DEF IInv, TypeOK
<1>6. pages[f].page_id # p
  BY <1>1, <1>4, <1>5 DEF IInv, TableMatchesFrames, Resident, PageId,
     INVALID_PAGE_ID, NoFrame, Frame
<1>7. /\ DiskAfterEviction(f).page[p] = disk.page[p]
      /\ p \in disk.extent => p \in DiskAfterEviction(f).extent
      /\ DiskAfterEviction(f).page \in [PageId -> Data]
  <2>1. CASE pages[f].page_id # INVALID_PAGE_ID /\ pages[f].is_dirty
    <3>1. DiskAfterEviction(f) = WritePage(disk, pages[f].page_id, pages[f].data)
      BY <2>1 DEF DiskAfterEviction
    <3>2. pages[f].page_id \in PageId /\ pages[f].data \in Data
      BY <1>5, <2>1 DEF Page
    <3> HIDE DEF f
    <3> QED BY <1>5, <1>6, <3>1, <3>2 DEF WritePage
  <2>2. CASE ~(pages[f].page_id # INVALID_PAGE_ID /\ pages[f].is_dirty)
    <3>1. DiskAfterEviction(f) = disk
      BY <2>2 DEF DiskAfterEviction
    <3> QED BY <1>5, <3>1
  <2> QED BY <2>1, <2>2
<1>8. d \in Data /\ (p \in written => d = disk.page[p])
  <2>1. p \in written => p \in disk.extent
    BY <1>1 DEF IInv, NoWriteLost, UnflaggedHeld
  <2>2. pages[f].data \in Data
    BY <1>5 DEF Page
  <2> HIDE DEF f
  <2> QED BY <1>7, <2>1, <2>2 DEF ReadPage
<1>9. next_page_id' = next_page_id /\ UNCHANGED <<written, unflagged>>
  BY DEF FetchPage
<1>10. next_page_id' \in next_page_id .. MaxPages /\ p < next_page_id'
  BY <1>1, <1>9
<1>11. IInv' /\ contents' = contents
  <2> HIDE DEF d
  <2> QED BY <1>1, <1>2, <1>3, <1>8, <1>9, <1>10, InstallLemma
<1> QED BY <1>9, <1>11 DEF Store!Pin, FetchPage

LEMMA FetchHitLemma ==
    ASSUME IInv, NEW p \in PageId, held[p] = 0, FetchPage(p), FetchHit(p)
    PROVE  IInv' /\ Store!Pin(p)
<1> DEFINE f == page_table[p]
<1> USE PoolAssumption
<1>1. /\ f \in Frame /\ f # NoFrame /\ pages[f] \in Page
      /\ pages[f].page_id = p /\ pages[f].pin_count = 0 /\ held[p] = 0
      /\ p < next_page_id
  BY DEF IInv, TypeOK, TableMatchesFrames, PinsMatchHolders, FetchPage, FetchHit,
     Resident
<1>2. /\ pages' = [pages EXCEPT ![f].pin_count = @ + 1]
      /\ lru_list' = PinFrame(lru_list, f)
      /\ ptr' = [ptr EXCEPT ![p] = f]
      /\ held' = [held EXCEPT ![p] = @ + 1]
      /\ UNCHANGED <<page_table, free_list, disk, next_page_id, written, unflagged>>
  BY DEF FetchPage, FetchHit
<1>3. /\ lru_list' \in Seq(Frame) /\ NoDup(lru_list')
      /\ \A g : InList(lru_list', g) <=> InList(lru_list, g) /\ g # f
  <2>1. lru_list \in Seq(Frame) /\ NoDup(lru_list)
    BY DEF IInv, TypeOK, NoFrameLost, NoDup
  <2>2. CASE InList(lru_list, f)
    BY <1>2, <2>1, <2>2, EraseLemma DEF PinFrame
  <2>3. CASE ~InList(lru_list, f)
    BY <1>2, <2>1, <2>3 DEF PinFrame
  <2> QED BY <2>2, <2>3
<1>4. p \in PageId /\ p # INVALID_PAGE_ID
  BY DEF PageId, INVALID_PAGE_ID
<1> HIDE DEF f
<1>5. TypeOK
  BY DEF IInv
<1>6. /\ pages' \in [Frame -> Page] /\ pages'[f].pin_count = 1
      /\ \A g \in Frame : /\ g # f => pages'[g] = pages[g]
                          /\ pages'[g].page_id = pages[g].page_id
                          /\ pages'[g].is_dirty = pages[g].is_dirty
                          /\ pages'[g].data = pages[g].data
  <2>1. pages \in [Frame -> Page]
    BY <1>5 DEF TypeOK
  <2>2. pages' = [pages EXCEPT ![f] = [pages[f] EXCEPT !.pin_count = 1]]
    BY <1>1, <1>2, <2>1
  <2>3. [pages[f] EXCEPT !.pin_count = 1] \in Page
    BY <1>1 DEF Page
  <2>4. pages' \in [Frame -> Page] /\ pages'[f] = [pages[f] EXCEPT !.pin_count = 1]
    BY <1>1, <2>1, <2>2, <2>3
  <2>5. \A g \in Frame : g # f => pages'[g] = pages[g]
    BY <2>1, <2>2
  <2> QED BY <1>1, <2>4, <2>5 DEF Page
<1>7. TypeOK'
  BY <1>1, <1>2, <1>3, <1>5, <1>6 DEF TypeOK
<1>8. \A q \in PageId : Resident(q)' <=> Resident(q)
  BY <1>2 DEF Resident
<1>9. \A q \in PageId : Resident(q) => page_table[q] \in Frame /\ (q # p => page_table[q] # f)
  BY <1>1, <1>5 DEF IInv, TypeOK, Resident, TableMatchesFrames
<1>10. TableMatchesFrames'
  BY <1>2, <1>6, <1>8, <1>9 DEF IInv, TableMatchesFrames
<1>11. NoFrameLost'
  <2>1. ASSUME NEW g \in Frame
        PROVE  /\ pages'[g].page_id = INVALID_PAGE_ID <=> InList(free_list', g)
               /\ pages'[g].pin_count = 0
                    => InList(free_list', g) \/ InList(lru_list', g)
    BY <1>2, <1>3, <1>6 DEF IInv, NoFrameLost
  <2>2. NoDup(free_list')
    BY <1>2 DEF IInv, NoFrameLost, NoDup
  <2> QED BY <1>3, <2>1, <2>2 DEF NoFrameLost, NoDup
<1>12. page_table[p] = f
  BY DEF f
<1>13. PinsMatchHolders'
  BY <1>1, <1>2, <1>5, <1>6, <1>8, <1>9, <1>12 DEF IInv, TypeOK, PinsMatchHolders
<1>14. PointerValid'
  BY <1>1, <1>2, <1>5, <1>8, <1>12 DEF IInv, TypeOK, PointerValid, Resident
<1>15. LruUnpinned' /\ EmptyUnpinned'
  BY <1>1, <1>3, <1>4, <1>6 DEF IInv, LruUnpinned, EmptyUnpinned
<1>16. OnlyAllocated' /\ UnflaggedHeld'
  BY <1>1, <1>2, <1>5, <1>8 DEF IInv, TypeOK, OnlyAllocated, UnflaggedHeld
<1>17. NoWriteLost'
  BY <1>2, <1>5, <1>6, <1>8, <1>9 DEF IInv, TypeOK, NoWriteLost
<1>18. contents' = contents
  BY <1>2, <1>6, <1>8, <1>9 DEF contents
<1>19. IInv'
  BY <1>7, <1>10, <1>11, <1>13, <1>14, <1>15, <1>16, <1>17 DEF IInv
<1> QED BY <1>2, <1>18, <1>19 DEF Store!Pin, FetchPage

LEMMA UnpinPageLemma ==
    ASSUME IInv, NEW p \in PageId, held[p] = 1, NEW is_dirty \in BOOLEAN,
           UnpinPage(p, is_dirty)
    PROVE  IInv' /\ Store!Unpin(p, is_dirty)
<1> DEFINE f == page_table[p]
           frame == [page_id   |-> pages[f].page_id,
                     pin_count |-> pages[f].pin_count - 1,
                     is_dirty  |-> is_dirty \/ pages[f].is_dirty,
                     data      |-> pages[f].data]
<1> USE PoolAssumption
<1>1. /\ f \in Frame /\ f # NoFrame /\ pages[f] \in Page
      /\ pages[f].page_id = p /\ pages[f].pin_count = 1 /\ held[p] = 1
  BY DEF IInv, TypeOK, TableMatchesFrames, PinsMatchHolders, UnpinPage, Resident
<1>2. /\ pages' = [pages EXCEPT ![f] = frame]
      /\ lru_list' = UnpinFrame(lru_list, f)
      /\ held' = [held EXCEPT ![p] = @ - 1]
      /\ written' = IF is_dirty \/ p \notin unflagged THEN written ELSE written \ {p}
      /\ unflagged' = unflagged \ {p}
      /\ UNCHANGED <<page_table, free_list, next_page_id, disk, ptr>>
  BY DEF UnpinPage
<1>3. p \in PageId /\ p # INVALID_PAGE_ID
  BY DEF PageId, INVALID_PAGE_ID
<1>4. /\ lru_list' \in Seq(Frame) /\ NoDup(lru_list')
      /\ \A g : InList(lru_list', g) <=> InList(lru_list, g) \/ g = f
  <2>1. lru_list \in Seq(Frame) /\ NoDup(lru_list)
    BY DEF IInv, TypeOK, NoFrameLost, NoDup
  <2>2. ~InList(lru_list, f)
    BY <1>1, <1>3 DEF IInv, LruUnpinned
  <2>3. lru_list' = Append(lru_list, f)
    BY <1>2, <2>2 DEF UnpinFrame
  <2> QED BY <1>1, <2>1, <2>2, <2>3, AppendLemma
<1>5. TypeOK
  BY DEF IInv
<1>6. page_table[p] = f
  OBVIOUS
<1> HIDE DEF f
<1>7. /\ pages' \in [Frame -> Page] /\ pages'[f] = frame
      /\ \A g \in Frame : g # f => pages'[g] = pages[g]
  <2>1. pages \in [Frame -> Page]
    BY <1>5 DEF TypeOK
  <2>2. frame \in Page
    BY <1>1 DEF Page
  <2> HIDE DEF frame
  <2> QED BY <1>1, <1>2, <2>1, <2>2
<1>8. /\ frame.page_id = p /\ frame.pin_count = 0 /\ frame.data = pages[f].data
      /\ frame.is_dirty = (is_dirty \/ pages[f].is_dirty)
  BY <1>1 DEF Page
<1> HIDE DEF frame
<1>9. TypeOK'
  <2>1. held' \in [PageId -> 0 .. MaxPins]
    BY <1>1, <1>2, <1>5 DEF TypeOK
  <2>2. unflagged' \in SUBSET written' /\ written' \in SUBSET PageId
    BY <1>2, <1>5 DEF TypeOK
  <2> QED BY <1>2, <1>4, <1>5, <1>7, <2>1, <2>2 DEF TypeOK
<1>10. \A q \in PageId : Resident(q) => page_table[q] \in Frame /\ (q # p => page_table[q] # f)
  BY <1>1, <1>5 DEF IInv, TypeOK, Resident, TableMatchesFrames
<1>11. \A q \in PageId : Resident(q)' <=> Resident(q)
  BY <1>2 DEF Resident
<1>12. TableMatchesFrames'
  BY <1>1, <1>2, <1>6, <1>7, <1>8, <1>10, <1>11 DEF IInv, TableMatchesFrames
<1>13. NoFrameLost'
  <2>1. ASSUME NEW g \in Frame
        PROVE  /\ pages'[g].page_id = INVALID_PAGE_ID <=> InList(free_list', g)
               /\ pages'[g].pin_count = 0
                    => InList(free_list', g) \/ InList(lru_list', g)
    BY <1>1, <1>2, <1>4, <1>7, <1>8 DEF IInv, NoFrameLost
  <2>2. NoDup(free_list')
    BY <1>2 DEF IInv, NoFrameLost, NoDup
  <2> QED BY <1>4, <2>1, <2>2 DEF NoFrameLost, NoDup
<1>14. PinsMatchHolders'
  <2> SUFFICES ASSUME NEW q \in PageId, Resident(q)
               PROVE  pages'[page_table'[q]].pin_count = held'[q]
    BY <1>11 DEF PinsMatchHolders
  <2>1. CASE q = p
    <3>1. held'[p] = 0
      BY <1>1, <1>2, <1>5 DEF TypeOK
    <3> QED BY <1>2, <1>6, <1>7, <1>8, <2>1, <3>1
  <2>2. CASE q # p
    BY <1>2, <1>5, <1>7, <1>10, <2>2 DEF IInv, TypeOK, PinsMatchHolders
  <2> QED BY <2>1, <2>2
<1>15. PointerValid'
  BY <1>2, <1>1, <1>5, <1>11 DEF IInv, TypeOK, PointerValid
<1>16. LruUnpinned' /\ EmptyUnpinned'
  BY <1>3, <1>4, <1>7, <1>8 DEF IInv, LruUnpinned, EmptyUnpinned
<1>17. OnlyAllocated' /\ UnflaggedHeld'
  <2>1. OnlyAllocated'
    BY <1>2, <1>11 DEF IInv, OnlyAllocated
  <2>2. UnflaggedHeld'
    BY <1>2, <1>5 DEF IInv, TypeOK, UnflaggedHeld
  <2> QED BY <2>1, <2>2
<1>18. NoWriteLost'
  <2> SUFFICES ASSUME NEW q \in written', q \notin unflagged'
               PROVE  \/ Resident(q)' /\ pages'[page_table'[q]].is_dirty
                      \/ /\ q \in disk'.extent
                         /\ Resident(q)' => disk'.page[q] = pages'[page_table'[q]].data
    BY DEF NoWriteLost
  <2>1. q \in PageId /\ q \in written
    BY <1>2, <1>5 DEF TypeOK
  <2>2. CASE q = p /\ is_dirty
    BY <1>1, <1>2, <1>6, <1>7, <1>8, <2>2 DEF Resident
  <2>3. CASE ~(q = p /\ is_dirty)
    <3>1. q \notin unflagged
      BY <1>2, <2>1, <2>3
    <3>2. \/ Resident(q) /\ pages[page_table[q]].is_dirty
          \/ /\ q \in disk.extent
             /\ Resident(q) => disk.page[q] = pages[page_table[q]].data
      BY <2>1, <3>1 DEF IInv, NoWriteLost
    <3>3. Resident(q) => /\ pages[page_table[q]].is_dirty => pages'[page_table[q]].is_dirty
                         /\ pages'[page_table[q]].data = pages[page_table[q]].data
      BY <1>6, <1>7, <1>8, <1>10, <2>1
    <3> QED BY <1>2, <1>11, <2>1, <3>2, <3>3
  <2> QED BY <2>2, <2>3
<1>19. contents' = IF is_dirty \/ p \notin unflagged THEN contents
                   ELSE [contents EXCEPT ![p] = Unwritten]
  <2>1. \A q \in PageId : (IF Resident(q)' THEN pages'[page_table'[q]].data ELSE disk'.page[q])
                        = (IF Resident(q) THEN pages[page_table[q]].data ELSE disk.page[q])
    BY <1>2, <1>6, <1>7, <1>8, <1>10, <1>11
  <2>2. CASE is_dirty \/ p \notin unflagged
    BY <1>2, <2>1, <2>2 DEF contents
  <2>3. CASE ~(is_dirty \/ p \notin unflagged)
    <3>1. \A q \in PageId : q \in written' <=> q \in written /\ q # p
      BY <1>2, <2>3
    <3>2. contents' = [q \in PageId |-> IF q = p THEN Unwritten ELSE contents[q]]
      BY <2>1, <3>1 DEF contents
    <3>3. contents = [q \in PageId |-> contents[q]]
      BY DEF contents
    <3> QED BY <2>3, <3>2, <3>3
  <2> QED BY <2>2, <2>3
<1>20. IInv'
  BY <1>9, <1>12, <1>13, <1>14, <1>15, <1>16, <1>17, <1>18 DEF IInv
<1> QED BY <1>2, <1>19, <1>20, <1>1 DEF Store!Unpin, UnpinPage

LEMMA FlushPageLemma ==
    ASSUME IInv, NEW p \in PageId, FlushPage(p)
    PROVE  IInv' /\ UNCHANGED storeVars
<1> DEFINE f == page_table[p]
           frame == [pages[f] EXCEPT !.is_dirty = FALSE]
<1> USE PoolAssumption
<1>1. f \in Frame /\ pages[f] \in Page /\ pages[f].page_id = p /\ f # NoFrame
  BY DEF IInv, TypeOK, TableMatchesFrames, FlushPage, Resident
<1>2. /\ disk' = WritePage(disk, p, pages[f].data)
      /\ pages' = [pages EXCEPT ![f].is_dirty = FALSE]
      /\ UNCHANGED <<page_table, free_list, lru_list, next_page_id,
                     held, ptr, written, unflagged>>
  BY DEF FlushPage, clientVars
<1>3. TypeOK
  BY DEF IInv
<1>4. page_table[p] = f
  OBVIOUS
<1> HIDE DEF f
<1>5. /\ pages' \in [Frame -> Page] /\ pages'[f] = frame
      /\ \A g \in Frame : g # f => pages'[g] = pages[g]
  <2>1. pages \in [Frame -> Page]
    BY <1>3 DEF TypeOK
  <2>2. pages' = [pages EXCEPT ![f] = frame]
    BY <1>1, <1>2, <2>1
  <2>3. frame \in Page
    BY <1>1 DEF Page
  <2> QED BY <1>1, <2>1, <2>2, <2>3
<1>6. \A g \in Frame : /\ pages'[g].page_id = pages[g].page_id
                       /\ pages'[g].pin_count = pages[g].pin_count
                       /\ pages'[g].data = pages[g].data
                       /\ g # f => pages'[g].is_dirty = pages[g].is_dirty
  BY <1>1, <1>5 DEF Page
<1>7. /\ disk' \in [extent : SUBSET PageId, page : [PageId -> Data]]
      /\ disk.extent \subseteq disk'.extent /\ p \in disk'.extent
      /\ disk'.page[p] = pages[f].data
      /\ \A q \in PageId : q # p => disk'.page[q] = disk.page[q]
  <2>1. disk \in [extent : SUBSET PageId, page : [PageId -> Data]]
    BY <1>3 DEF TypeOK
  <2>2. 0 .. p \subseteq PageId /\ p \in 0 .. p
    BY DEF PageId
  <2>3. pages[f].data \in Data
    BY <1>1 DEF Page
  <2> QED BY <1>2, <2>1, <2>2, <2>3 DEF WritePage
<1>8. TypeOK'
  BY <1>2, <1>3, <1>5, <1>7 DEF TypeOK
<1>9. \A q \in PageId : /\ Resident(q)' <=> Resident(q)
                        /\ page_table'[q] = page_table[q]
                        /\ Resident(q) => page_table[q] \in Frame
                        /\ Resident(q) /\ q # p => page_table[q] # f
  BY <1>1, <1>2, <1>3 DEF IInv, TypeOK, Resident, TableMatchesFrames
<1>10. TableMatchesFrames'
  BY <1>2, <1>6, <1>9 DEF IInv, TableMatchesFrames
<1>11. NoFrameLost'
  BY <1>2, <1>6 DEF IInv, NoFrameLost
<1>12. PinsMatchHolders' /\ PointerValid' /\ OnlyAllocated' /\ UnflaggedHeld'
  BY <1>2, <1>6, <1>9 DEF IInv, PinsMatchHolders, PointerValid, OnlyAllocated, UnflaggedHeld
<1>13. LruUnpinned' /\ EmptyUnpinned'
  BY <1>2, <1>6 DEF IInv, LruUnpinned, EmptyUnpinned
<1>14. NoWriteLost'
  <2> SUFFICES ASSUME NEW q \in written, q \notin unflagged
               PROVE  \/ Resident(q)' /\ pages'[page_table'[q]].is_dirty
                      \/ /\ q \in disk'.extent
                         /\ Resident(q)' => disk'.page[q] = pages'[page_table'[q]].data
    BY <1>2 DEF NoWriteLost
  <2>1. q \in PageId
    BY <1>3 DEF TypeOK
  <2>2. CASE q = p
    BY <1>1, <1>4, <1>6, <1>7, <1>9, <2>2
  <2>3. CASE q # p
    <3>1. \/ Resident(q) /\ pages[page_table[q]].is_dirty
          \/ /\ q \in disk.extent
             /\ Resident(q) => disk.page[q] = pages[page_table[q]].data
      BY DEF IInv, NoWriteLost
    <3> QED BY <1>6, <1>7, <1>9, <2>1, <2>3, <3>1
  <2> QED BY <2>2, <2>3
<1>15. contents' = contents
  <2> SUFFICES ASSUME NEW q \in PageId
               PROVE  (IF Resident(q)' THEN pages'[page_table'[q]].data ELSE disk'.page[q])
                    = (IF Resident(q) THEN pages[page_table[q]].data ELSE disk.page[q])
    BY <1>2 DEF contents
  <2>1. CASE Resident(q)
    BY <1>6, <1>9, <2>1
  <2>2. CASE ~Resident(q)
    <3>1. q # p
      BY <1>1, <1>4, <2>2 DEF Resident
    <3> QED BY <1>7, <1>9, <2>2, <3>1
  <2> QED BY <2>1, <2>2
<1>16. IInv'
  BY <1>8, <1>10, <1>11, <1>12, <1>13, <1>14 DEF IInv
<1> QED BY <1>2, <1>15, <1>16 DEF storeVars

LEMMA FlushAllPagesLemma ==
    ASSUME IInv, FlushAllPages
    PROVE  /\ IInv' /\ UNCHANGED storeVars
           /\ \A p \in written \ unflagged : /\ p \in disk'.extent
                                             /\ disk'.page[p] = contents[p]
<1> USE PoolAssumption
<1>1. /\ disk' = [extent |-> disk.extent \cup
                             {q \in PageId : \E p \in DirtyPages : q <= p},
                  page   |-> [p \in PageId |-> IF p \in DirtyPages
                                               THEN pages[page_table[p]].data
                                               ELSE disk.page[p]]]
      /\ pages' = [f \in Frame |->
                      IF pages[f].page_id \in DirtyPages
                      THEN [pages[f] EXCEPT !.is_dirty = FALSE] ELSE pages[f]]
      /\ UNCHANGED <<page_table, free_list, lru_list, next_page_id,
                     held, ptr, written, unflagged>>
  BY DEF FlushAllPages, clientVars
<1>2. TypeOK
  BY DEF IInv
<1>3. \A f \in Frame : pages[f] \in Page
  BY <1>2 DEF TypeOK
<1>4. \A f \in Frame : /\ pages'[f] \in Page
                       /\ pages'[f].page_id = pages[f].page_id
                       /\ pages'[f].pin_count = pages[f].pin_count
                       /\ pages'[f].data = pages[f].data
                       /\ pages[f].page_id \notin DirtyPages => pages'[f] = pages[f]
  <2> SUFFICES ASSUME NEW f \in Frame
               PROVE  /\ pages'[f] \in Page
                      /\ pages'[f].page_id = pages[f].page_id
                      /\ pages'[f].pin_count = pages[f].pin_count
                      /\ pages'[f].data = pages[f].data
                      /\ pages[f].page_id \notin DirtyPages => pages'[f] = pages[f]
    OBVIOUS
  <2>1. pages[f] \in Page
    BY <1>3
  <2>2. CASE pages[f].page_id \in DirtyPages
    <3>1. pages'[f] = [pages[f] EXCEPT !.is_dirty = FALSE]
      BY <1>1, <2>2
    <3> QED BY <2>1, <2>2, <3>1 DEF Page
  <2>3. CASE pages[f].page_id \notin DirtyPages
    <3>1. pages'[f] = pages[f]
      BY <1>1, <2>3
    <3> QED BY <2>1, <2>3, <3>1
  <2> QED BY <2>2, <2>3
<1>5. \A p \in PageId : /\ Resident(p)' <=> Resident(p)
                        /\ page_table'[p] = page_table[p]
                        /\ Resident(p) => /\ page_table[p] \in Frame
                                          /\ pages[page_table[p]].page_id = p
  BY <1>1, <1>2 DEF IInv, TypeOK, Resident, TableMatchesFrames
<1>6. \A p \in DirtyPages : p \in PageId /\ Resident(p) /\ p \in disk'.extent
                            /\ disk'.page[p] = pages[page_table[p]].data
  <2> SUFFICES ASSUME NEW p \in DirtyPages
               PROVE  p \in PageId /\ Resident(p) /\ p \in disk'.extent
                      /\ disk'.page[p] = pages[page_table[p]].data
    OBVIOUS
  <2>1. p \in PageId /\ Resident(p) /\ p <= p
    BY DEF DirtyPages, Resident, PageId
  <2> QED BY <1>1, <2>1
<1>7. \A p \in PageId : p \notin DirtyPages => /\ disk'.page[p] = disk.page[p]
                                               /\ p \in disk.extent => p \in disk'.extent
  BY <1>1
<1>8. disk' \in [extent : SUBSET PageId, page : [PageId -> Data]]
  <2>1. disk \in [extent : SUBSET PageId, page : [PageId -> Data]]
    BY <1>2 DEF TypeOK
  <2>2. \A p \in DirtyPages : pages[page_table[p]].data \in Data
    BY <1>3, <1>5 DEF DirtyPages, Page, Resident
  <2>3. [p \in PageId |-> IF p \in DirtyPages THEN pages[page_table[p]].data
                                              ELSE disk.page[p]] \in [PageId -> Data]
    BY <2>1, <2>2
  <2>4. disk.extent \cup {q \in PageId : \E p \in DirtyPages : q <= p} \in SUBSET PageId
    BY <2>1
  <2> QED BY <1>1, <2>3, <2>4
<1>9. TypeOK'
  <2>1. pages' \in [Frame -> Page]
    BY <1>1, <1>4
  <2> QED BY <1>1, <1>2, <1>8, <2>1 DEF TypeOK
<1>10. TableMatchesFrames'
  BY <1>1, <1>4, <1>5 DEF IInv, TableMatchesFrames
<1>11. NoFrameLost'
  BY <1>1, <1>4 DEF IInv, NoFrameLost
<1>12. PinsMatchHolders' /\ PointerValid' /\ OnlyAllocated' /\ UnflaggedHeld'
  BY <1>1, <1>4, <1>5 DEF IInv, PinsMatchHolders, PointerValid, OnlyAllocated, UnflaggedHeld
<1>13. LruUnpinned' /\ EmptyUnpinned'
  BY <1>1, <1>4 DEF IInv, LruUnpinned, EmptyUnpinned
<1>14. \A p \in written \ unflagged :
          /\ p \in disk'.extent
          /\ Resident(p) => disk'.page[p] = pages[page_table[p]].data
          /\ ~Resident(p) => disk'.page[p] = disk.page[p]
  <2> SUFFICES ASSUME NEW p \in written, p \notin unflagged
               PROVE  /\ p \in disk'.extent
                      /\ Resident(p) => disk'.page[p] = pages[page_table[p]].data
                      /\ ~Resident(p) => disk'.page[p] = disk.page[p]
    OBVIOUS
  <2>1. p \in PageId
    BY <1>2 DEF TypeOK
  <2>2. CASE p \in DirtyPages
    BY <1>6, <2>2
  <2>3. CASE p \notin DirtyPages
    <3>1. ~(Resident(p) /\ pages[page_table[p]].is_dirty)
      BY <2>1, <2>3 DEF DirtyPages, Resident
    <3> QED BY <1>7, <2>1, <2>3, <3>1 DEF IInv, NoWriteLost
  <2> QED BY <2>2, <2>3
<1>15. NoWriteLost'
  <2> SUFFICES ASSUME NEW p \in written, p \notin unflagged
               PROVE  /\ p \in disk'.extent
                      /\ Resident(p)' => disk'.page[p] = pages'[page_table'[p]].data
    BY <1>1 DEF NoWriteLost
  <2>1. p \in PageId
    BY <1>2 DEF TypeOK
  <2> QED BY <1>4, <1>5, <1>14, <2>1
<1>16. contents' = contents
  <2> SUFFICES ASSUME NEW q \in PageId
               PROVE  (IF Resident(q)' THEN pages'[page_table'[q]].data ELSE disk'.page[q])
                    = (IF Resident(q) THEN pages[page_table[q]].data ELSE disk.page[q])
    BY <1>1 DEF contents
  <2>1. CASE Resident(q)
    BY <1>4, <1>5, <2>1
  <2>2. CASE ~Resident(q)
    BY <1>5, <1>6, <1>7, <2>2
  <2> QED BY <2>1, <2>2
<1>17. \A p \in written \ unflagged : p \in disk'.extent /\ disk'.page[p] = contents[p]
  <2>1. \A p \in written : p \in PageId
    BY <1>2 DEF TypeOK
  <2> QED BY <1>14, <2>1 DEF contents
<1>18. IInv'
  BY <1>9, <1>10, <1>11, <1>12, <1>13, <1>15 DEF IInv
<1> QED BY <1>1, <1>16, <1>17, <1>18 DEF storeVars

LEMMA DeletePageLemma ==
    ASSUME IInv, NEW p \in PageId, DeletePage(p)
    PROVE  IInv' /\ UNCHANGED storeVars
<1> DEFINE f == page_table[p]
           frame == [page_id |-> INVALID_PAGE_ID, pin_count |-> 0,
                     is_dirty |-> FALSE, data |-> pages[f].data]
<1> USE PoolAssumption
<1>1. /\ f \in Frame /\ f # NoFrame /\ pages[f] \in Page
      /\ pages[f].page_id = p /\ pages[f].pin_count = 0 /\ held[p] = 0
  BY DEF IInv, TypeOK, TableMatchesFrames, PinsMatchHolders, DeletePage, Resident, Page
<1>2. /\ disk' = IF pages[f].is_dirty THEN WritePage(disk, p, pages[f].data) ELSE disk
      /\ pages' = [pages EXCEPT ![f] = frame]
      /\ free_list' = Append(free_list, f)
      /\ page_table' = [page_table EXCEPT ![p] = NoFrame]
      /\ UNCHANGED <<lru_list, next_page_id, held, ptr, written, unflagged>>
  BY DEF DeletePage, clientVars
<1>3. TypeOK
  BY DEF IInv
<1>4. p \in PageId /\ p # INVALID_PAGE_ID
  BY DEF PageId, INVALID_PAGE_ID
<1>5. page_table[p] = f
  OBVIOUS
<1> HIDE DEF f
<1>6. /\ free_list' \in Seq(Frame) /\ NoDup(free_list')
      /\ \A g : InList(free_list', g) <=> InList(free_list, g) \/ g = f
  <2>1. free_list \in Seq(Frame) /\ NoDup(free_list)
    BY <1>3 DEF IInv, TypeOK, NoFrameLost, NoDup
  <2>2. ~InList(free_list, f)
    BY <1>1, <1>4 DEF IInv, NoFrameLost
  <2> QED BY <1>1, <1>2, <2>1, <2>2, AppendLemma
<1>7. /\ pages' \in [Frame -> Page] /\ pages'[f] = frame
      /\ \A g \in Frame : g # f => pages'[g] = pages[g]
  <2>1. frame \in Page
    BY <1>1 DEF Page
  <2>2. pages \in [Frame -> Page]
    BY <1>3 DEF TypeOK
  <2> HIDE DEF frame
  <2> QED BY <1>1, <1>2, <2>1, <2>2
<1>8. /\ disk' \in [extent : SUBSET PageId, page : [PageId -> Data]]
      /\ disk.extent \subseteq disk'.extent
      /\ \A q \in PageId : q # p => disk'.page[q] = disk.page[q]
      /\ IF pages[f].is_dirty
         THEN p \in disk'.extent /\ disk'.page[p] = pages[f].data
         ELSE disk' = disk
  <2>1. disk \in [extent : SUBSET PageId, page : [PageId -> Data]]
    BY <1>3 DEF TypeOK
  <2>2. 0 .. p \subseteq PageId /\ p \in 0 .. p
    BY DEF PageId
  <2>3. pages[f].data \in Data
    BY <1>1 DEF Page
  <2>4. CASE pages[f].is_dirty
    <3>1. disk' = WritePage(disk, p, pages[f].data)
      BY <1>2, <2>4
    <3> QED BY <2>1, <2>2, <2>3, <2>4, <3>1 DEF WritePage
  <2>5. CASE ~pages[f].is_dirty
    <3>1. disk' = disk
      BY <1>2, <2>5
    <3> QED BY <2>1, <2>5, <3>1
  <2> QED BY <2>4, <2>5
<1>9. /\ page_table' \in [PageId -> Frame \cup {NoFrame}]
      /\ page_table'[p] = NoFrame
      /\ \A q \in PageId : q # p => page_table'[q] = page_table[q]
      /\ \A q \in PageId : q # p /\ page_table[q] # NoFrame
                                => page_table[q] \in Frame /\ page_table[q] # f
  BY <1>1, <1>2, <1>3 DEF IInv, TypeOK, Resident, TableMatchesFrames
<1>10. TypeOK'
  BY <1>2, <1>3, <1>6, <1>7, <1>8, <1>9 DEF TypeOK
<1>11. TableMatchesFrames'
  <2>1. ASSUME NEW q \in PageId, page_table'[q] # NoFrame
        PROVE  pages'[page_table'[q]].page_id = q
    BY <1>7, <1>9, <2>1 DEF IInv, TableMatchesFrames, Resident
  <2>2. ASSUME NEW g \in Frame, pages'[g].page_id # INVALID_PAGE_ID
        PROVE  page_table'[pages'[g].page_id] = g
    <3>1. g # f
      BY <1>7, <2>2
    <3>2. pages'[g] = pages[g] /\ pages[g] \in Page
      BY <1>3, <1>7, <3>1 DEF TypeOK
    <3>3. pages[g].page_id \in PageId /\ page_table[pages[g].page_id] = g
      BY <2>2, <3>2 DEF IInv, TableMatchesFrames, Page
    <3> QED BY <1>5, <1>9, <3>1, <3>2, <3>3
  <2> QED BY <2>1, <2>2 DEF TableMatchesFrames, Resident
<1>12. NoFrameLost'
  <2>1. ASSUME NEW g \in Frame
        PROVE  /\ pages'[g].page_id = INVALID_PAGE_ID <=> InList(free_list', g)
               /\ pages'[g].pin_count = 0
                    => InList(free_list', g) \/ InList(lru_list', g)
    BY <1>2, <1>6, <1>7 DEF IInv, NoFrameLost
  <2>2. NoDup(lru_list')
    BY <1>2 DEF IInv, NoFrameLost, NoDup
  <2> QED BY <1>6, <2>1, <2>2 DEF NoFrameLost, NoDup
<1>13. PinsMatchHolders'
  BY <1>2, <1>7, <1>9 DEF IInv, PinsMatchHolders, Resident
<1>14. PointerValid'
  BY <1>1, <1>2, <1>9 DEF IInv, PointerValid, Resident
<1>15. LruUnpinned' /\ EmptyUnpinned'
  BY <1>2, <1>7 DEF IInv, LruUnpinned, EmptyUnpinned
<1>16. OnlyAllocated' /\ UnflaggedHeld'
  BY <1>2, <1>9 DEF IInv, OnlyAllocated, UnflaggedHeld, Resident
<1>17. NoWriteLost'
  <2> SUFFICES ASSUME NEW q \in written, q \notin unflagged
               PROVE  \/ page_table'[q] # NoFrame /\ pages'[page_table'[q]].is_dirty
                      \/ /\ q \in disk'.extent
                         /\ page_table'[q] # NoFrame
                              => disk'.page[q] = pages'[page_table'[q]].data
    BY <1>2 DEF NoWriteLost, Resident
  <2>1. q \in PageId
    BY <1>3 DEF TypeOK
  <2>2. \/ page_table[q] # NoFrame /\ pages[page_table[q]].is_dirty
        \/ /\ q \in disk.extent
           /\ page_table[q] # NoFrame => disk.page[q] = pages[page_table[q]].data
    BY DEF IInv, NoWriteLost, Resident
  <2>3. CASE q = p
    BY <1>5, <1>8, <1>9, <2>2, <2>3
  <2>4. CASE q # p
    BY <1>7, <1>8, <1>9, <2>1, <2>2, <2>4
  <2> QED BY <2>3, <2>4
<1>18. contents' = contents
  <2> SUFFICES ASSUME NEW q \in PageId, q \in written
               PROVE  (IF page_table'[q] # NoFrame THEN pages'[page_table'[q]].data
                                                   ELSE disk'.page[q])
                      = (IF page_table[q] # NoFrame THEN pages[page_table[q]].data
                                                    ELSE disk.page[q])
    BY <1>2 DEF contents, Resident
  <2>1. CASE q = p
    <3>1. q \notin unflagged
      BY <1>1, <2>1, <1>3 DEF IInv, TypeOK, UnflaggedHeld
    <3>2. pages[f].is_dirty \/ disk.page[p] = pages[f].data
      BY <1>1, <1>5, <2>1, <3>1 DEF IInv, NoWriteLost, Resident
    <3> QED BY <1>1, <1>5, <1>8, <1>9, <2>1, <3>2
  <2>2. CASE q # p
    BY <1>7, <1>8, <1>9, <2>2
  <2> QED BY <2>1, <2>2
<1>19. IInv'
  BY <1>10, <1>11, <1>12, <1>13, <1>14, <1>15, <1>16, <1>17 DEF IInv
<1> QED BY <1>2, <1>18, <1>19 DEF storeVars

LEMMA WriteDataLemma ==
    ASSUME IInv, NEW p \in PageId, NEW d \in Data, WriteData(p, d)
    PROVE  IInv' /\ Store!Write(p, d)
<1> DEFINE f == ptr[p]
           frame == [pages[f] EXCEPT !.data = d]
<1> USE PoolAssumption
<1>1. /\ held[p] > 0 /\ Resident(p) /\ page_table[p] = f
      /\ f \in Frame /\ pages[f] \in Page /\ pages[f].page_id = p
  BY DEF IInv, TypeOK, TableMatchesFrames, PointerValid, WriteData, Resident
<1>2. /\ pages' = [pages EXCEPT ![f].data = d]
      /\ written' = written \cup {p}
      /\ unflagged' = unflagged \cup {p}
      /\ UNCHANGED <<page_table, free_list, lru_list, next_page_id, disk, held, ptr>>
  BY DEF WriteData
<1>3. TypeOK
  BY DEF IInv
<1> HIDE DEF f
<1>4. /\ pages' \in [Frame -> Page] /\ pages'[f] = frame
      /\ \A g \in Frame : g # f => pages'[g] = pages[g]
  <2>1. pages \in [Frame -> Page]
    BY <1>3 DEF TypeOK
  <2>2. pages' = [pages EXCEPT ![f] = frame]
    BY <1>1, <1>2, <2>1
  <2>3. frame \in Page
    BY <1>1 DEF Page
  <2> QED BY <1>1, <2>1, <2>2, <2>3
<1>5. /\ pages'[f].data = d
      /\ \A g \in Frame : /\ pages'[g].page_id = pages[g].page_id
                          /\ pages'[g].pin_count = pages[g].pin_count
                          /\ pages'[g].is_dirty = pages[g].is_dirty
                          /\ g # f => pages'[g].data = pages[g].data
  BY <1>1, <1>4 DEF Page
<1>6. \A q \in PageId : /\ Resident(q)' <=> Resident(q)
                        /\ page_table'[q] = page_table[q]
                        /\ Resident(q) => page_table[q] \in Frame
                        /\ Resident(q) /\ q # p => page_table[q] # f
  BY <1>1, <1>2, <1>3 DEF IInv, TypeOK, Resident, TableMatchesFrames
<1>7. TypeOK'
  BY <1>2, <1>3, <1>4 DEF TypeOK
<1>8. TableMatchesFrames'
  BY <1>2, <1>5, <1>6 DEF IInv, TableMatchesFrames
<1>9. NoFrameLost'
  BY <1>2, <1>5 DEF IInv, NoFrameLost
<1>10. PinsMatchHolders' /\ PointerValid'
  BY <1>2, <1>5, <1>6 DEF IInv, PinsMatchHolders, PointerValid
<1>11. LruUnpinned' /\ EmptyUnpinned'
  BY <1>2, <1>5 DEF IInv, LruUnpinned, EmptyUnpinned
<1>12. OnlyAllocated' /\ UnflaggedHeld'
  BY <1>1, <1>2, <1>6 DEF IInv, OnlyAllocated, UnflaggedHeld
<1>13. NoWriteLost'
  BY <1>2, <1>3, <1>5, <1>6 DEF IInv, TypeOK, NoWriteLost
<1>14. contents' = [contents EXCEPT ![p] = d]
  <2> SUFFICES ASSUME NEW q \in PageId
               PROVE  contents'[q] = IF q = p THEN d ELSE contents[q]
    BY DEF contents
  <2>1. CASE q = p
    BY <1>1, <1>2, <1>5, <1>6, <2>1 DEF contents
  <2>2. CASE q # p
    BY <1>2, <1>5, <1>6, <2>2 DEF contents
  <2> QED BY <2>1, <2>2
<1>15. IInv'
  BY <1>7, <1>8, <1>9, <1>10, <1>11, <1>12, <1>13 DEF IInv
<1> QED BY <1>1, <1>2, <1>14, <1>15 DEF Store!Write

LEMMA StutterLemma == IInv /\ UNCHANGED vars => IInv' /\ UNCHANGED storeVars
<1> SUFFICES ASSUME IInv, UNCHANGED vars PROVE IInv' /\ UNCHANGED storeVars
  OBVIOUS
<1> USE DEF vars
<1>1. TypeOK' /\ TableMatchesFrames' /\ NoFrameLost' /\ PinsMatchHolders'
  BY DEF IInv, TypeOK, TableMatchesFrames, NoFrameLost, PinsMatchHolders, Resident
<1>2. PointerValid' /\ NoWriteLost' /\ LruUnpinned' /\ EmptyUnpinned'
  BY DEF IInv, PointerValid, NoWriteLost, LruUnpinned, EmptyUnpinned, Resident
<1>3. OnlyAllocated' /\ UnflaggedHeld'
  BY DEF IInv, OnlyAllocated, UnflaggedHeld, Resident
<1>4. contents' = contents
  BY DEF contents, Resident
<1> QED BY <1>1, <1>2, <1>3, <1>4 DEF IInv, storeVars

\* Every step keeps the invariant and is a step of the store or changes
\* nothing the store shows.
LEMMA StepLemma ==
    ASSUME MaxPins = 1
    PROVE  IInv /\ [Next]_vars => IInv' /\ [Store!Next]_storeVars
<1> SUFFICES ASSUME IInv, [Next]_vars PROVE IInv' /\ [Store!Next]_storeVars
  OBVIOUS
<1>1. CASE NewPage
  BY <1>1, NewPageLemma DEF Store!Next
<1>2. CASE FlushAllPages
  BY <1>2, FlushAllPagesLemma
<1>3. ASSUME NEW p \in PageId, FetchPage(p)
      PROVE  IInv' /\ [Store!Next]_storeVars
  <2>1. held[p] = 0
    BY <1>3 DEF IInv, TypeOK, FetchPage
  <2>2. IInv' /\ Store!Pin(p)
    BY <1>3, <2>1, FetchHitLemma, FetchMissLemma DEF FetchPage
  <2> QED BY <2>2 DEF Store!Next, Store!PageId, PageId
<1>4. ASSUME NEW p \in PageId, NEW is_dirty \in BOOLEAN, UnpinPage(p, is_dirty)
      PROVE  IInv' /\ [Store!Next]_storeVars
  <2>1. held[p] = 1
    BY <1>4 DEF IInv, TypeOK, UnpinPage
  <2>2. IInv' /\ Store!Unpin(p, is_dirty)
    BY <1>4, <2>1, UnpinPageLemma
  <2> QED BY <2>2 DEF Store!Next, Store!PageId, PageId
<1>5. ASSUME NEW p \in PageId, FlushPage(p) PROVE IInv' /\ [Store!Next]_storeVars
  BY <1>5, FlushPageLemma
<1>6. ASSUME NEW p \in PageId, DeletePage(p) PROVE IInv' /\ [Store!Next]_storeVars
  BY <1>6, DeletePageLemma
<1>7. ASSUME NEW p \in PageId, NEW d \in Data, WriteData(p, d)
      PROVE  IInv' /\ [Store!Next]_storeVars
  <2>1. IInv' /\ Store!Write(p, d)
    BY <1>7, WriteDataLemma
  <2> QED BY <2>1 DEF Store!Next, Store!PageId, PageId
<1>8. CASE UNCHANGED vars
  BY <1>8, StutterLemma
<1> QED BY <1>1, <1>2, <1>3, <1>4, <1>5, <1>6, <1>7, <1>8 DEF Next

\* A frame that is on neither list is pinned, and the client holds the pin.
LEMMA ExhaustionLemma == IInv => NoSpuriousExhaustion
<1> SUFFICES ASSUME IInv, ~FrameAvailable, NEW f \in Frame
             PROVE  \E p \in PageId : ptr[p] = f /\ held[p] > 0
  BY DEF NoSpuriousExhaustion
<1>1. ~InList(free_list, f) /\ ~InList(lru_list, f)
  BY DEF FrameAvailable, InList
<1>2. pages[f].pin_count # 0 /\ pages[f].page_id # INVALID_PAGE_ID
  BY <1>1 DEF IInv, NoFrameLost
<1>3. pages[f] \in Page
  BY DEF IInv, TypeOK
<1> DEFINE p == pages[f].page_id
<1>4. p \in PageId /\ page_table[p] = f /\ f # NoFrame
  BY <1>2, <1>3 DEF IInv, TableMatchesFrames, Page, Frame, NoFrame
<1>5. held[p] = pages[f].pin_count /\ held[p] > 0
  BY <1>2, <1>3, <1>4 DEF IInv, PinsMatchHolders, Resident, Page
<1>6. ptr[p] = f
  BY <1>4, <1>5 DEF IInv, PointerValid
<1> QED BY <1>4, <1>5, <1>6

LEMMA Invariance == ASSUME MaxPins = 1 PROVE Spec => []IInv
<1>1. IInv /\ [Next]_vars => IInv'
  BY StepLemma
<1> QED BY InitIInv, <1>1, PTL DEF Spec

-------------------------------------------------------------------------------
(* The theorems.                                                              *)

\* Every variable of the pool and of its client keeps its type.
THEOREM TypeCorrect == ASSUME MaxPins = 1 PROVE Spec => []TypeOK
<1>1. IInv => TypeOK
  BY DEF IInv
<1> QED BY Invariance, <1>1, PTL

\* page_table_ and the frames' page ids stay inverse to each other through every
\* hit, eviction and deletion: no page gets two frames.
THEOREM TableAndFramesAgree == ASSUME MaxPins = 1 PROVE Spec => []TableMatchesFrames
<1>1. IInv => TableMatchesFrames
  BY DEF IInv
<1> QED BY Invariance, <1>1, PTL

\* No frame is ever lost to the pool, though DeletePage leaves the frame it frees
\* in lru_list_ as well.
THEOREM FramesStayUsable == ASSUME MaxPins = 1 PROVE Spec => []NoFrameLost
<1>1. IInv => NoFrameLost
  BY DEF IInv
<1> QED BY Invariance, <1>1, PTL

\* pin_count_ is the number of pins the client holds.
THEOREM PinCountsAreTrue == ASSUME MaxPins = 1 PROVE Spec => []PinsMatchHolders
<1>1. IInv => PinsMatchHolders
  BY DEF IInv
<1> QED BY Invariance, <1>1, PTL

\* No eviction or deletion reuses a frame under the pointer of a client that
\* has the page pinned.
THEOREM PinnedPagesStay == ASSUME MaxPins = 1 PROVE Spec => []PointerValid
<1>1. IInv => PointerValid
  BY DEF IInv
<1> QED BY Invariance, <1>1, PTL

\* GetFreeFrameOrVictim fails only when the client has pinned every frame.
THEOREM ExhaustionIsReal == ASSUME MaxPins = 1 PROVE Spec => []NoSpuriousExhaustion
  BY Invariance, ExhaustionLemma, PTL

\* Eviction, deletion and flushing never drop a write the client flagged.
THEOREM WritesSurvive == ASSUME MaxPins = 1 PROVE Spec => []NoWriteLost
<1>1. IInv => NoWriteLost
  BY DEF IInv
<1> QED BY Invariance, <1>1, PTL

\* FlushAllPages leaves every flagged write in the file.
THEOREM FlushCompletes == ASSUME MaxPins = 1 PROVE Spec => FlushIsComplete
<1>1. IInv => (FlushAllPages =>
                  \A p \in written \ unflagged : /\ p \in disk'.extent
                                                 /\ disk'.page[p] = contents[p])
  BY FlushAllPagesLemma
<1> QED BY Invariance, <1>1, PTL DEF FlushIsComplete

\* The pool implements the page store: caching is invisible to its client.
THEOREM Refinement == ASSUME MaxPins = 1 PROVE Spec => CachingInvisible
<1>1. Init => Store!Init
  BY DEF Init, Store!Init, contents, PageId, Store!PageId
<1>2. IInv /\ [Next]_vars => [Store!Next]_storeVars
  BY StepLemma
<1> QED BY Invariance, <1>1, <1>2, PTL DEF Spec, CachingInvisible, Store!Spec, storeVars
===============================================================================
