-------------------------- MODULE SlottedPageProofs --------------------------
(***************************************************************************)
(* Theorems about SlottedPage for pages and tuples of every size, while    *)
(* clients call Update only with tuples that are no longer than the ones   *)
(* they replace, and store none so long that HasEnoughSpace wraps.         *)
(*                                                                         *)
(* The run page_growing shows that the first assumption is needed; the     *)
(* second because required_space is a uint16_t.  The key is Descending:    *)
(* slot order is descending address order, so CompactOnePage, which moves  *)
(* tuples up in slot order, never writes over a tuple it has yet to move.  *)
(***************************************************************************)
EXTENDS SlottedPage, TLAPS

ShortTuples == \A d \in Tuples : Len(d) + SlotSize < Width

\* A later slot's tuple lies below an earlier one's.
Descending ==
    \A i, j \in SlotId : Live(i) /\ Live(j) /\ i < j =>
        slots[j].offset + slots[j].length <= slots[i].offset

\* While CompactOnePage runs, the tuples it has moved lie above write_ptr and
\* the others not above it.
CompactedAbove ==
    IF compacting = Idle THEN write_ptr = PageSize - 1
    ELSE /\ free_space_offset <= write_ptr
         /\ \A i \in SlotId : Live(i) =>
               IF i < compacting THEN slots[i].offset > write_ptr
               ELSE slots[i].offset + slots[i].length <= write_ptr + 1

IInv == TypeOK /\ RoomForTupleAndSlot /\ Descending /\ CompactedAbove

-------------------------------------------------------------------------------
(* Arithmetic.                                                                *)

\* A value that fits 16 bits is stored as it is (uint16_t fields).
LEMMA U16Lemma == ASSUME NEW x \in 0 .. Width - 1 PROVE u16(x) = x
  BY PageAssumption DEF u16

\* The directory grows by sizeof(Slot) with each slot.
LEMMA DirectoryLemma ==
    ASSUME NEW n \in Nat
    PROVE  /\ n * SlotSize \in Nat
           /\ n <= n * SlotSize
           /\ (n + 1) * SlotSize = n * SlotSize + SlotSize
  BY PageAssumption

\* Nothing wraps in HasEnoughSpace: it compares the tuple with the free bytes.
LEMMA SpaceLemma ==
    ASSUME ShortTuples, IInv, NEW d \in Tuples
    PROVE  /\ Len(d) \in Nat \ {0}
           /\ DirectoryEnd \in Nat
           /\ AvailableSpace = free_space_offset + 1 - DirectoryEnd
           /\ HasEnoughSpace(Len(d)) <=> Len(d) + SlotSize <= AvailableSpace
  <1>1. Len(d) \in Nat \ {0}
    BY PageAssumption
  <1>2. DirectoryEnd \in Nat
    BY PageAssumption, DirectoryLemma DEF IInv, TypeOK, DirectoryEnd
  <1>3. free_space_offset + 1 - DirectoryEnd \in 0 .. Width - 1
    BY <1>2, PageAssumption DEF IInv, TypeOK, RoomForTupleAndSlot
  <1>4. u16(free_space_offset + 1 - DirectoryEnd) = free_space_offset + 1 - DirectoryEnd
    BY <1>3, U16Lemma
  <1>5. Len(d) + SlotSize \in 0 .. Width - 1
    BY <1>1, PageAssumption DEF ShortTuples
  <1>6. u16(Len(d) + SlotSize) = Len(d) + SlotSize
    BY <1>5, U16Lemma
  <1>7. AvailableSpace = free_space_offset + 1 - DirectoryEnd
    BY <1>2, <1>4 DEF AvailableSpace, IInv, TypeOK
  <1>8. HasEnoughSpace(Len(d)) <=> Len(d) + SlotSize <= AvailableSpace
    BY <1>6 DEF HasEnoughSpace
  <1> QED
    BY <1>1, <1>2, <1>7, <1>8

\* What copying a tuple into the page leaves at each address (memcpy).
LEMMA StoreLemma ==
    ASSUME NEW d \in Tuples, NEW to \in Int, data \in [Address -> Byte]
    PROVE  /\ StoreTuple(d, to) \in [Address -> Byte]
           /\ \A a \in Address :
                 StoreTuple(d, to)[a] = IF a \in to .. to + Len(d) - 1
                                        THEN d[a - to + 1] ELSE data[a]
  <1>1. d \in Seq(Byte) /\ Len(d) \in Nat
    BY PageAssumption
  <1>2. \A a \in to .. to + Len(d) - 1 : a - to + 1 \in 1 .. Len(d)
    BY <1>1
  <1>3. \A a \in to .. to + Len(d) - 1 : d[a - to + 1] \in Byte
    BY <1>1, <1>2
  <1>4. \A a \in to .. to + Len(d) - 1 : (a - to) + 1 = a - to + 1
    BY <1>1
  <1> QED
    BY <1>1, <1>3, <1>4 DEF StoreTuple, CopyBytes

-------------------------------------------------------------------------------
(* The invariant: one lemma per operation.                                    *)

\* A page from InitializePage satisfies it.
LEMMA InitInv == Init => IInv
  <1> SUFFICES ASSUME Init PROVE IInv
    OBVIOUS
  <1>1. \A i \in SlotId : ~Live(i)
    BY DEF Init, Live, SlotId
  <1>2. TypeOK
    BY PageAssumption DEF Init, TypeOK, Slot, SlotId, Address, Idle
  <1>3. RoomForTupleAndSlot
    BY <1>1, PageAssumption DEF Init, RoomForTupleAndSlot, DirectoryEnd
  <1>4. Descending /\ CompactedAbove
    BY <1>1 DEF Init, Descending, CompactedAbove, Idle
  <1> QED
    BY <1>2, <1>3, <1>4 DEF IInv

\* What InsertTuple does to the header and the directory, wrap-around excluded.
LEMMA InsertLemma ==
    ASSUME ShortTuples, IInv, NEW d \in Tuples, InsertTuple(d)
    PROVE  /\ free_space_offset' = free_space_offset - Len(d)
           /\ slot_count' = slot_count + 1
           /\ slot_count + 1 \in 1 .. PageSize - 1
           /\ slots' = [slots EXCEPT ![slot_count] =
                           [offset |-> free_space_offset - Len(d) + 1,
                            length |-> Len(d)]]
           /\ data' = StoreTuple(d, free_space_offset - Len(d) + 1)
           /\ DirectoryEnd' <= free_space_offset' + 1
           /\ free_space_offset - Len(d) \in 0 .. PageSize - 2
  <1> DEFINE new == free_space_offset - Len(d) + 1
  <1>1. /\ Len(d) \in Nat \ {0} /\ DirectoryEnd \in Nat
        /\ Len(d) + SlotSize <= free_space_offset + 1 - DirectoryEnd
    BY SpaceLemma DEF InsertTuple
  <1>2. free_space_offset \in 0 .. PageSize - 1 /\ slot_count \in 0 .. PageSize - 1
    BY DEF IInv, TypeOK
  <1>3. new \in 1 .. PageSize - 1 /\ new - 1 \in 0 .. PageSize - 2
    BY <1>1, <1>2, PageAssumption
  <1>4. u16(new) = new /\ u16(new - 1) = new - 1
    BY <1>3, U16Lemma, PageAssumption
  <1>5. (slot_count + 1) * SlotSize = slot_count * SlotSize + SlotSize
    BY <1>2, DirectoryLemma
  <1>6. /\ slot_count * SlotSize \in Nat
        /\ slot_count + 1 <= (slot_count + 1) * SlotSize
        /\ (slot_count + 1) * SlotSize \in Nat
    BY <1>2, DirectoryLemma
  <1>7. HeaderSize + (slot_count + 1) * SlotSize <= new
    BY <1>1, <1>2, <1>3, <1>5, <1>6, PageAssumption DEF DirectoryEnd
  <1>8. slot_count + 1 \in 1 .. PageSize - 1
    BY <1>2, <1>3, <1>6, <1>7, PageAssumption
  <1>9. u16(slot_count + 1) = slot_count + 1
    BY <1>8, U16Lemma, PageAssumption
  <1>10. free_space_offset' = new - 1
    BY <1>4 DEF InsertTuple
  <1>11. slot_count' = slot_count + 1
    BY <1>9 DEF InsertTuple
  <1>12. slots' = [slots EXCEPT ![slot_count] = [offset |-> new, length |-> Len(d)]]
    BY <1>4 DEF InsertTuple
  <1>13. data' = StoreTuple(d, new)
    BY <1>4 DEF InsertTuple
  <1>14. DirectoryEnd' <= free_space_offset' + 1
    BY <1>3, <1>7, <1>10, <1>11, PageAssumption DEF DirectoryEnd
  <1>15. new - 1 = free_space_offset - Len(d)
    BY <1>1, <1>2, PageAssumption
  <1> QED
    BY <1>3, <1>8, <1>10, <1>11, <1>12, <1>13, <1>14, <1>15

\* InsertTuple preserves the invariant.
LEMMA InsertInv ==
    ASSUME ShortTuples, IInv, NEW d \in Tuples, InsertTuple(d)
    PROVE  IInv'
  <1> DEFINE new == free_space_offset - Len(d) + 1
  <1>1. TypeOK /\ RoomForTupleAndSlot /\ Descending /\ CompactedAbove
    BY DEF IInv
  <1>2. Len(d) \in Nat \ {0} /\ Len(d) < Width
    BY PageAssumption
  <1>3. /\ free_space_offset \in 0 .. PageSize - 1
        /\ slot_count \in SlotId
        /\ slots \in [SlotId -> Slot]
    BY <1>1 DEF TypeOK, SlotId
  <1>4. /\ new \in 1 .. PageSize - 1
        /\ free_space_offset' = new - 1
    BY <1>2, <1>3, InsertLemma, PageAssumption
  <1>5. /\ slots'[slot_count] = [offset |-> new, length |-> Len(d)]
        /\ \A i \in SlotId : i # slot_count => slots'[i] = slots[i]
    BY <1>3, InsertLemma
  <1>6. \A i \in SlotId : Live(i)' <=> i = slot_count \/ Live(i)
    BY <1>2, <1>3, <1>5, InsertLemma DEF Live, SlotId
  <1>7. \A i \in SlotId : Live(i) => i # slot_count /\ i < slot_count
    BY <1>3 DEF Live, SlotId
  <1>8. TypeOK'
    <2>1. [offset |-> new, length |-> Len(d)] \in Slot
      BY <1>2, <1>4, PageAssumption DEF Slot
    <2>2. slots' \in [SlotId -> Slot]
      BY <2>1, <1>3, InsertLemma
    <2>3. data' \in [Address -> Byte]
      BY <1>1, <1>4, StoreLemma, InsertLemma DEF TypeOK
    <2>4. slot_count' \in 0 .. PageSize - 1
      BY InsertLemma
    <2>5. free_space_offset' \in 0 .. PageSize - 1
      BY <1>4, PageAssumption
    <2>6. /\ compacting' \in {Idle} \cup 0 .. slot_count'
          /\ write_ptr' \in 0 .. PageSize - 1
      BY <1>1 DEF TypeOK, InsertTuple
    <2> QED
      BY <2>2, <2>3, <2>4, <2>5, <2>6 DEF TypeOK
  <1>9. RoomForTupleAndSlot'
    <2>1. SUFFICES ASSUME NEW i \in SlotId, Live(i)'
                   PROVE  /\ slots'[i].offset > free_space_offset'
                          /\ slots'[i].offset + slots'[i].length <= PageSize
      BY InsertLemma DEF RoomForTupleAndSlot
    <2>2. CASE i = slot_count
      BY <2>2, <1>2, <1>3, <1>4, <1>5, PageAssumption
    <2>3. CASE i # slot_count
      BY <2>1, <2>3, <1>1, <1>2, <1>3, <1>4, <1>5, <1>6 DEF RoomForTupleAndSlot, Slot
    <2> QED
      BY <2>2, <2>3
  <1>10. Descending'
    <2>1. SUFFICES ASSUME NEW i \in SlotId, NEW j \in SlotId, Live(i)', Live(j)', i < j
                   PROVE  slots'[j].offset + slots'[j].length <= slots'[i].offset
      BY DEF Descending
    <2>2. Live(i) /\ i # slot_count
      BY <2>1, <1>3, <1>6, <1>7 DEF SlotId
    <2>3. CASE j = slot_count
      BY <2>2, <2>3, <1>1, <1>2, <1>3, <1>4, <1>5 DEF RoomForTupleAndSlot, Slot
    <2>4. CASE j # slot_count
      BY <2>1, <2>2, <2>4, <1>1, <1>5, <1>6 DEF Descending
    <2> QED
      BY <2>3, <2>4
  <1>11. CompactedAbove'
    BY <1>1 DEF CompactedAbove, InsertTuple
  <1> QED
    BY <1>8, <1>9, <1>10, <1>11 DEF IInv

\* Shortening a tuple, or deleting it (length 0), preserves the invariant.
LEMMA ShrinkInv ==
    ASSUME IInv, compacting = Idle,
           NEW i \in SlotId, i < slot_count, NEW n \in 0 .. slots[i].length,
           slots' = [slots EXCEPT ![i].length = n],
           data' \in [Address -> Byte],
           UNCHANGED <<free_space_offset, slot_count, compacting, write_ptr>>
    PROVE  IInv'
  <1>1. TypeOK /\ RoomForTupleAndSlot /\ Descending /\ CompactedAbove
    BY DEF IInv
  <1>2. slots \in [SlotId -> Slot] /\ slot_count \in Nat
    BY <1>1 DEF TypeOK
  <1>3. \A j \in SlotId : slots[j].offset \in Nat /\ slots[j].length \in Nat
    BY <1>2, PageAssumption DEF Slot
  <1>4. \A j \in SlotId : /\ slots'[j].offset = slots[j].offset
                          /\ slots'[j].length <= slots[j].length
                          /\ slots'[j].length \in Nat
    BY <1>2, <1>3 DEF Slot
  <1>5. \A j \in SlotId : Live(j)' => Live(j)
    BY <1>3, <1>4 DEF Live
  <1>6. TypeOK'
    <2>1. slots[i] \in Slot /\ n \in 0 .. Width - 1
      BY <1>2, PageAssumption DEF Slot
    <2>2. slots' \in [SlotId -> Slot]
      BY <2>1, <1>2 DEF Slot
    <2> QED
      BY <2>2, <1>1 DEF TypeOK
  <1>7. RoomForTupleAndSlot'
    <2>1. DirectoryEnd' <= free_space_offset' + 1
      BY <1>1 DEF RoomForTupleAndSlot, DirectoryEnd
    <2>2. ASSUME NEW j \in SlotId, Live(j)'
          PROVE  /\ slots'[j].offset > free_space_offset'
                 /\ slots'[j].offset + slots'[j].length <= PageSize
      <3>1. /\ slots[j].offset > free_space_offset
            /\ slots[j].offset + slots[j].length <= PageSize
        BY <2>2, <1>1, <1>5 DEF RoomForTupleAndSlot
      <3> QED
        BY <3>1, <1>3, <1>4, PageAssumption
    <2> QED
      BY <2>1, <2>2 DEF RoomForTupleAndSlot
  <1>8. Descending'
    <2> SUFFICES ASSUME NEW j \in SlotId, NEW k \in SlotId, Live(j)', Live(k)', j < k
                 PROVE  slots'[k].offset + slots'[k].length <= slots'[j].offset
      BY DEF Descending
    <2>1. slots[k].offset + slots[k].length <= slots[j].offset
      BY <1>1, <1>5 DEF Descending
    <2> QED
      BY <2>1, <1>3, <1>4
  <1>9. CompactedAbove'
    BY <1>1 DEF CompactedAbove
  <1> QED
    BY <1>6, <1>7, <1>8, <1>9 DEF IInv

\* DeleteTuple preserves the invariant.
LEMMA DeleteInv ==
    ASSUME IInv, NEW i \in SlotId, DeleteTuple(i)
    PROVE  IInv'
  <1>1. slots \in [SlotId -> Slot] /\ data \in [Address -> Byte]
    BY DEF IInv, TypeOK
  <1>2. 0 \in 0 .. slots[i].length
    BY <1>1, PageAssumption DEF Slot
  <1> QED
    BY <1>1, <1>2, ShrinkInv DEF DeleteTuple

\* A shrinking Update preserves the invariant.
LEMMA UpdateInv ==
    ASSUME IInv, NEW i \in SlotId, NEW d \in Tuples, UpdateInPlace(i, d)
    PROVE  IInv'
  <1>1. slots \in [SlotId -> Slot] /\ data \in [Address -> Byte]
    BY DEF IInv, TypeOK
  <1>2. slots[i].offset \in Int /\ Len(d) \in 0 .. slots[i].length
    BY <1>1, PageAssumption DEF UpdateInPlace, Slot
  <1>3. data' \in [Address -> Byte]
    BY <1>1, <1>2, StoreLemma DEF UpdateInPlace
  <1>4. i < slot_count
    BY DEF UpdateInPlace, Live
  <1> QED
    BY <1>2, <1>3, <1>4, ShrinkInv DEF UpdateInPlace

\* CompactOnePage starts in the invariant: every tuple ends within the page.
LEMMA BeginInv == ASSUME IInv, BeginCompact PROVE IInv'
  <1>1. TypeOK /\ RoomForTupleAndSlot /\ Descending /\ CompactedAbove
    BY DEF IInv
  <1>2. write_ptr = PageSize - 1 /\ free_space_offset <= write_ptr
    BY <1>1, PageAssumption DEF CompactedAbove, BeginCompact, TypeOK
  <1>3. TypeOK'
    BY <1>1 DEF TypeOK, BeginCompact
  <1>4. RoomForTupleAndSlot' /\ Descending'
    BY <1>1 DEF RoomForTupleAndSlot, Descending, DirectoryEnd, Live, BeginCompact
  <1>5. CompactedAbove'
    <2>1. \A i \in SlotId : Live(i)' => Live(i) /\ slots'[i] = slots[i]
      BY DEF Live, BeginCompact
    <2>2. \A i \in SlotId : Live(i) => slots[i].offset + slots[i].length <= write_ptr + 1
      BY <1>1, <1>2, PageAssumption DEF RoomForTupleAndSlot
    <2>3. compacting' = 0 /\ write_ptr' = write_ptr
          /\ free_space_offset' = free_space_offset
      BY DEF BeginCompact
    <2>4. \A i \in SlotId : ~ (i < 0)
      BY PageAssumption DEF SlotId
    <2> QED
      BY <1>2, <2>1, <2>2, <2>3, <2>4, PageAssumption DEF CompactedAbove, Idle
  <1> QED
    BY <1>3, <1>4, <1>5 DEF IInv

\* What one iteration of CompactOnePage's loop does with a live tuple.
LEMMA MoveLemma ==
    ASSUME IInv, CompactSlot, slots[compacting].length # 0
    PROVE  LET c == compacting
               new == write_ptr - slots[c].length + 1
           IN  /\ c \in SlotId /\ Live(c)
               /\ slots[c].length \in Nat \ {0} /\ slots[c].offset \in Nat
               /\ slots[c].offset <= new
               /\ new \in 1 .. PageSize - 1
               /\ new > free_space_offset
               /\ slots' = [slots EXCEPT ![c].offset = new]
               /\ write_ptr' = new - 1
               /\ data' = [a \in Address |->
                              IF a \in new .. new + slots[c].length - 1
                              THEN data[slots[c].offset + (a - new)] ELSE data[a]]
  <1> DEFINE c == compacting
             new == write_ptr - slots[c].length + 1
  <1>1. TypeOK /\ RoomForTupleAndSlot /\ CompactedAbove
    BY DEF IInv
  <1>2. c \in SlotId
    BY <1>1, PageAssumption DEF CompactSlot, TypeOK, SlotId, Idle
  <1>3. slots[c].length \in Nat \ {0} /\ slots[c].offset \in Nat
    BY <1>1, <1>2, PageAssumption DEF TypeOK, Slot, CompactSlot
  <1>4. Live(c)
    BY <1>3 DEF Live, CompactSlot
  <1>5. slots[c].offset + slots[c].length <= write_ptr + 1
    BY <1>1, <1>2, <1>4 DEF CompactedAbove, CompactSlot, SlotId
  <1>6. slots[c].offset > free_space_offset /\ free_space_offset \in 0 .. PageSize - 1
    BY <1>1, <1>2, <1>4 DEF RoomForTupleAndSlot, TypeOK
  <1>7. write_ptr \in 0 .. PageSize - 1
    BY <1>1 DEF TypeOK
  <1>8. slots[c].offset <= new /\ new > free_space_offset /\ new \in 1 .. PageSize - 1
    BY <1>3, <1>5, <1>6, <1>7, PageAssumption
  <1>9. u16(new) = new
    BY <1>8, U16Lemma, PageAssumption
  <1>10. slots' = [slots EXCEPT ![c].offset = new] /\ write_ptr' = new - 1
    BY <1>9 DEF CompactSlot
  <1>11. data' = [a \in Address |-> IF a \in new .. new + slots[c].length - 1
                                    THEN data[slots[c].offset + (a - new)] ELSE data[a]]
    BY DEF CompactSlot, CopyBytes
  <1> QED
    BY <1>2, <1>3, <1>4, <1>8, <1>10, <1>11

\* One iteration of CompactOnePage's loop preserves the invariant.
LEMMA CompactInv == ASSUME IInv, CompactSlot PROVE IInv'
  <1> DEFINE c == compacting
             new == write_ptr - slots[c].length + 1
  <1>1. TypeOK /\ RoomForTupleAndSlot /\ Descending /\ CompactedAbove
    BY DEF IInv
  <1>2. /\ slots \in [SlotId -> Slot] /\ slot_count \in 0 .. PageSize - 1
        /\ data \in [Address -> Byte] /\ write_ptr \in 0 .. PageSize - 1
        /\ free_space_offset \in 0 .. PageSize - 1
    BY <1>1 DEF TypeOK
  <1>3. /\ c \in SlotId /\ c # Idle /\ c < slot_count
        /\ compacting' = c + 1 /\ c + 1 \in 0 .. slot_count /\ c + 1 # Idle
        /\ slot_count' = slot_count /\ free_space_offset' = free_space_offset
    BY <1>1, <1>2, PageAssumption DEF CompactSlot, TypeOK, SlotId, Idle
  <1>4. \A i \in SlotId : /\ i \in Nat /\ slots[i] \in Slot
                          /\ slots[i].offset \in Nat /\ slots[i].length \in Nat
    BY <1>2, PageAssumption DEF SlotId, Slot
  <1>5. DirectoryEnd' <= free_space_offset' + 1
    BY <1>1, <1>3 DEF RoomForTupleAndSlot, DirectoryEnd
  <1>6. CASE slots[c].length = 0
    <2>1. UNCHANGED <<slots, data, write_ptr>>
      BY <1>6 DEF CompactSlot
    <2>2. \A i \in SlotId : (Live(i)' <=> Live(i)) /\ slots'[i] = slots[i]
      BY <2>1, <1>3 DEF Live
    <2>3. TypeOK'
      BY <2>1, <1>1, <1>3 DEF TypeOK
    <2>4. RoomForTupleAndSlot' /\ Descending'
      BY <2>2, <1>1, <1>3, <1>5 DEF RoomForTupleAndSlot, Descending
    <2>5. ~Live(c)
      BY <1>6 DEF Live
    <2>6. CompactedAbove'
      <3>1. \A i \in SlotId : Live(i) => (i < c + 1 <=> i < c)
        BY <2>5, <1>3, <1>4
      <3>2. free_space_offset <= write_ptr
        BY <1>1, <1>3 DEF CompactedAbove
      <3>3. \A i \in SlotId : Live(i) =>
               IF i < c THEN slots[i].offset > write_ptr
               ELSE slots[i].offset + slots[i].length <= write_ptr + 1
        BY <1>1, <1>3 DEF CompactedAbove
      <3> QED
        BY <3>1, <3>2, <3>3, <2>1, <2>2, <1>3 DEF CompactedAbove
    <2> QED
      BY <2>3, <2>4, <2>6 DEF IInv
  <1>7. CASE slots[c].length # 0
    <2>1. /\ Live(c) /\ slots[c].length \in Nat \ {0} /\ slots[c].offset \in Nat
          /\ slots[c].offset <= new /\ new \in 1 .. PageSize - 1
          /\ new > free_space_offset
          /\ slots' = [slots EXCEPT ![c].offset = new]
          /\ write_ptr' = new - 1
      BY <1>7, MoveLemma
    <2>2. data' = [a \in Address |-> IF a \in new .. new + slots[c].length - 1
                                     THEN data[slots[c].offset + (a - new)] ELSE data[a]]
      BY <1>7, MoveLemma
    <2>3. new + slots[c].length = write_ptr + 1
      BY <2>1, <1>2, PageAssumption
    <2> HIDE DEF new
    <2>4. /\ new \in Nat /\ PageSize \in Nat /\ Width \in Nat
           /\ new < Width /\ new <= write_ptr
      BY <2>1, <2>3, <1>2, PageAssumption
    <2>5. data' \in [Address -> Byte]
      <3>2. slots[c].offset + slots[c].length <= PageSize
        BY <2>1, <1>1, <1>3 DEF RoomForTupleAndSlot
      <3>3. \A a \in new .. new + slots[c].length - 1 : slots[c].offset + (a - new) \in Address
        BY <3>2, <2>1, <2>4 DEF Address
      <3> QED
        BY <2>2, <3>3, <1>2
    <2>6. /\ slots'[c].offset = new /\ slots'[c].length = slots[c].length
          /\ \A i \in SlotId : i # c => slots'[i] = slots[i]
      BY <2>1, <1>2, <1>3 DEF Slot
    <2>7. \A i \in SlotId : Live(i)' <=> Live(i)
      BY <2>6, <1>3 DEF Live
    <2>8. \A i \in SlotId : Live(i) /\ i < c =>
             slots[i].offset > write_ptr /\ slots[i].offset > new - 1
      <3>1. \A i \in SlotId : Live(i) /\ i < c => slots[i].offset > write_ptr
        BY <1>1, <1>3 DEF CompactedAbove
      <3> QED
        BY <3>1, <2>4, <1>2, <1>4
    <2>9. \A i \in SlotId : Live(i) /\ i > c => slots[i].offset + slots[i].length <= new
      <3>1. \A i \in SlotId : Live(i) /\ i > c =>
               slots[i].offset + slots[i].length <= slots[c].offset
        BY <2>1, <1>1, <1>3, <1>4 DEF Descending
      <3> QED
        BY <3>1, <2>1, <1>4, PageAssumption
    <2>10. TypeOK'
      <3>1. new \in 0 .. Width - 1 /\ slots[c].length \in 0 .. Width - 1
        BY <2>4, <1>3, <1>4 DEF Slot
      <3>3. slots' \in [SlotId -> Slot]
        BY <3>1, <2>1, <1>2, <1>3 DEF Slot
      <3>4. write_ptr' \in 0 .. PageSize - 1
        BY <2>1, PageAssumption
      <3> QED
        BY <3>3, <3>4, <2>5, <1>2, <1>3 DEF TypeOK
    <2>11. RoomForTupleAndSlot'
      <3> SUFFICES ASSUME NEW i \in SlotId, Live(i)
                   PROVE  /\ slots'[i].offset > free_space_offset
                          /\ slots'[i].offset + slots'[i].length <= PageSize
        BY <2>7, <1>3, <1>5 DEF RoomForTupleAndSlot
      <3>1. CASE i = c
        BY <3>1, <2>1, <2>6, <2>3, <1>2, PageAssumption
      <3>2. CASE i # c
        BY <3>2, <2>6, <1>1 DEF RoomForTupleAndSlot
      <3> QED
        BY <3>1, <3>2
    <2>12. Descending'
      <3> SUFFICES ASSUME NEW i \in SlotId, NEW j \in SlotId, Live(i), Live(j), i < j
                   PROVE  slots'[j].offset + slots'[j].length <= slots'[i].offset
        BY <2>7 DEF Descending
      <3>1. CASE i = c
        BY <3>1, <2>6, <2>9, <1>4
      <3>2. CASE j = c
        BY <3>2, <2>1, <2>6, <2>3, <2>8, <1>2, <1>4, PageAssumption
      <3>3. CASE i # c /\ j # c
        BY <3>3, <2>6, <1>1 DEF Descending
      <3> QED
        BY <3>1, <3>2, <3>3
    <2>13. CompactedAbove'
      <3>1. free_space_offset' <= write_ptr'
        BY <2>1, <1>2, <1>3, PageAssumption
      <3>2. ASSUME NEW i \in SlotId, Live(i), i < c + 1
            PROVE  slots'[i].offset > write_ptr'
        <4>1. CASE i = c
          BY <4>1, <2>1, <2>6, PageAssumption
        <4>2. CASE i # c
          BY <4>2, <3>2, <2>1, <2>6, <2>8, <1>3, <1>4
        <4> QED
          BY <4>1, <4>2
      <3>3. ASSUME NEW i \in SlotId, Live(i), ~(i < c + 1)
            PROVE  slots'[i].offset + slots'[i].length <= write_ptr' + 1
        <4>1. i > c /\ i # c
          BY <3>3, <1>3, <1>4
        <4> QED
          BY <4>1, <3>3, <2>1, <2>6, <2>9, <1>4, PageAssumption
      <3> QED
        BY <3>1, <3>2, <3>3, <2>7, <1>3 DEF CompactedAbove
    <2> QED
      BY <2>10, <2>11, <2>12, <2>13 DEF IInv
  <1> QED
    BY <1>6, <1>7

\* The end of CompactOnePage preserves the invariant: all tuples were moved.
LEMMA EndInv == ASSUME IInv, EndCompact PROVE IInv'
  <1>1. TypeOK /\ RoomForTupleAndSlot /\ Descending /\ CompactedAbove
    BY DEF IInv
  <1>2. write_ptr \in 0 .. PageSize - 1 /\ slot_count \in Nat
        /\ free_space_offset \in 0 .. PageSize - 1
    BY <1>1 DEF TypeOK
  <1>3. u16(write_ptr) = write_ptr
    BY <1>2, U16Lemma, PageAssumption
  <1>4. /\ free_space_offset' = write_ptr /\ write_ptr' = PageSize - 1
        /\ compacting' = Idle /\ UNCHANGED <<slot_count, slots, data>>
    BY <1>3 DEF EndCompact, FreeAfterCompact
  <1>5. compacting = slot_count /\ compacting # Idle
    BY <1>2 DEF EndCompact, Idle
  <1>6. \A i \in SlotId : (Live(i)' <=> Live(i)) /\ slots'[i] = slots[i]
    BY <1>4 DEF Live
  <1>7. /\ free_space_offset <= write_ptr
        /\ \A i \in SlotId : Live(i) => slots[i].offset > write_ptr
    BY <1>1, <1>5 DEF CompactedAbove, Live
  <1>8. TypeOK'
    BY <1>1, <1>2, <1>4, PageAssumption DEF TypeOK
  <1>9. RoomForTupleAndSlot'
    <2>1. DirectoryEnd <= write_ptr + 1
      BY <1>1, <1>2, <1>7, DirectoryLemma, PageAssumption
         DEF RoomForTupleAndSlot, DirectoryEnd
    <2>2. DirectoryEnd' = DirectoryEnd
      BY <1>4 DEF DirectoryEnd
    <2> QED
      BY <2>1, <2>2, <1>1, <1>4, <1>6, <1>7 DEF RoomForTupleAndSlot
  <1>10. Descending' /\ CompactedAbove'
    BY <1>1, <1>4, <1>6 DEF Descending, CompactedAbove
  <1> QED
    BY <1>8, <1>9, <1>10 DEF IInv

-------------------------------------------------------------------------------
(* What each operation does to the rows.                                      *)

storeVars == <<slot_count, rows>>

\* The bytes of a row lie in the page, above the free space.
LEMMA BytesLemma ==
    ASSUME IInv, NEW i \in SlotId, Live(i), NEW k \in 1 .. slots[i].length
    PROVE  /\ slots[i].offset \in Nat /\ slots[i].length \in Nat
           /\ slots[i].offset + k - 1 \in Address
           /\ slots[i].offset + k - 1 > free_space_offset
  <1>1. slots[i].offset \in Nat /\ slots[i].length \in Nat
    BY PageAssumption DEF IInv, TypeOK, Slot
  <1>2. /\ slots[i].offset > free_space_offset
        /\ slots[i].offset + slots[i].length <= PageSize
    BY DEF IInv, RoomForTupleAndSlot
  <1>3. free_space_offset \in 0 .. PageSize - 1 /\ PageSize \in Nat
    BY PageAssumption DEF IInv, TypeOK
  <1> QED
    BY <1>1, <1>2, <1>3 DEF Address

\* A row whose bytes are the same reads the same.
LEMMA SameRowLemma ==
    ASSUME NEW i \in SlotId, slots'[i].length = slots[i].length,
           \A k \in 1 .. slots[i].length :
               data'[slots'[i].offset + k - 1] = data[slots[i].offset + k - 1]
    PROVE  GetTuple(i)' = GetTuple(i)
  BY DEF GetTuple

\* No two live rows share a byte.
LEMMA DisjointLemma ==
    ASSUME IInv, NEW i \in SlotId, NEW j \in SlotId, Live(i), Live(j), i # j
    PROVE  \/ slots[i].offset + slots[i].length <= slots[j].offset
           \/ slots[j].offset + slots[j].length <= slots[i].offset
  <1>1. i < j \/ j < i
    BY PageAssumption DEF SlotId
  <1> QED
    BY <1>1 DEF IInv, Descending

\* A row just stored reads back as the tuple it was given.
LEMMA ReadBackLemma ==
    ASSUME NEW d \in Tuples, NEW to \in Int, data \in [Address -> Byte],
           \A k \in 1 .. Len(d) : to + k - 1 \in Address
    PROVE  [k \in 1 .. Len(d) |-> StoreTuple(d, to)[to + k - 1]] = d
  <1>1. d \in Seq(Byte) /\ Len(d) \in Nat
    BY PageAssumption
  <1>2. ASSUME NEW k \in 1 .. Len(d)
        PROVE  StoreTuple(d, to)[to + k - 1] = d[k]
    <2>1. to + k - 1 \in to .. to + Len(d) - 1 /\ (to + k - 1) - to + 1 = k
      BY <1>1
    <2>2. to + k - 1 \in Address
      OBVIOUS
    <2> QED
      BY <2>1, <2>2, StoreLemma
  <1>3. d = [k \in 1 .. Len(d) |-> d[k]]
    BY <1>1
  <1> QED
    BY <1>2, <1>3

\* InsertTuple adds the row, and touches no other.
LEMMA InsertRows ==
    ASSUME ShortTuples, IInv, NEW d \in Tuples, InsertTuple(d)
    PROVE  rows' = [rows EXCEPT ![slot_count] = d]
  <1> DEFINE to == free_space_offset - Len(d) + 1
  <1>1. /\ slots \in [SlotId -> Slot] /\ data \in [Address -> Byte]
        /\ slot_count \in SlotId /\ free_space_offset \in 0 .. PageSize - 1
    BY DEF IInv, TypeOK, SlotId
  <1>2. Len(d) \in Nat \ {0}
    BY PageAssumption
  <1>3. /\ slot_count' = slot_count + 1
        /\ slots'[slot_count] = [offset |-> to, length |-> Len(d)]
        /\ \A i \in SlotId : i # slot_count => slots'[i] = slots[i]
        /\ data' = StoreTuple(d, to)
        /\ to \in 1 .. PageSize - 1
    BY <1>1, <1>2, InsertLemma, PageAssumption
  <1>4. ASSUME NEW i \in SlotId, i = slot_count
        PROVE  rows'[i] = d
    <2>1. \A k \in 1 .. Len(d) : to + k - 1 \in Address
      BY <1>1, <1>2, <1>3, PageAssumption DEF Address
    <2> HIDE DEF to
    <2>2. [k \in 1 .. Len(d) |-> StoreTuple(d, to)[to + k - 1]] = d
      <3>1. to \in Int
        BY <1>3
      <3> QED
        BY <3>1, <2>1, <1>1, ReadBackLemma
    <2>3. GetTuple(i)' = d
      BY <2>2, <1>3, <1>4 DEF GetTuple
    <2>4. ~(i >= slot_count') /\ slots'[i].length # 0
      BY <1>1, <1>2, <1>3, <1>4, PageAssumption DEF SlotId
    <2> QED
      BY <2>3, <2>4 DEF rows
  <1>5. ASSUME NEW i \in SlotId, i # slot_count
        PROVE  rows'[i] = rows[i]
    <2>1. i >= slot_count' <=> i >= slot_count
      BY <1>1, <1>3, <1>5, PageAssumption DEF SlotId
    <2>2. slots'[i] = slots[i]
      BY <1>3, <1>5
    <2>3. CASE ~Live(i)
      BY <2>1, <2>2, <2>3, <1>1 DEF rows, Live, SlotId
    <2>4. CASE Live(i)
      <3>1. ASSUME NEW k \in 1 .. slots[i].length
            PROVE  data'[slots[i].offset + k - 1] = data[slots[i].offset + k - 1]
        <4> DEFINE a == slots[i].offset + k - 1
        <4>1. a \in Address /\ a > free_space_offset
          BY <2>4, BytesLemma
        <4>2. a \notin to .. to + Len(d) - 1
          BY <4>1, <1>1, <1>2, PageAssumption DEF Address
        <4> HIDE DEF a
        <4>3. data'[a] = data[a]
          BY <4>1, <4>2, <1>1, <1>3, StoreLemma
        <4> QED
          BY <4>3 DEF a
      <3>2. GetTuple(i)' = GetTuple(i)
        BY <3>1, <2>2, SameRowLemma
      <3> QED
        BY <3>2, <2>1, <2>2 DEF rows
    <2> QED
      BY <2>3, <2>4
  <1> QED
    BY <1>1, <1>4, <1>5 DEF rows

\* DeleteTuple deletes the row, and touches no other.
LEMMA DeleteRows ==
    ASSUME IInv, NEW i \in SlotId, DeleteTuple(i)
    PROVE  rows' = [rows EXCEPT ![i] = Deleted]
  <1>1. slots \in [SlotId -> Slot] /\ slot_count \in Nat
    BY DEF IInv, TypeOK
  <1>2. /\ slots'[i].length = 0 /\ slot_count' = slot_count /\ data' = data
        /\ \A j \in SlotId : j # i => slots'[j] = slots[j]
    BY <1>1 DEF DeleteTuple, Slot
  <1>3. rows'[i] = Deleted
    <2>1. ~(i >= slot_count')
      BY <1>1, <1>2, PageAssumption DEF DeleteTuple, SlotId
    <2> QED
      BY <2>1, <1>2 DEF rows
  <1>4. \A j \in SlotId : j # i => rows'[j] = rows[j]
    BY <1>2 DEF rows, GetTuple
  <1> QED
    BY <1>3, <1>4 DEF rows

\* A shrinking Update changes the row, and touches no other.
LEMMA UpdateRows ==
    ASSUME IInv, NEW i \in SlotId, NEW d \in Tuples, UpdateInPlace(i, d)
    PROVE  rows' = [rows EXCEPT ![i] = d]
  <1> DEFINE to == slots[i].offset
  <1>1. /\ slots \in [SlotId -> Slot] /\ data \in [Address -> Byte] /\ slot_count \in Nat
    BY DEF IInv, TypeOK
  <1>2. Len(d) \in Nat \ {0} /\ Len(d) <= slots[i].length /\ Live(i) /\ i < slot_count
    BY PageAssumption DEF UpdateInPlace, Live
  <1>3. to \in Nat /\ slots[i].length \in Nat
    BY <1>1, PageAssumption DEF Slot
  <1>4. /\ slot_count' = slot_count /\ data' = StoreTuple(d, to)
        /\ slots'[i].offset = to /\ slots'[i].length = Len(d)
        /\ \A j \in SlotId : j # i => slots'[j] = slots[j]
    BY <1>1 DEF UpdateInPlace, Slot
  <1>5. rows'[i] = d
    <2>1. \A k \in 1 .. Len(d) : to + k - 1 \in Address
      BY <1>2, <1>3, BytesLemma
    <2> HIDE DEF to
    <2>2. [k \in 1 .. Len(d) |-> StoreTuple(d, to)[to + k - 1]] = d
      <3>1. to \in Int
        BY <1>3
      <3> QED
        BY <3>1, <2>1, <1>1, ReadBackLemma
    <2>3. GetTuple(i)' = d
      BY <2>2, <1>4 DEF GetTuple
    <2>4. ~(i >= slot_count')
      BY <1>1, <1>2, <1>4, PageAssumption DEF SlotId
    <2> QED
      BY <2>3, <2>4, <1>2, <1>4 DEF rows
  <1>6. ASSUME NEW j \in SlotId, j # i
        PROVE  rows'[j] = rows[j]
    <2>1. slots'[j] = slots[j]
      BY <1>4, <1>6
    <2>2. CASE ~Live(j)
      BY <2>1, <2>2, <1>1, <1>4, PageAssumption DEF rows, Live, SlotId
    <2>3. CASE Live(j)
      <3>1. ASSUME NEW k \in 1 .. slots[j].length
            PROVE  data'[slots[j].offset + k - 1] = data[slots[j].offset + k - 1]
        <4> DEFINE a == slots[j].offset + k - 1
        <4>1. a \in Address /\ slots[j].offset \in Nat /\ slots[j].length \in Nat
          BY <2>3, BytesLemma
        <4>2. \/ slots[i].offset + slots[i].length <= slots[j].offset
              \/ slots[j].offset + slots[j].length <= slots[i].offset
          BY <1>2, <1>6, <2>3, DisjointLemma
        <4>3. a \notin to .. to + Len(d) - 1
          <5>1. k \in Nat /\ 1 <= k /\ k <= slots[j].length /\ a \in Int
            BY <4>1
          <5>2. CASE slots[i].offset + slots[i].length <= slots[j].offset
            <6>1. to + Len(d) <= slots[j].offset
              BY <5>2, <4>1, <1>2, <1>3
            <6> QED
              BY <6>1, <5>1, <4>1, <1>2, <1>3
          <5>3. CASE slots[j].offset + slots[j].length <= slots[i].offset
            <6>1. a < to
              BY <5>1, <5>3, <4>1, <1>3
            <6> HIDE DEF a
            <6> QED
              BY <6>1, <5>1, <1>2, <1>3
          <5> QED
            BY <5>2, <5>3, <4>2
        <4> HIDE DEF a
        <4>4. data'[a] = data[a]
          BY <4>1, <4>3, <1>1, <1>3, <1>4, StoreLemma
        <4> QED
          BY <4>4 DEF a
      <3>2. GetTuple(j)' = GetTuple(j)
        BY <3>1, <2>1, SameRowLemma
      <3> QED
        BY <3>2, <2>1, <1>4 DEF rows
    <2> QED
      BY <2>2, <2>3
  <1> QED
    BY <1>5, <1>6 DEF rows

\* An iteration of CompactOnePage's loop changes no row: the bytes it overwrites
\* belong to no row that is still to be moved.
LEMMA CompactRows == ASSUME IInv, CompactSlot PROVE rows' = rows
  <1> DEFINE c == compacting
             new == write_ptr - slots[c].length + 1
  <1>1. CASE slots[c].length = 0
    <2>1. UNCHANGED <<slots, data, slot_count>>
      BY <1>1 DEF CompactSlot
    <2> QED
      BY <2>1 DEF rows, GetTuple
  <1>2. CASE slots[c].length # 0
    <2>1. /\ c \in SlotId /\ Live(c)
          /\ slots[c].length \in Nat \ {0} /\ slots[c].offset \in Nat
          /\ slots[c].offset <= new /\ new \in 1 .. PageSize - 1
          /\ slots' = [slots EXCEPT ![c].offset = new]
          /\ data' = [a \in Address |-> IF a \in new .. new + slots[c].length - 1
                                         THEN data[slots[c].offset + (a - new)] ELSE data[a]]
      BY <1>2, MoveLemma
    <2>2. /\ slots \in [SlotId -> Slot] /\ write_ptr \in 0 .. PageSize - 1
          /\ slot_count \in Nat /\ PageSize \in Nat
      BY PageAssumption DEF IInv, TypeOK
    <2>3. new + slots[c].length = write_ptr + 1
      BY <2>1, <2>2
    <2> HIDE DEF new
    <2>4. new \in Nat /\ new + slots[c].length <= PageSize
      BY <2>1, <2>2, <2>3
    <2>5. /\ slots'[c].offset = new /\ slots'[c].length = slots[c].length
          /\ \A i \in SlotId : i # c => slots'[i] = slots[i]
      BY <2>1, <2>2 DEF Slot
    <2>6. slot_count' = slot_count /\ c # Idle
      BY DEF CompactSlot
    <2>7. ASSUME NEW i \in SlotId, i = c
          PROVE  GetTuple(i)' = GetTuple(i)
      <3>1. ASSUME NEW k \in 1 .. slots[c].length
            PROVE  data'[new + k - 1] = data[slots[c].offset + k - 1]
        <4> DEFINE a == new + k - 1
        <4>1. a \in Address /\ a \in new .. new + slots[c].length - 1
          <5>1. k \in Nat /\ 1 <= k /\ k <= slots[c].length /\ slots[c].length \in Nat
            BY <2>1
          <5> QED
            BY <5>1, <2>2, <2>4 DEF Address
        <4>2. slots[c].offset + (a - new) = slots[c].offset + k - 1
          BY <2>1, <2>4
        <4> HIDE DEF a
        <4>3. data'[a] = data[slots[c].offset + k - 1]
          BY <4>1, <4>2, <2>1
        <4> QED
          BY <4>3 DEF a
      <3>2. \A k \in 1 .. slots[i].length :
               data'[slots'[i].offset + k - 1] = data[slots[i].offset + k - 1]
        BY <3>1, <2>5, <2>7
      <3> QED
        BY <3>2, <2>5, <2>7, SameRowLemma
    <2>8. ASSUME NEW i \in SlotId, i # c, Live(i)
          PROVE  GetTuple(i)' = GetTuple(i)
      <3>1. /\ i < c => slots[i].offset > write_ptr
            /\ i > c => slots[i].offset + slots[i].length <= slots[c].offset
            /\ i < c \/ i > c
        BY <2>1, <2>6, <2>8, PageAssumption
           DEF IInv, CompactedAbove, Descending, SlotId
      <3>2. ASSUME NEW k \in 1 .. slots[i].length
            PROVE  data'[slots[i].offset + k - 1] = data[slots[i].offset + k - 1]
        <4> DEFINE a == slots[i].offset + k - 1
        <4>1. a \in Address /\ slots[i].offset \in Nat /\ slots[i].length \in Nat
          BY <2>8, BytesLemma
        <4>2. a \notin new .. new + slots[c].length - 1
          BY <4>1, <3>1, <2>1, <2>2, <2>3, <2>4
        <4> HIDE DEF a
        <4>3. data'[a] = data[a]
          BY <4>1, <4>2, <2>1
        <4> QED
          BY <4>3 DEF a
      <3> QED
        BY <3>2, <2>5, <2>8, SameRowLemma
    <2>9. ASSUME NEW i \in SlotId PROVE rows'[i] = rows[i]
      <3>1. slots'[i].length = slots[i].length
        BY <2>5
      <3>2. Live(i) => GetTuple(i)' = GetTuple(i)
        <4>1. CASE i = c
          BY <4>1, <2>7
        <4>2. CASE i # c
          BY <4>2, <2>8
        <4> QED
          BY <4>1, <4>2
      <3>3. i >= slot_count <=> ~(i < slot_count)
        BY <2>2 DEF SlotId
      <3> QED
        BY <3>1, <3>2, <3>3, <2>6 DEF rows, Live
    <2> QED
      BY <2>9 DEF rows
  <1> QED
    BY <1>1, <1>2

-------------------------------------------------------------------------------
(* Every step of the page is a step of the slot store, or shows nothing of it. *)

\* What is live is a tuple some client stored (so it is no mark for a deletion).
RowsAreTuples == \A i \in SlotId : Live(i) => rows[i] \in Tuples

RInv == IInv /\ RowsAreTuples

\* Operations that change neither the rows nor which of them are live.
LEMMA SameRows ==
    ASSUME RowsAreTuples, rows' = rows, slot_count' = slot_count,
           \A i \in SlotId : Live(i)' => Live(i)
    PROVE  RowsAreTuples' /\ [Store!Next]_storeVars
  <1>1. RowsAreTuples'
    BY DEF RowsAreTuples
  <1>2. storeVars' = storeVars
    BY DEF storeVars
  <1> QED
    BY <1>1, <1>2

\* InsertTuple gives out the next row.
LEMMA InsertStep ==
    ASSUME ShortTuples, RInv, NEW d \in Tuples, InsertTuple(d)
    PROVE  RInv' /\ Store!Insert(d)
  <1>1. IInv /\ RowsAreTuples /\ IInv'
    BY InsertInv DEF RInv
  <1>2. rows' = [rows EXCEPT ![slot_count] = d] /\ slot_count' = slot_count + 1
    BY <1>1, InsertRows, InsertLemma
  <1>3. slot_count \in SlotId /\ slots \in [SlotId -> Slot]
    BY <1>1 DEF IInv, TypeOK, SlotId
  <1>4. ASSUME NEW i \in SlotId, Live(i)' PROVE rows'[i] \in Tuples
    <2>1. CASE i = slot_count
      BY <1>2, <1>3, <2>1 DEF rows
    <2>2. CASE i # slot_count
      <3>1. slots'[i] = slots[i]
        BY <1>1, <1>3, <2>2, InsertLemma
      <3>2. i < slot_count
        BY <1>2, <1>3, <1>4, <2>2, PageAssumption DEF Live, SlotId
      <3>3. Live(i)
        BY <1>4, <3>1, <3>2 DEF Live
      <3> QED
        BY <3>3, <1>1, <1>2, <2>2 DEF RowsAreTuples, rows
    <2> QED
      BY <2>1, <2>2
  <1>5. Store!Insert(d)
    BY <1>2, <1>3 DEF Store!Insert
  <1> QED
    BY <1>1, <1>4, <1>5 DEF RInv, RowsAreTuples

\* DeleteTuple deletes the row.
LEMMA DeleteStep ==
    ASSUME RInv, NEW i \in SlotId, DeleteTuple(i)
    PROVE  RInv' /\ Store!Delete(i)
  <1>1. IInv /\ RowsAreTuples /\ IInv'
    BY DeleteInv DEF RInv
  <1>2. rows' = [rows EXCEPT ![i] = Deleted] /\ slot_count' = slot_count
    BY <1>1, DeleteRows DEF DeleteTuple
  <1>3. slots \in [SlotId -> Slot]
    BY <1>1 DEF IInv, TypeOK
  <1>4. ASSUME NEW j \in SlotId, Live(j)' PROVE rows'[j] \in Tuples
    <2>1. j # i
      BY <1>3, <1>4 DEF Live, DeleteTuple, Slot
    <2>2. Live(j)
      BY <2>1, <1>2, <1>3, <1>4 DEF Live, DeleteTuple
    <2> QED
      BY <2>1, <2>2, <1>1, <1>2 DEF RowsAreTuples, rows
  <1>5. Store!Delete(i)
    BY <1>2 DEF Store!Delete, DeleteTuple
  <1> QED
    BY <1>1, <1>4, <1>5 DEF RInv, RowsAreTuples

\* A shrinking Update stores in a row that was not deleted.
LEMMA UpdateStep ==
    ASSUME RInv, NEW i \in SlotId, NEW d \in Tuples, UpdateInPlace(i, d)
    PROVE  RInv' /\ Store!Update(i, d)
  <1>1. IInv /\ RowsAreTuples /\ IInv'
    BY UpdateInv DEF RInv
  <1>2. rows' = [rows EXCEPT ![i] = d] /\ slot_count' = slot_count
    BY <1>1, UpdateRows DEF UpdateInPlace
  <1>3. slots \in [SlotId -> Slot]
    BY <1>1 DEF IInv, TypeOK
  <1>4. ASSUME NEW j \in SlotId, Live(j)' PROVE rows'[j] \in Tuples
    <2>1. CASE j = i
      BY <2>1, <1>2 DEF rows
    <2>2. CASE j # i
      <3>1. Live(j)
        BY <2>2, <1>2, <1>3, <1>4 DEF Live, UpdateInPlace
      <3> QED
        BY <3>1, <2>2, <1>1, <1>2 DEF RowsAreTuples, rows
    <2> QED
      BY <2>1, <2>2
  <1>5. Live(i) /\ rows[i] # Deleted
    BY <1>1, PageAssumption DEF UpdateInPlace, RowsAreTuples
  <1>6. Store!Update(i, d)
    BY <1>2, <1>5 DEF Store!Update, Live
  <1> QED
    BY <1>1, <1>4, <1>6 DEF RInv, RowsAreTuples

\* The steps of compaction change no row.
LEMMA CompactStep ==
    ASSUME RInv, BeginCompact \/ CompactSlot \/ EndCompact
    PROVE  RInv' /\ [Store!Next]_storeVars
  <1>1. IInv /\ RowsAreTuples /\ IInv'
    BY BeginInv, CompactInv, EndInv DEF RInv
  <1>2. rows' = rows
    <2>1. CASE CompactSlot
      BY <1>1, <2>1, CompactRows
    <2>2. CASE BeginCompact \/ EndCompact
      BY <2>2 DEF BeginCompact, EndCompact, rows, GetTuple
    <2> QED
      BY <2>1, <2>2
  <1>3. slot_count' = slot_count
    BY DEF BeginCompact, CompactSlot, EndCompact
  <1>4. \A i \in SlotId : slots'[i].length = slots[i].length
    <2>1. slots \in [SlotId -> Slot]
      BY <1>1 DEF IInv, TypeOK
    <2> QED
      BY <2>1 DEF BeginCompact, CompactSlot, EndCompact, Slot
  <1>5. \A i \in SlotId : Live(i)' => Live(i)
    BY <1>3, <1>4 DEF Live
  <1> QED
    BY <1>1, <1>2, <1>3, <1>5, SameRows DEF RInv

LEMMA StepLemma ==
    ASSUME ShortTuples, Growing = FALSE
    PROVE  RInv /\ [Next]_vars => RInv' /\ [Store!Next]_storeVars
  <1> SUFFICES ASSUME RInv, [Next]_vars
               PROVE  RInv' /\ [Store!Next]_storeVars
    OBVIOUS
  <1>1. CASE BeginCompact \/ CompactSlot \/ EndCompact
    BY <1>1, CompactStep
  <1>2. ASSUME NEW d \in Tuples, InsertTuple(d)
        PROVE  RInv' /\ [Store!Next]_storeVars
    BY <1>2, InsertStep DEF Store!Next
  <1>3. ASSUME NEW i \in SlotId, DeleteTuple(i)
        PROVE  RInv' /\ [Store!Next]_storeVars
    BY <1>3, DeleteStep DEF Store!Next
  <1>4. ASSUME NEW i \in SlotId, NEW d \in Tuples, UpdateInPlace(i, d)
        PROVE  RInv' /\ [Store!Next]_storeVars
    BY <1>4, UpdateStep DEF Store!Next
  <1>5. ASSUME NEW i \in SlotId, NEW d \in Tuples PROVE ~UpdateGrowing(i, d)
    BY DEF UpdateGrowing
  <1>6. CASE UNCHANGED vars
    <2>1. IInv' /\ rows' = rows /\ slot_count' = slot_count
      BY <1>6 DEF vars, RInv, IInv, TypeOK, RoomForTupleAndSlot, DirectoryEnd,
                  Descending, CompactedAbove, Live, rows, GetTuple
    <2>2. \A i \in SlotId : Live(i)' => Live(i)
      BY <1>6 DEF vars, Live
    <2> QED
      BY <2>1, <2>2, SameRows DEF RInv
  <1> QED
    BY <1>1, <1>2, <1>3, <1>4, <1>5, <1>6 DEF Next

LEMMA Invariance == ASSUME ShortTuples, Growing = FALSE PROVE Spec => []RInv
  <1>1. Init => RInv
    <2>1. Init => RowsAreTuples
      BY DEF Init, RowsAreTuples, Live, SlotId
    <2> QED
      BY <2>1, InitInv DEF RInv
  <1>2. RInv /\ [Next]_vars => RInv'
    BY StepLemma
  <1> QED
    BY <1>1, <1>2, PTL DEF Spec

-------------------------------------------------------------------------------
(* Compaction leaves no byte between the tuples it has moved.                  *)

\* Byte a belongs to a live tuple of a slot before n.
Covered(a, n) ==
    \E i \in SlotId : /\ Live(i) /\ i < n
                      /\ a \in slots[i].offset .. slots[i].offset + slots[i].length - 1

Reclaimed ==
    compacting # Idle => \A a \in write_ptr + 1 .. PageSize - 1 : Covered(a, compacting)

\* The tuple moved last ends where the one before it begins.
LEMMA CompactReclaims ==
    ASSUME IInv, Reclaimed, CompactSlot
    PROVE  Reclaimed'
  <1>0. PICK c : c = compacting
    OBVIOUS
  <1> DEFINE new == write_ptr - slots[c].length + 1
  <1>1. /\ slots \in [SlotId -> Slot] /\ write_ptr \in 0 .. PageSize - 1
        /\ PageSize \in Nat /\ slot_count \in Nat /\ c \in Nat
    BY <1>0, PageAssumption DEF IInv, TypeOK, CompactSlot
  <1>2. slot_count' = slot_count /\ c # Idle /\ compacting' = c + 1
    BY <1>0 DEF CompactSlot
  <1>3. CASE slots[c].length = 0
    <2>1. UNCHANGED <<slots, write_ptr>>
      BY <1>0, <1>3 DEF CompactSlot
    <2>2. ASSUME NEW a \in write_ptr + 1 .. PageSize - 1 PROVE Covered(a, c + 1)'
      <3>1. PICK i \in SlotId :
               /\ Live(i) /\ i < c
               /\ a \in slots[i].offset .. slots[i].offset + slots[i].length - 1
        BY <1>0, <1>2 DEF Reclaimed, Covered
      <3>2. i < c + 1 /\ Live(i)'
        BY <1>1, <1>2, <2>1, <3>1 DEF Live, SlotId
      <3> QED
        BY <2>1, <3>1, <3>2 DEF Covered
    <2> QED
      BY <1>2, <2>1, <2>2 DEF Reclaimed
  <1>4. CASE slots[c].length # 0
    <2>1. /\ c \in SlotId /\ Live(c)
          /\ slots[c].length \in Nat \ {0}
          /\ new \in 1 .. PageSize - 1
          /\ slots' = [slots EXCEPT ![c].offset = new]
          /\ write_ptr' = new - 1
      BY <1>0, <1>4, MoveLemma
    <2>2. new + slots[c].length = write_ptr + 1
      BY <1>1, <2>1
    <2> HIDE DEF new
    <2>3. /\ slots'[c].offset = new /\ slots'[c].length = slots[c].length
          /\ \A i \in SlotId : i # c => slots'[i] = slots[i]
      BY <1>1, <2>1 DEF Slot
    <2>4. ASSUME NEW a \in new .. PageSize - 1 PROVE Covered(a, c + 1)'
      <3>1. CASE a <= write_ptr
        <4>1. a \in new .. new + slots[c].length - 1 /\ c < c + 1
          BY <1>1, <2>1, <2>2, <3>1
        <4>2. Live(c)'
          BY <1>2, <2>1, <2>3 DEF Live
        <4> QED
          BY <2>1, <2>3, <4>1, <4>2 DEF Covered
      <3>2. CASE a > write_ptr
        <4>1. a \in write_ptr + 1 .. PageSize - 1
          BY <1>1, <2>1, <3>2
        <4>2. PICK i \in SlotId :
                 /\ Live(i) /\ i < c
                 /\ a \in slots[i].offset .. slots[i].offset + slots[i].length - 1
          BY <1>0, <1>2, <4>1 DEF Reclaimed, Covered
        <4>3. i # c /\ i < c + 1
          BY <1>1, <4>2 DEF SlotId
        <4>4. Live(i)'
          BY <1>2, <2>3, <4>2, <4>3 DEF Live
        <4> QED
          BY <2>3, <4>2, <4>3, <4>4 DEF Covered
      <3> QED
        BY <1>1, <2>1, <3>1, <3>2
    <2>5. (write_ptr + 1)' = new
      BY <2>1
    <2> QED
      BY <1>2, <2>4, <2>5 DEF Reclaimed
  <1> QED
    BY <1>3, <1>4

LEMMA ReclaimStep == RInv /\ Reclaimed /\ [Next]_vars => Reclaimed'
  <1> SUFFICES ASSUME IInv, Reclaimed, [Next]_vars PROVE Reclaimed'
    BY DEF RInv
  <1>1. CASE CompactSlot
    BY <1>1, CompactReclaims
  <1>2. CASE BeginCompact
    <2>1. write_ptr' = PageSize - 1 /\ PageSize \in Nat
      BY <1>2, PageAssumption DEF BeginCompact, IInv, CompactedAbove
    <2> QED
      BY <2>1 DEF Reclaimed
  <1>3. CASE UNCHANGED vars
    BY <1>3 DEF vars, Reclaimed, Covered, Live
  <1>4. CASE ~CompactSlot /\ ~BeginCompact /\ ~UNCHANGED vars
    <2>1. compacting' = Idle
      BY <1>4 DEF Next, EndCompact, InsertTuple, DeleteTuple, UpdateInPlace, UpdateGrowing
    <2> QED
      BY <2>1 DEF Reclaimed
  <1> QED
    BY <1>1, <1>2, <1>3, <1>4

-------------------------------------------------------------------------------
(* The theorems.                                                              *)

\* Every field of the header and of the directory stays in range: no uint16_t
\* wraps, and the directory never outgrows the page.
THEOREM TypeCorrect ==
    ASSUME ShortTuples, Growing = FALSE PROVE Spec => []TypeOK
  <1>1. RInv => TypeOK
    BY DEF RInv, IInv
  <1> QED
    BY Invariance, <1>1, PTL

\* What HasEnoughSpace accepts fits: the directory and the tuples never meet.
THEOREM RoomKept ==
    ASSUME ShortTuples, Growing = FALSE PROVE Spec => []RoomForTupleAndSlot
  <1>1. RInv => RoomForTupleAndSlot
    BY DEF RInv, IInv
  <1> QED
    BY Invariance, <1>1, PTL

\* No two live tuples share a byte, whatever was moved or stored in place.
THEOREM TuplesApart ==
    ASSUME ShortTuples, Growing = FALSE PROVE Spec => []NoOverlap
  <1>1. RInv => NoOverlap
    BY DisjointLemma DEF RInv, NoOverlap
  <1> QED
    BY Invariance, <1>1, PTL

\* CompactOnePage, which moves tuples over each other's bytes, changes no row.
THEOREM CompactionSafe ==
    ASSUME ShortTuples, Growing = FALSE PROVE Spec => CompactionMovesNoRow
  <1>1. RInv => (CompactSlot => rows' = rows)
    BY CompactRows DEF RInv
  <1> QED
    BY Invariance, <1>1, PTL DEF CompactionMovesNoRow

\* When CompactOnePage returns, the bytes above the free space all belong to live
\* tuples: what deletions and shorter updates left is free again.
THEOREM SpaceIsReclaimed ==
    ASSUME ShortTuples, Growing = FALSE PROVE Spec => CompactionReclaims
  <1>1. Init => Reclaimed
    BY DEF Init, Reclaimed
  <1>2. ASSUME IInv, Reclaimed, EndCompact
        PROVE  \A a \in free_space_offset' + 1 .. PageSize - 1 :
                  \E i \in SlotId : Live(i) /\ a \in slots[i].offset ..
                                            slots[i].offset + slots[i].length - 1
    <2>1. compacting # Idle
      BY <1>2 DEF EndCompact, IInv, TypeOK, Idle
    <2>2. free_space_offset' = write_ptr
      <3>1. write_ptr \in 0 .. Width - 1
        BY <1>2, PageAssumption DEF IInv, TypeOK
      <3> QED
        BY <1>2, <3>1, U16Lemma DEF EndCompact, FreeAfterCompact
    <2> QED
      BY <1>2, <2>1, <2>2 DEF Reclaimed, Covered
  <1>3. RInv /\ Reclaimed =>
           (EndCompact =>
              \A a \in free_space_offset' + 1 .. PageSize - 1 :
                  \E i \in SlotId : Live(i) /\ a \in slots[i].offset ..
                                            slots[i].offset + slots[i].length - 1)
    BY <1>2 DEF RInv
  <1> QED
    BY Invariance, ReclaimStep, <1>1, <1>3, PTL DEF Spec, CompactionReclaims

\* The page implements the slot store: every row reads back as last stored.
THEOREM Refinement ==
    ASSUME ShortTuples, Growing = FALSE PROVE Spec => RowsReadBack
  <1>1. Init => Store!Init
    BY PageAssumption DEF Init, Store!Init, rows, SlotId
  <1>2. RInv /\ [Next]_vars => [Store!Next]_storeVars
    BY StepLemma
  <1> QED
    BY Invariance, <1>1, <1>2, PTL DEF Spec, RowsReadBack, Store!Spec, storeVars
===============================================================================
