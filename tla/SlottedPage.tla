----------------------------- MODULE SlottedPage ------------------------------
(***************************************************************************)
(* One slotted page: PageDataManager (src/manager/page_data_manager.cpp)   *)
(* and the in-place part of RecordManager::Update                          *)
(* (src/manager/record_manager.cpp), byte by byte.  The header and the     *)
(* slot directory grow up from address 0, tuples grow down from the last   *)
(* address.  CompactOnePage is one action per iteration of its loop.       *)
(*                                                                         *)
(* The directory is a variable of its own, not bytes of the page: that     *)
(* no tuple reaches into it is the invariant RoomForTupleAndSlot, so no    *)
(* behaviour that satisfies it depends on the difference.                  *)
(***************************************************************************)
EXTENDS Integers, Sequences

CONSTANTS
    PageSize,   \* PAGE_SIZE
    HeaderSize, \* sizeof(PageHeader)
    SlotSize,   \* sizeof(Slot)
    Width,      \* 2^16: header and slot fields are uint16_t
    Byte,       \* values of a byte
    ZeroByte,   \* what NewPage fills the page with
    Tuples,     \* tuples clients store, sequences of bytes
    Growing,    \* whether clients call Update with a longer tuple
    Absent,     \* rows: a slot not given out
    Deleted     \* rows: a slot whose tuple was deleted

ASSUME PageAssumption ==
    /\ PageSize \in Nat /\ HeaderSize \in Nat /\ SlotSize \in Nat \ {0}
    /\ Width \in Nat /\ HeaderSize < PageSize /\ PageSize < Width
    /\ \A d \in Tuples : d \in Seq(Byte) /\ d # <<>> /\ Len(d) < Width
    /\ Absent \notin Tuples \cup {Deleted} /\ Deleted \notin Tuples
    /\ ZeroByte \in Byte /\ Growing \in BOOLEAN

VARIABLES
    free_space_offset,  \* PageHeader: last free address
    slot_count,         \* PageHeader
    slots,              \* the slot directory
    data,               \* page->data
    compacting,         \* CompactOnePage: next i of its loop, or Idle
    write_ptr           \* CompactOnePage; its initial value when Idle

vars == <<free_space_offset, slot_count, slots, data, compacting, write_ptr>>

SlotId == 0 .. PageSize - 1
Address == 0 .. PageSize - 1
Slot == [offset : 0 .. Width - 1, length : 0 .. Width - 1]
Idle == -1

u16(x) == x % Width

-------------------------------------------------------------------------------
(* Operators on the page.                                                     *)

\* memcpy / memmove of n bytes, those outside the page left out.
CopyBytes(mem, to, n, src(_)) ==
    [a \in Address |-> IF a \in to .. to + n - 1 THEN src(a - to) ELSE mem[a]]

StoreTuple(d, to) == CopyBytes(data, to, Len(d), LAMBDA k : d[k + 1])

DirectoryEnd == HeaderSize + slot_count * SlotSize

AvailableSpace == u16((free_space_offset + 1) - DirectoryEnd)

\* Mutants: the slot is not counted; nothing is counted.
HasEnoughSpaceNoSlot(tuple_size) == u16(tuple_size) <= AvailableSpace
HasEnoughSpaceAlways(tuple_size) == tuple_size < Width

HasEnoughSpace(tuple_size) == u16(tuple_size + SlotSize) <= AvailableSpace

Live(i) == i < slot_count /\ slots[i].length # 0

-------------------------------------------------------------------------------
(* Operations.  Those that return false change nothing.                       *)

InsertTuple(d) ==
    LET new_free_space_offset == u16(free_space_offset - Len(d) + 1)
    IN  /\ compacting = Idle
        /\ HasEnoughSpace(Len(d))
        /\ data' = StoreTuple(d, new_free_space_offset)
        /\ slots' = [slots EXCEPT ![slot_count] =
                        [offset |-> new_free_space_offset, length |-> Len(d)]]
        /\ slot_count' = u16(slot_count + 1)
        /\ free_space_offset' = u16(new_free_space_offset - 1)
        /\ UNCHANGED <<compacting, write_ptr>>

DeleteTuple(i) ==
    /\ compacting = Idle
    /\ i < slot_count
    /\ slots' = [slots EXCEPT ![i].length = 0]
    /\ UNCHANGED <<free_space_offset, slot_count, data, compacting, write_ptr>>

\* Mutant: the slot keeps the old length.
UpdateInPlaceKeepsLength(i, d) ==
    /\ compacting = Idle
    /\ Live(i)
    /\ Len(d) <= slots[i].length
    /\ data' = StoreTuple(d, slots[i].offset)
    /\ UNCHANGED <<slots, free_space_offset, slot_count, compacting, write_ptr>>

\* RecordManager::Update when the new tuple is no longer than the old one.
UpdateInPlace(i, d) ==
    /\ compacting = Idle
    /\ Live(i)
    /\ Len(d) <= slots[i].length
    /\ data' = StoreTuple(d, slots[i].offset)
    /\ slots' = [slots EXCEPT ![i].length = Len(d)]
    /\ UNCHANGED <<free_space_offset, slot_count, compacting, write_ptr>>

\* Mutant: the header is not updated.
UpdateGrowingHeaderForgotten(i, d) ==
    LET new_offset == u16(free_space_offset - Len(d) + 1)
    IN  /\ compacting = Idle
        /\ Growing
        /\ Live(i)
        /\ Len(d) > slots[i].length
        /\ Len(d) <= AvailableSpace
        /\ data' = StoreTuple(d, new_offset)
        /\ slots' = [slots EXCEPT ![i] = [offset |-> new_offset, length |-> Len(d)]]
        /\ UNCHANGED <<free_space_offset, slot_count, compacting, write_ptr>>

\* RecordManager::Update when it is longer: the tuple moves to the free space.
UpdateGrowing(i, d) ==
    LET new_offset == u16(free_space_offset - Len(d) + 1)
    IN  /\ compacting = Idle
        /\ Growing
        /\ Live(i)
        /\ Len(d) > slots[i].length
        /\ Len(d) <= AvailableSpace
        /\ data' = StoreTuple(d, new_offset)
        /\ slots' = [slots EXCEPT ![i] = [offset |-> new_offset, length |-> Len(d)]]
        /\ free_space_offset' = u16(new_offset - 1)
        /\ UNCHANGED <<slot_count, compacting, write_ptr>>

BeginCompact ==
    /\ compacting = Idle
    /\ compacting' = 0
    /\ UNCHANGED <<free_space_offset, slot_count, slots, data, write_ptr>>

CompactSlot ==
    /\ compacting # Idle
    /\ compacting < slot_count
    /\ compacting' = compacting + 1
    /\ IF slots[compacting].length = 0
       THEN UNCHANGED <<slots, data, write_ptr>>
       ELSE LET slot == slots[compacting]
                new_offset == write_ptr - slot.length + 1
            IN  /\ data' = CopyBytes(data, new_offset, slot.length,
                                     LAMBDA k : data[slot.offset + k])
                /\ slots' = [slots EXCEPT ![compacting].offset = u16(new_offset)]
                /\ write_ptr' = new_offset - 1
    /\ UNCHANGED <<free_space_offset, slot_count>>

\* Mutant: the header is not updated.
FreeAfterCompactForgotten == free_space_offset

FreeAfterCompact == u16(write_ptr)

EndCompact ==
    /\ compacting = slot_count
    /\ compacting' = Idle
    /\ free_space_offset' = FreeAfterCompact
    /\ write_ptr' = PageSize - 1     \* a local variable: dead outside the loop
    /\ UNCHANGED <<slot_count, slots, data>>

-------------------------------------------------------------------------------

\* A page from NewPage after InitializePage.
Init ==
    /\ free_space_offset = PageSize - 1
    /\ slot_count = 0
    /\ slots = [i \in SlotId |-> [offset |-> 0, length |-> 0]]
    /\ data = [a \in Address |-> ZeroByte]
    /\ compacting = Idle
    /\ write_ptr = PageSize - 1

Next ==
    \/ BeginCompact
    \/ CompactSlot
    \/ EndCompact
    \/ \E d \in Tuples : InsertTuple(d)
    \/ \E i \in SlotId : DeleteTuple(i)
    \/ \E i \in SlotId, d \in Tuples : UpdateInPlace(i, d) \/ UpdateGrowing(i, d)

Spec == Init /\ [][Next]_vars

-------------------------------------------------------------------------------
(* Properties.                                                                *)

\* Every variable keeps its type; the directory never outgrows the page.
TypeOK ==
    /\ free_space_offset \in 0 .. PageSize - 1
    /\ slot_count \in 0 .. PageSize - 1
    /\ slots \in [SlotId -> Slot]
    /\ data \in [Address -> Byte]
    /\ compacting \in {Idle} \cup 0 .. slot_count
    /\ write_ptr \in 0 .. PageSize - 1

\* "need to add a tupe and a slot": what InsertTuple accepted fits, so the
\* directory and the tuples, which grow towards each other, never meet and no
\* tuple reaches past the page.
RoomForTupleAndSlot ==
    /\ DirectoryEnd <= free_space_offset + 1
    /\ \A i \in SlotId : Live(i) =>
          /\ slots[i].offset > free_space_offset
          /\ slots[i].offset + slots[i].length <= PageSize

\* No two live tuples share a byte once an operation has returned.
NoOverlap ==
    \A i, j \in SlotId : compacting = Idle /\ Live(i) /\ Live(j) /\ i # j =>
        \/ slots[i].offset + slots[i].length <= slots[j].offset
        \/ slots[j].offset + slots[j].length <= slots[i].offset

\* GetTuple, as RecordManager::Get calls it: rows it can read.
GetTuple(i) == [k \in 1 .. slots[i].length |-> data[slots[i].offset + k - 1]]

rows ==
    [i \in SlotId |-> IF i >= slot_count THEN Absent
                      ELSE IF slots[i].length = 0 THEN Deleted
                      ELSE GetTuple(i)]

\* Compaction, which overwrites bytes while it moves them, changes no row.
CompactionMovesNoRow == [][CompactSlot => rows' = rows]_vars

\* When compaction ends, every byte above the free space belongs to a live
\* tuple: all the space of deleted and shortened tuples is free again.
CompactionReclaims ==
    [][EndCompact =>
          \A a \in free_space_offset' + 1 .. PageSize - 1 :
              \E i \in SlotId : Live(i) /\ a \in slots[i].offset ..
                                        slots[i].offset + slots[i].length - 1]_vars

\* The page implements the slot store: a row reads back as last stored however
\* inserts, deletes, updates and compaction interleave, and a deleted row stays
\* deleted.
Store == INSTANCE SlotStore WITH count <- slot_count
RowsReadBack == Store!Spec
===============================================================================
