------------------------------- MODULE RowPage --------------------------------
(***************************************************************************)
(* A slotted page as the code above PageDataManager sees it: its rows in   *)
(* slot order and the free space its header records.  SlottedPage has the  *)
(* bytes behind these operators.                                           *)
(***************************************************************************)
EXTENDS Integers, Sequences

CONSTANTS
    Tuples,     \* tuples clients store
    Size,       \* their sizes in bytes
    Capacity,   \* bytes of a page after its header
    SlotSize,   \* sizeof(Slot)
    Deleted     \* a row whose tuple was deleted

ASSUME RowAssumption ==
    /\ Size \in [Tuples -> Nat \ {0}]
    /\ Capacity \in Nat /\ SlotSize \in Nat \ {0}
    /\ Deleted \notin Tuples

EmptyPage == [rows |-> <<>>, free |-> Capacity]

\* Mutant: room for the tuple but not for its slot.
FitsWithoutSlot(page, d) == Size[d] <= page.free

\* HasEnoughSpace and HasEnoughSpaceForInsert.  Their uint16_t casts wrap nothing
\* here: a tuple near 64 KiB cannot come from a statement of at most 1023 bytes.
Fits(page, d) == Size[d] + SlotSize <= page.free

\* Mutant: read after slot_count++.
NewSlotIdTooLate(page) == Len(page.rows) + 1

NewSlotId(page) == Len(page.rows)

InsertRow(page, d) == [rows |-> Append(page.rows, d),
                       free |-> page.free - Size[d] - SlotSize]

\* DeleteTuple and a shrinking Update leave the tuple's bytes where they are.
SetRow(page, s, row) == [page EXCEPT !.rows[s] = row]

LiveSize(row) == IF row = Deleted THEN 0 ELSE Size[row]

\* Bytes that slots and live tuples take: the directory keeps the slots of
\* deleted tuples.
Used(rows) ==
    LET used[n \in 0 .. Len(rows)] ==
            IF n = 0 THEN 0 ELSE used[n - 1] + SlotSize + LiveSize(rows[n])
    IN  used[Len(rows)]

Compact(page) == [page EXCEPT !.free = Capacity - Used(page.rows)]
===============================================================================
