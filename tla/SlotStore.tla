------------------------------ MODULE SlotStore -------------------------------
(***************************************************************************)
(* What a slotted page promises: numbered rows, given out in order and     *)
(* never reused, each holding the tuple last stored in it until it is      *)
(* deleted.  Where the bytes lie, and that they are moved, does not show.  *)
(***************************************************************************)
EXTENDS Integers

CONSTANTS SlotId, Tuples, Absent, Deleted

VARIABLES
    count,  \* rows 0 .. count - 1 have been given out
    rows    \* rows[i]: a tuple, Deleted, or Absent

Init ==
    /\ count = 0
    /\ rows = [i \in SlotId |-> Absent]

Insert(d) ==
    /\ count \in SlotId
    /\ rows' = [rows EXCEPT ![count] = d]
    /\ count' = count + 1

Delete(i) ==
    /\ i < count
    /\ rows' = [rows EXCEPT ![i] = Deleted]
    /\ UNCHANGED count

Update(i, d) ==
    /\ i < count
    /\ rows[i] # Deleted
    /\ rows' = [rows EXCEPT ![i] = d]
    /\ UNCHANGED count

Next ==
    \/ \E d \in Tuples : Insert(d)
    \/ \E i \in SlotId : Delete(i) \/ \E d \in Tuples : Update(i, d)

Spec == Init /\ [][Next]_<<count, rows>>
===============================================================================
