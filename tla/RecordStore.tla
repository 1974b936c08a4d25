----------------------------- MODULE RecordStore ------------------------------
(***************************************************************************)
(* What RecordManager promises a table: records under identifiers that are *)
(* never given out twice, each holding the tuple last stored in it until   *)
(* it is deleted for good.  Pages, frames and the search for space do not  *)
(* appear here.                                                            *)
(***************************************************************************)
CONSTANTS RecordId, Tuples, Absent, Deleted

VARIABLE records    \* records[r]: a tuple, Deleted, or Absent

Init == records = [r \in RecordId |-> Absent]

Insert(r, d) ==
    /\ records[r] = Absent
    /\ records' = [records EXCEPT ![r] = d]

Delete(r) ==
    /\ records[r] # Absent
    /\ records' = [records EXCEPT ![r] = Deleted]

Update(r, d) ==
    /\ records[r] \notin {Absent, Deleted}
    /\ records' = [records EXCEPT ![r] = d]

Next ==
    \E r \in RecordId :
        \/ Delete(r)
        \/ \E d \in Tuples : Insert(r, d) \/ Update(r, d)

Spec == Init /\ [][Next]_records
===============================================================================
