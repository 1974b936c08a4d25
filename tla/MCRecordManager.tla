--------------------------- MODULE MCRecordManager ----------------------------
(* RecordManager for TLC: a page of 4 bytes with 1-byte slots holds two small  *)
(* tuples, or a wide one, and never a huge one.                                *)
EXTENDS RecordManager

CONSTANTS small, wide, huge

MCTuples == {small, wide, huge}
MCSize == [d \in MCTuples |-> CASE d = small -> 1 [] d = wide -> 2 [] d = huge -> 4]
MCRows == UNION {[1 .. n -> MCTuples \cup {Deleted}] : n \in 0 .. Capacity}
MCData == {Zero} \cup {[rows |-> rows, free |-> free] : rows \in MCRows, free \in 0 .. Capacity}
===============================================================================
