----------------------------- MODULE MCTableScan ------------------------------
(* TableScan for TLC: a page of 4 bytes with 1-byte slots holds two short      *)
(* tuples at a time; the long one fits no page, and so spends a page id.       *)
EXTENDS TableScan, TLC

CONSTANTS short, long

MCTuples == {short, long}
MCSize == (short :> 1) @@ (long :> 4)
===============================================================================
