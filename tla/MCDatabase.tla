------------------------------ MODULE MCDatabase -------------------------------
(* Database for TLC: a page of 3 bytes with 1-byte slots holds one tuple, and  *)
(* when that is deleted and the page compacted, one more.                     *)
EXTENDS Database

CONSTANTS a, b, tuple

MCTuples == {tuple}
MCSize == [d \in MCTuples |-> 1]
===============================================================================
