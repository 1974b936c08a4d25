---------------------------- MODULE MCSlottedPage -----------------------------
(* SlottedPage for TLC.  Tuples of lengths 1 to 3 over two byte values.       *)
EXTENDS SlottedPage

MCByte == 0 .. 2
MCTuples == {<<1>>, <<2>>, <<1, 2>>, <<2, 1, 1>>}
===============================================================================
