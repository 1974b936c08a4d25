---------------------------- MODULE MCBufferPool ----------------------------
(* BufferPool for TLC: image values are interchangeable apart from Zero.    *)
EXTENDS BufferPool, TLC

CONSTANTS d0, d1, d2

MCData == {d0, d1}
MCData3 == {d0, d1, d2}
=============================================================================
