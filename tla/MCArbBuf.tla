------------------------------ MODULE MCArbBuf ------------------------------
(* Two inputs compete for a ring that wraps.                                  *)
EXTENDS ArbBuf

MCData == [from : 0 .. 1, n : {0, 1}]
=============================================================================
