--------------------------- MODULE MCFesvr2Socket ---------------------------
(* Units 0-3 are registers, 4-15 memory; tohost is the word at 8 and fromhost *)
(* the word at 10.  A chunk holds two words, so a transfer of memory can be a *)
(* single word, one burst, or several chunks with both ends unaligned.        *)
EXTENDS Fesvr2Socket

MCUnit == 0 .. 15

Xfer(kind, a, n, tgt) == [kind |-> kind, addr |-> a, len |-> n, tgt |-> tgt]

MCOps ==
  {Xfer("read", a, n, "DMA") : a \in 5 .. 8, n \in {1, 3, 6}}
    \cup {Xfer("write", a, n, "DMA") : a \in 4 .. 9, n \in 1 .. 6}
    \cup {Xfer("read", a, n, "DMA") : a \in {0, 1}, n \in {1, 2}}
    \cup {Xfer("write", 0, n, "DMA") : n \in {2, 4}}
    \cup {Xfer("write64", a, 2, "L2") : a \in {0, 8, 10}}
=============================================================================
