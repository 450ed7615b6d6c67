-------------------------------- MODULE MCVm --------------------------------
(* Three pages and four frames: as in the code there is a frame more than     *)
(* pages, and the list gets down to its last node.                            *)
EXTENDS Vm

MaxTestPages == 63

\* random of vm_boot after n steps from seed.
Random(seed) ==
  LET step[n \in 0 .. MaxTestPages - 1] == IF n = 0 THEN seed ELSE LfsrNext(step[n - 1])
  IN  step

\* "this must be the period of the LFSR below" (riscv_test.h): from every seed
\* the 63 nodes get 63 different frames, as NodesAssumption asks.
ASSUME PeriodIsMaxTestPages ==
  \A seed \in 1 .. 63 :
    Cardinality({Random(seed)[n] : n \in 0 .. MaxTestPages - 1}) = MaxTestPages

MCNodes == [i \in 1 .. 4 |-> Random(1)[i - 1]]
MCFrame == {MCNodes[i] : i \in 1 .. 4}
=============================================================================
