-------------------------------- MODULE MCPtw --------------------------------
(***************************************************************************)
(* Three levels as in the code, parts 0 and 1.  The PPNs are chosen so *)
(* that a leaf can be aligned or misaligned at every level and a directory *)
(* can point to itself; the PTEs cover each check of the walker.           *)
(***************************************************************************)
EXTENDS Translate

P(p2, p1, p0) == [l \in 0 .. 2 |-> IF l = 2 THEN p2 ELSE IF l = 1 THEN p1 ELSE p0]

MCPPN == {P(0, 0, 0), P(1, 0, 0), P(1, 1, 0), P(1, 0, 1)}

E(v, r, w, x, a, d, ppn) ==
  [v |-> v, r |-> r, w |-> w, x |-> x, u |-> FALSE,
   g |-> FALSE, a |-> a, d |-> d, ppn |-> ppn]

MCRoots == {P(0, 0, 0), P(1, 0, 0)}

MCVPN == {P(0, 1, 0), P(1, 0, 1)}

Pointers == {E(TRUE, FALSE, FALSE, FALSE, FALSE, FALSE, p) : p \in MCPPN}

CleanLeaves == {E(TRUE, TRUE, TRUE, FALSE, TRUE, FALSE, p) : p \in MCPPN}

MCPTEs ==
  Pointers \cup CleanLeaves \cup
  { E(FALSE, TRUE, TRUE, FALSE, TRUE, TRUE, P(0, 0, 0)),    \* invalid
    E(TRUE, FALSE, TRUE, FALSE, TRUE, TRUE, P(0, 0, 0)),    \* W without R
    E(TRUE, TRUE, TRUE, FALSE, TRUE, TRUE, P(1, 0, 0)),     \* dirty leaf
    E(TRUE, FALSE, FALSE, TRUE, TRUE, FALSE, P(1, 1, 0)),   \* execute-only leaf
    E(TRUE, TRUE, FALSE, FALSE, FALSE, TRUE, P(0, 0, 0)),   \* not accessed
    [E(TRUE, TRUE, TRUE, FALSE, TRUE, FALSE, P(0, 0, 0)) EXCEPT !.u = TRUE],
    [E(TRUE, TRUE, FALSE, TRUE, TRUE, TRUE, P(1, 0, 0)) EXCEPT !.u = TRUE] }

\* The directory P(1,1,0) lies in a region the PMP hides.
MCPmpDenied == {P(1, 1, 0)} \X {0, 1}
=============================================================================
