-------------------------------- MODULE MCMmu --------------------------------
(***************************************************************************)
(* Two levels, two entries, two address spaces.                            *)
(*   ASID 1, region 0: base pages of its own.                              *)
(*   ASID 2, region 0: a base page of its own.                             *)
(*   Region 1: a table of global base pages that both share (asid), or a   *)
(*   superpage or a table of base pages in ASID 1 alone (super).           *)
(***************************************************************************)
EXTENDS Mmu, TLC

P(hi, lo) == [l \in 0 .. 1 |-> IF l = 1 THEN hi ELSE lo]

MCVPN == {P(hi, lo) : hi, lo \in {0, 1}}
MCPPN == {P(hi, lo) : hi, lo \in 0 .. 2}
MCRoot == [asid \in {1, 2} |-> IF asid = 1 THEN P(0, 1) ELSE P(0, 2)]
MCTables == {P(0, 1), P(0, 2), P(1, 0), P(1, 1), P(1, 2)}

Flags(leaf, global) ==
  [v |-> TRUE, r |-> leaf, w |-> leaf, x |-> leaf, u |-> FALSE, g |-> global,
   a |-> TRUE, d |-> TRUE]

Leaf(ppn, global) == [ppn |-> ppn] @@ Flags(TRUE, global)
Pointer(ppn) == [ppn |-> ppn] @@ Flags(FALSE, FALSE)
Invalid == [Leaf(P(0, 0), FALSE) EXCEPT !.v = FALSE]

\* The tables, given the leaf at page 0 of region 1 and ASID 2's root entry 1.
TablesWith(leaf, root2) ==
     (<<P(0, 1), 0>> :> Pointer(P(1, 0))) @@ (<<P(0, 1), 1>> :> Pointer(P(1, 1)))
  @@ (<<P(0, 2), 0>> :> Pointer(P(1, 2))) @@ (<<P(0, 2), 1>> :> root2)
  @@ (<<P(1, 0), 0>> :> Leaf(P(2, 0), FALSE)) @@ (<<P(1, 0), 1>> :> Leaf(P(2, 2), FALSE))
  @@ (<<P(1, 1), 0>> :> leaf) @@ (<<P(1, 1), 1>> :> Leaf(P(1, 0), FALSE))
  @@ (<<P(1, 2), 0>> :> Leaf(P(0, 1), FALSE)) @@ (<<P(1, 2), 1>> :> Invalid)

F(type, asid, vpn) == [type |-> type, asid |-> asid, vpn |-> vpn]

(* Instance "asid": address spaces, global pages, flushes by ASID and by VPN. *)
AsidVPN == {P(0, 0), P(1, 0)}
AsidInitMem == TablesWith(Leaf(P(2, 2), TRUE), Pointer(P(1, 1)))
AsidContexts == {<<1, FALSE>>, <<2, FALSE>>, <<2, TRUE>>}
AsidChoices == (<<P(1, 0), 0>> :> {Invalid})
            @@ (<<P(1, 1), 0>> :> {Leaf(P(2, 1), TRUE)})
AsidPmpDenied == {}
AsidSfence == {F("ASID", 1, P(0, 0)), F("VPN", 2, P(1, 0)), F("ASID_VPN", 1, P(0, 0))}

(* Instance "super": base pages and a superpage replace each other. *)
SuperVPN == {P(1, 0), P(1, 1)}
SuperInitMem == TablesWith(Leaf(P(0, 0), FALSE), Invalid)
SuperContexts == {<<1, FALSE>>, <<1, TRUE>>}
SuperChoices == <<P(0, 1), 1>> :> {Pointer(P(1, 1)), Leaf(P(2, 0), FALSE), Leaf(P(2, 1), FALSE)}
SuperPmpDenied == {<<P(1, 1), 1>>}
SuperSfence == {F("ALL", 2, P(0, 0)), F("ASID", 1, P(0, 0))}
=============================================================================
