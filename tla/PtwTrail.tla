------------------------------ MODULE PtwTrail ------------------------------
(***************************************************************************)
(* The walker with a record of what it read: the root that satp held when  *)
(* the request was taken, and the PTEs read since with their addresses.    *)
(* The record states what the answer must be.                              *)
(***************************************************************************)
EXTENDS Ptw, Sequences

VARIABLES root, trail     \* trail: sequence of <<address, PTE>>

tvars == <<vars, root, trail>>

TInit == Init /\ root = satp_ppn /\ trail = <<>>

TAccept(vpn, access) == Accept(vpn, access) /\ root' = satp_ppn /\ trail' = <<>>

TResp(pte) == /\ Resp(pte)
              /\ trail' = Append(trail, <<pte_req_addr, pte>>)
              /\ root' = root

TReturn == Return /\ trail' = <<>> /\ root' = root

TNext == \/ \E vpn \in VPN, access \in Access : TAccept(vpn, access)
         \/ PmpFault /\ UNCHANGED <<root, trail>>
         \/ SendReq /\ UNCHANGED <<root, trail>>
         \/ \E pte \in PTEs : TResp(pte)
         \/ TReturn
         \/ \E ppn \in Roots : WriteSatp(ppn) /\ UNCHANGED <<root, trail>>

TSpec == TInit /\ [][TNext]_tvars /\ Fairness

-----------------------------------------------------------------------------
Pointer(p) == p.v /\ ~p.r /\ ~p.w /\ ~p.x

\* The PTEs read form a chain: the first from the root that satp held when the
\* request was taken, each later one from the directory the previous one names,
\* each at the VPN part of its level; everything before the last is a pointer.
TrailIsChain ==
  \A k \in DOMAIN trail :
    /\ trail[k][1] = << IF k = 1 THEN root ELSE trail[k - 1][2].ppn,
                        dff_tlb2ptw.vpn[Levels - k] >>
    /\ k < Len(trail) => Pointer(trail[k][2])

\* The architecture's verdict on the last PTE of the chain, read at the level
\* Levels - n: no fault exactly for a permitted, accessed, aligned leaf.  (The
\* dirty bit of an AMO is left to the TLB.)
ArchOK(p, lvl) ==
  /\ p.v /\ p.a /\ (p.r \/ p.x) /\ (p.w => p.r)
  /\ \A i \in Level : i < lvl => p.ppn[i] = 0
  /\ dff_tlb2ptw.access = "STORE" => p.d

\* The address that comes after the chain: where the next PTE would be read.
NextAddr == << IF trail = <<>> THEN root ELSE trail[Len(trail)][2].ppn,
               dff_tlb2ptw.vpn[Levels - 1 - Len(trail)] >>

\* What the walker returns is the architecture's verdict on the chain it read: an
\* access fault when the chain is all pointers and the PMP hides the next PTE, else
\* a page fault exactly when the architecture says so, else the leaf and its level.
\* (The level of a fault means nothing: an invalid PTE has already lowered it.)
AnswerIsArchitectural ==
  rff_state = "ST_PTE_RETURN" =>
    LET n == Len(trail)
        denied == rff_excp_cause = PermType(dff_tlb2ptw.access)
    IN  \/ /\ rff_excp_valid /\ denied
           /\ n < Levels /\ NextAddr \in PmpDenied
           /\ \A k \in DOMAIN trail : Pointer(trail[k][2])
        \/ /\ n > 0
           /\ rff_excp_valid <=> ~ArchOK(trail[n][2], Levels - n)
           /\ rff_excp_valid => rff_excp_cause = FaultType(dff_tlb2ptw.access)
           /\ ~rff_excp_valid => dff_pte = trail[n][2] /\ rff_lvl = Levels - n
=============================================================================
