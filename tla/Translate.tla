------------------------------ MODULE Translate ------------------------------
(***************************************************************************)
(* A TLB miss from end to end: the walker of PtwTrail and the permission   *)
(* checks of PtePerm that orv64_tlb applies to what the walker returns.    *)
(***************************************************************************)
EXTENDS PtwTrail, PtePerm

\* The fault orv64_tlb answers with: the walker's, or one of its own checks.
resp_excp_valid(cs) ==
  \/ rff_excp_valid
  \/ trans_excp_valid(dff_pte, dff_tlb2ptw.access, cs, dff_tlb2ptw.access # "FETCH")

\* An access is answered with a fault exactly when the architecture forbids it,
\* in the privilege state in force at the response and for the chain of PTEs
\* that was read.  Walker and TLB share the work (D of an AMO, for one, is only
\* looked at by the TLB), so neither is right by itself.
TranslationIsArchitectural ==
  rff_state = "ST_PTE_RETURN" =>
    \A cs \in Status :
      ArchPrv(dff_tlb2ptw.access, cs) # "M" =>
        (resp_excp_valid(cs) <=>
           ~ /\ trail # <<>>
             /\ ArchOK(trail[Len(trail)][2], Levels - Len(trail))
             /\ ArchAllows(trail[Len(trail)][2], dff_tlb2ptw.access, cs))
=============================================================================
