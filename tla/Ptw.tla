--------------------------------- MODULE Ptw ---------------------------------
(***************************************************************************)
(* orv64_ptw_core: the hardware page-table walker behind each TLB.  It     *)
(* reads one PTE per level from the L2 cache, checks it, and returns a leaf*)
(* PTE with its level or an exception.                                     *)
(*                                                                         *)
(* Addresses keep their structure only: a VPN and a PPN are functions from *)
(* the level to a part, and the address of a PTE is the pair of the page   *)
(* directory's PPN and the VPN part that indexes it.  A PTE read returns   *)
(* any PTE of PTEs: the tables may be rewritten between two reads.         *)
(***************************************************************************)
EXTENDS Integers

CONSTANTS
  Levels,      \* ORV64_NUM_PAGE_LEVELS
  Part,        \* the values of one part of a VPN or PPN
  VPN, PPN,    \* virtual and physical page numbers, functions from Level to Part
  Roots,       \* the PPNs that are written to satp
  PTEs,        \* what a PTE read may return
  PmpDenied    \* PTE addresses the PMP checker rejects

ASSUME LevelsAssumption == Levels \in Nat \ {0}

Level == 0 .. Levels - 1

PTE == [v : BOOLEAN, r : BOOLEAN, w : BOOLEAN, x : BOOLEAN, u : BOOLEAN,
        g : BOOLEAN, a : BOOLEAN, d : BOOLEAN, ppn : PPN]

ASSUME TablesAssumption == /\ VPN \subseteq [Level -> Part]
                           /\ PPN \subseteq [Level -> Part]
                           /\ Roots \subseteq PPN
                           /\ 0 \in Part
                           /\ PTEs \subseteq PTE

Access == {"FETCH", "LOAD", "STORE", "AMO"}

\* orv64_get_fault_type and orv64_get_excp_perm_type: the cause of a page
\* fault and of an access fault; an AMO is reported as a store.
Reported(access) == IF access = "AMO" THEN "STORE" ELSE access
FaultType(access) == <<"PAGE_FAULT", Reported(access)>>
PermType(access) == <<"ACCESS_FAULT", Reported(access)>>

NoCause == <<"NONE", "NONE">>

Causes == {NoCause} \cup {FaultType(acc) : acc \in Access}
                   \cup {PermType(acc) : acc \in Access}

VARIABLES
  satp_ppn,          \* satp.ppn, owned by the CSR unit
  rff_state, rff_lvl, dff_pd_base_addr,
  rff_excp_valid, rff_excp_cause,
  dff_tlb2ptw,       \* the request: [vpn, access]
  dff_pte            \* the last leaf

vars == <<satp_ppn, rff_state, rff_lvl, dff_pd_base_addr, rff_excp_valid,
          rff_excp_cause, dff_tlb2ptw, dff_pte>>

\* Registers without a reset start with any value.
Init == /\ satp_ppn \in Roots
        /\ rff_state = "ST_READY"
        /\ rff_lvl = 0
        /\ dff_pd_base_addr = satp_ppn
        /\ rff_excp_valid = FALSE
        /\ rff_excp_cause = NoCause
        /\ dff_tlb2ptw \in [vpn : VPN, access : {"FETCH"}]
        /\ dff_pte \in PTEs

-----------------------------------------------------------------------------
(* Checks on the PTE that is read. *)

pte_req_addr == <<dff_pd_base_addr, dff_tlb2ptw.vpn[rff_lvl]>>

pmp_excp_valid == pte_req_addr \in PmpDenied

pte_is_valid(pte) == pte.v /\ (pte.r \/ ~pte.w)

pte_is_leaf(pte) == pte_is_valid(pte) /\ (pte.r \/ pte.x)

\* Mutant: the dirty bit is not looked at.
NoDirtyFault(pte) == \/ ~pte_is_valid(pte)
                     \/ pte_is_leaf(pte) /\ ~pte.a

\* Accessed and dirty bits are only checked, never written back.
pte_is_page_fault(pte) ==
  \/ ~pte_is_valid(pte)
  \/ pte_is_leaf(pte) /\ (~pte.a \/ (~pte.d /\ dff_tlb2ptw.access = "STORE"))

\* Mutant: off by one, the part at the leaf's own level is tested too.
MisalignedOff(pte) == \E i \in Level : i <= rff_lvl /\ pte.ppn[i] # 0

misaligned_superpage(pte) == \E i \in Level : i < rff_lvl /\ pte.ppn[i] # 0

-----------------------------------------------------------------------------
\* Mutant: the walk starts from whatever directory the last one ended in.
AcceptKeepsBase(vpn, access) ==
  /\ rff_state = "ST_READY"
  /\ rff_state' = "ST_PTE_REQ"
  /\ rff_lvl' = Levels - 1
  /\ dff_tlb2ptw' = [vpn |-> vpn, access |-> access]
  /\ UNCHANGED <<satp_ppn, dff_pd_base_addr, rff_excp_valid, rff_excp_cause,
                 dff_pte>>

\* ST_READY: a request of the TLB starts a walk at the root in satp.
Accept(vpn, access) ==
  /\ rff_state = "ST_READY"
  /\ rff_state' = "ST_PTE_REQ"
  /\ rff_lvl' = Levels - 1
  /\ dff_pd_base_addr' = satp_ppn
  /\ dff_tlb2ptw' = [vpn |-> vpn, access |-> access]
  /\ UNCHANGED <<satp_ppn, rff_excp_valid, rff_excp_cause, dff_pte>>

\* ST_PTE_REQ: the PMP checker rejects the address of the PTE.
PmpFault ==
  /\ rff_state = "ST_PTE_REQ"
  /\ pmp_excp_valid
  /\ rff_state' = "ST_PTE_RETURN"
  /\ rff_excp_valid' = TRUE
  /\ rff_excp_cause' = PermType(dff_tlb2ptw.access)
  /\ UNCHANGED <<satp_ppn, rff_lvl, dff_pd_base_addr, dff_tlb2ptw, dff_pte>>

\* ST_PTE_REQ: the L2 cache takes the read.
SendReq ==
  /\ rff_state = "ST_PTE_REQ"
  /\ ~pmp_excp_valid
  /\ rff_state' = "ST_PTE_RESP"
  /\ UNCHANGED <<satp_ppn, rff_lvl, dff_pd_base_addr, rff_excp_valid,
                 rff_excp_cause, dff_tlb2ptw, dff_pte>>

\* The registers go one level down, for an invalid PTE as well.
descends(pte) == ~pte_is_leaf(pte) /\ rff_lvl # 0

\* The PTE ends the walk with a page fault.
faults(pte) == \/ pte_is_page_fault(pte)
               \/ pte_is_leaf(pte) /\ misaligned_superpage(pte)
               \/ ~pte_is_leaf(pte) /\ rff_lvl = 0

\* ST_PTE_RESP: the PTE arrives.  A page fault overrides the next state, and leaves
\* level and directory base as the PTE has moved them.
Resp(pte) ==
  /\ rff_state = "ST_PTE_RESP"
  /\ dff_pte' = IF pte_is_leaf(pte) THEN pte ELSE dff_pte
  /\ IF descends(pte) THEN rff_lvl' = rff_lvl - 1 /\ dff_pd_base_addr' = pte.ppn
                      ELSE UNCHANGED <<rff_lvl, dff_pd_base_addr>>
  /\ rff_state' = IF descends(pte) /\ ~faults(pte) THEN "ST_PTE_REQ" ELSE "ST_PTE_RETURN"
  /\ rff_excp_valid' = (rff_excp_valid \/ faults(pte))
  /\ rff_excp_cause' = IF faults(pte) THEN FaultType(dff_tlb2ptw.access) ELSE rff_excp_cause
  /\ UNCHANGED <<satp_ppn, dff_tlb2ptw>>

\* ST_PTE_RETURN: the TLB takes the answer.
Return ==
  /\ rff_state = "ST_PTE_RETURN"
  /\ rff_state' = "ST_READY"
  /\ rff_excp_valid' = FALSE
  /\ UNCHANGED <<satp_ppn, rff_lvl, dff_pd_base_addr, rff_excp_cause,
                 dff_tlb2ptw, dff_pte>>

\* The CSR unit writes satp, in this module at any moment.
WriteSatp(ppn) ==
  /\ satp_ppn' = ppn
  /\ UNCHANGED <<rff_state, rff_lvl, dff_pd_base_addr, rff_excp_valid,
                 rff_excp_cause, dff_tlb2ptw, dff_pte>>

Next == \/ \E vpn \in VPN, access \in Access : Accept(vpn, access)
        \/ PmpFault
        \/ SendReq
        \/ \E pte \in PTEs : Resp(pte)
        \/ Return
        \/ \E ppn \in Roots : WriteSatp(ppn)

\* The clock runs, the L2 cache accepts and answers reads, the TLB takes the
\* answer; nothing obliges the TLB to ask.
Fairness == /\ WF_vars(PmpFault)
            /\ WF_vars(SendReq)
            /\ WF_vars(\E pte \in PTEs : Resp(pte))
            /\ WF_vars(Return)

Spec == Init /\ [][Next]_vars /\ Fairness

-----------------------------------------------------------------------------
\* Every register keeps its range: in particular rff_lvl never counts below 0.
TypeOK == /\ satp_ppn \in PPN
          /\ rff_state \in {"ST_READY", "ST_PTE_REQ", "ST_PTE_RESP", "ST_PTE_RETURN"}
          /\ rff_lvl \in Level
          /\ dff_pd_base_addr \in PPN
          /\ rff_excp_valid \in BOOLEAN
          /\ rff_excp_cause \in Causes
          /\ dff_tlb2ptw \in [vpn : VPN, access : Access]
          /\ dff_pte \in PTEs

\* No exception of an earlier walk is pending when a walk starts or runs.
NoLeftoverException ==
  rff_state # "ST_PTE_RETURN" => ~rff_excp_valid
=============================================================================
