------------------------------- MODULE PtePerm -------------------------------
(***************************************************************************)
(* The permission checks orv64_tlb applies to every response, with         *)
(* orv64_perm_checker: pure functions of the leaf PTE, the kind of access  *)
(* and the privilege state in force in the cycle of the response.          *)
(***************************************************************************)

Prv == {"U", "S", "M"}

\* The fields of mstatus and the privilege the checks look at.
Status == [prv : Prv, mprv : BOOLEAN, mpp : Prv, sum : BOOLEAN, mxr : BOOLEAN]

\* cs: a Status; isD: the TLB is on the data side.
effective_prv(cs, isD) == IF isD /\ cs.mprv THEN cs.mpp ELSE cs.prv

\* Mutant: MXR is ignored.
PermExcpNoMxr(pte, access, cs) ==
  CASE access = "FETCH" -> ~pte.x
    [] access = "LOAD"  -> ~pte.r
    [] access = "STORE" -> ~pte.w
    [] access = "AMO"   -> ~pte.r \/ ~pte.w

perm_excp_valid(pte, access, cs) ==
  LET readable == pte.r \/ (cs.mxr /\ pte.x)
  IN  CASE access = "FETCH" -> ~pte.x
        [] access = "LOAD"  -> ~readable
        [] access = "STORE" -> ~pte.w
        [] access = "AMO"   -> ~readable \/ ~pte.w

sum_excp_valid(pte, cs, isD) ==
  effective_prv(cs, isD) = "S" /\ ~cs.sum /\ pte.u

u_excp_valid(pte, cs, isD) == effective_prv(cs, isD) = "U" /\ ~pte.u

exe_excp_valid(pte, access, cs) == cs.prv = "S" /\ access = "FETCH" /\ pte.u

ad_excp_valid(pte, access) == ~pte.a \/ (~pte.d /\ access \in {"STORE", "AMO"})

\* Any of them makes the response a page fault.
trans_excp_valid(pte, access, cs, isD) ==
  \/ sum_excp_valid(pte, cs, isD)
  \/ ad_excp_valid(pte, access)
  \/ u_excp_valid(pte, cs, isD)
  \/ exe_excp_valid(pte, access, cs)
  \/ perm_excp_valid(pte, access, cs)

-----------------------------------------------------------------------------
\* The privilege the architecture checks an access with: MPRV redirects loads
\* and stores, never fetches.
ArchPrv(access, cs) == IF access # "FETCH" /\ cs.mprv THEN cs.mpp ELSE cs.prv

\* The architecture's rules, read off the privileged specification.
ArchAllows(pte, access, cs) ==
  /\ ArchPrv(access, cs) = "U" => pte.u
  /\ ArchPrv(access, cs) = "S" /\ pte.u => cs.sum /\ access # "FETCH"
  /\ access = "FETCH" => pte.x
  /\ access = "LOAD" => pte.r \/ (cs.mxr /\ pte.x)
  /\ access \in {"STORE", "AMO"} => pte.w /\ pte.d
  /\ pte.a
=============================================================================
