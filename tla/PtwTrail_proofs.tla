--------------------------- MODULE PtwTrail_proofs ---------------------------
(***************************************************************************)
(* Proofs about the page-table walker, for every number of levels, every   *)
(* content of the tables and every PMP setting: registers keep their       *)
(* ranges, no exception is left over, the PTEs read form a chain, the      *)
(* answer is the architecture's verdict on that chain, and with the TLB's  *)
(* permission checks an access faults exactly when it must.                *)
(***************************************************************************)
EXTENDS Translate, TLAPS

ptw_states == {"ST_READY", "ST_PTE_REQ", "ST_PTE_RESP", "ST_PTE_RETURN"}

Entry == (PPN \X Part) \X PTEs

TrailType == root \in PPN /\ trail \in Seq(Entry)

(***************************************************************************)
(* What ties the walker's registers to the chain: while a walk runs, the   *)
(* level counts the PTEs still to read, and the directory base is the root *)
(* or what the last PTE names.                                             *)
(***************************************************************************)
Walking ==
  rff_state \in {"ST_PTE_REQ", "ST_PTE_RESP"} =>
    /\ Len(trail) = Levels - 1 - rff_lvl
    /\ dff_pd_base_addr = IF Len(trail) = 0 THEN root ELSE trail[Len(trail)][2].ppn
    /\ \A k \in DOMAIN trail : Pointer(trail[k][2])

IInv == /\ TypeOK
        /\ TrailType
        /\ NoLeftoverException
        /\ rff_state = "ST_READY" => trail = <<>>
        /\ Walking
        /\ TrailIsChain
        /\ AnswerIsArchitectural

-----------------------------------------------------------------------------
\* The address of a PTE is typed.
LEMMA AddrType == ASSUME TypeOK PROVE pte_req_addr \in PPN \X Part
<1>1. dff_tlb2ptw.vpn \in [Level -> Part]
  BY TablesAssumption DEF TypeOK
<1> QED BY <1>1 DEF TypeOK, pte_req_addr

\* The flags of a PTE are Booleans and its PPN is one.
LEMMA PteFields ==
  ASSUME NEW p \in PTEs
  PROVE  /\ p.v \in BOOLEAN /\ p.r \in BOOLEAN /\ p.w \in BOOLEAN
         /\ p.x \in BOOLEAN /\ p.a \in BOOLEAN /\ p.d \in BOOLEAN
         /\ p.ppn \in PPN
  BY TablesAssumption DEF PTE

\* Type correctness is preserved by every step.
LEMMA TypeStep == ASSUME TypeOK, [Next]_vars PROVE TypeOK'
<1> USE DEF TypeOK
<1>1. ASSUME NEW vpn \in VPN, NEW access \in Access, Accept(vpn, access)
      PROVE  TypeOK'
  BY <1>1, LevelsAssumption DEF Accept, Level
<1>2. CASE PmpFault
  BY <1>2 DEF PmpFault, Causes
<1>3. CASE SendReq
  BY <1>3 DEF SendReq
<1>4. ASSUME NEW pte \in PTEs, Resp(pte) PROVE TypeOK'
  <2>1. rff_lvl' \in Level /\ dff_pd_base_addr' \in PPN
    <3>1. CASE descends(pte)
      BY <1>4, <3>1, LevelsAssumption, PteFields DEF Resp, descends, Level
    <3>2. CASE ~descends(pte)
      BY <1>4, <3>2 DEF Resp
    <3> QED BY <3>1, <3>2
  <2>2. rff_excp_valid' \in BOOLEAN
    BY <1>4 DEF Resp
  <2>3. rff_excp_cause' \in Causes
    BY <1>4 DEF Resp, Causes
  <2> QED BY <1>4, <2>1, <2>2, <2>3 DEF Resp
<1>5. CASE Return
  BY <1>5 DEF Return
<1>6. ASSUME NEW ppn \in Roots, WriteSatp(ppn) PROVE TypeOK'
  BY <1>6, TablesAssumption DEF WriteSatp
<1>7. CASE UNCHANGED vars
  BY <1>7 DEF vars
<1> QED BY <1>1, <1>2, <1>3, <1>4, <1>5, <1>6, <1>7 DEF Next

\* The initial registers are typed.
LEMMA TypeInit == ASSUME Init PROVE TypeOK
<1>1. 0 \in Level
  BY LevelsAssumption DEF Level
<1>2. satp_ppn \in PPN
  BY TablesAssumption DEF Init
<1>3. NoCause \in Causes
  BY DEF Causes
<1>4. dff_tlb2ptw \in [vpn : VPN, access : Access]
  BY DEF Init, Access
<1> QED BY <1>1, <1>2, <1>3, <1>4, Zenon DEF Init, TypeOK

\* The walker alone: registers keep their ranges, the level never underflows.
THEOREM TypeCorrect == Spec => []TypeOK
  BY TypeInit, TypeStep, PTL DEF Spec

\* The walker alone: an exception never outlives the walk that raised it.
THEOREM NoLeftover == Spec => []NoLeftoverException
<1>1. Init => NoLeftoverException
  BY DEF Init, NoLeftoverException
<1>2. NoLeftoverException /\ [Next]_vars => NoLeftoverException'
  BY DEF NoLeftoverException, Next, vars, Accept, PmpFault, SendReq, Resp,
         Return, WriteSatp
<1> QED BY <1>1, <1>2, PTL DEF Spec

-----------------------------------------------------------------------------
\* On a PTE that does not continue the walk, the code's tests for a page fault
\* are together the negation of the architecture's condition for a good leaf, and
\* without a fault the PTE is a leaf.
LEMMA Verdict ==
  ASSUME NEW p \in PTEs, ~descends(p) \/ faults(p)
  PROVE  /\ faults(p) <=> ~ArchOK(p, rff_lvl)
         /\ ~faults(p) => pte_is_leaf(p) /\ ~descends(p)
  BY PteFields DEF faults, descends, ArchOK, pte_is_page_fault, pte_is_leaf,
                   pte_is_valid, misaligned_superpage

\* A PTE that continues the walk is a pointer.
LEMMA DescendsPointer ==
  ASSUME NEW p \in PTEs, descends(p), ~faults(p) PROVE Pointer(p) /\ rff_lvl # 0
  BY PteFields DEF descends, faults, pte_is_page_fault, pte_is_leaf, pte_is_valid, Pointer

LEMMA EmptyTrail == ASSUME NEW s \in Seq(Entry) PROVE Len(s) \in Nat /\ (Len(s) = 0 <=> s = <<>>)
  OBVIOUS

\* Reading a PTE extends the chain and keeps the rest of the invariant.
LEMMA RespStep ==
  ASSUME IInv, TypeOK', NEW pte \in PTEs, TResp(pte)
  PROVE  IInv'
<1> DEFINE n == Len(trail)
           e == <<pte_req_addr, pte>>
<1>1. rff_state = "ST_PTE_RESP" /\ ~rff_excp_valid
  BY DEF TResp, Resp, IInv, NoLeftoverException
<1>2. /\ n = Levels - 1 - rff_lvl
      /\ dff_pd_base_addr = IF n = 0 THEN root ELSE trail[n][2].ppn
      /\ \A k \in DOMAIN trail : Pointer(trail[k][2])
  BY <1>1 DEF IInv, Walking
<1>3. e \in Entry
  BY AddrType DEF IInv, Entry
<1>4. trail \in Seq(Entry) /\ n \in Nat /\ trail' = Append(trail, e)
  BY DEF IInv, TrailType, TResp
<1>5. /\ trail' \in Seq(Entry)
      /\ Len(trail') = n + 1
      /\ trail'[n + 1] = e
      /\ \A k \in 1 .. n : trail'[k] = trail[k]
      /\ DOMAIN trail = 1 .. n
      /\ DOMAIN trail' = 1 .. n + 1
  <2> HIDE DEF e
  <2> QED BY <1>3, <1>4
<1>6. e[1] = <<dff_pd_base_addr, dff_tlb2ptw.vpn[rff_lvl]>> /\ e[2] = pte
  BY DEF pte_req_addr
<1>7. dff_tlb2ptw' = dff_tlb2ptw /\ root' = root
  BY DEF TResp, Resp
<1>8. TrailType'
  BY <1>5, <1>7 DEF TrailType, IInv
<1>9. rff_lvl \in 0 .. Levels - 1 /\ Levels \in Nat
  BY LevelsAssumption DEF IInv, TypeOK, Level
<1>10. TrailIsChain'
  <2> SUFFICES ASSUME NEW k \in 1 .. n + 1
               PROVE  /\ trail'[k][1] = << IF k = 1 THEN root ELSE trail'[k - 1][2].ppn,
                                           dff_tlb2ptw.vpn[Levels - k] >>
                      /\ k < n + 1 => Pointer(trail'[k][2])
    BY <1>5, <1>7 DEF TrailIsChain, Pointer
  <2>1. CASE k = n + 1
    <3>1. Levels - k = rff_lvl
      BY <2>1, <1>2, <1>9
    <3>2. dff_pd_base_addr = IF k = 1 THEN root ELSE trail'[k - 1][2].ppn
      BY <2>1, <1>2, <1>4, <1>5
    <3>3. trail'[k] = e /\ ~(k < n + 1)
      BY <2>1, <1>4, <1>5
    <3>4. trail'[k][1] = <<dff_pd_base_addr, dff_tlb2ptw.vpn[rff_lvl]>>
      BY <3>3, <1>6
    <3> HIDE DEF n, e
    <3> QED BY <3>1, <3>2, <3>3, <3>4
  <2>2. CASE k \in 1 .. n
    <3>1. trail'[k] = trail[k] /\ k \in DOMAIN trail
      BY <2>2, <1>5
    <3>2. trail[k][1] = << IF k = 1 THEN root ELSE trail[k - 1][2].ppn,
                           dff_tlb2ptw.vpn[Levels - k] >>
      BY <3>1 DEF IInv, TrailIsChain
    <3>3. k # 1 => trail'[k - 1] = trail[k - 1]
      BY <2>2, <1>4, <1>5
    <3> QED BY <3>1, <3>2, <3>3, <1>2
  <2> QED BY <2>1, <2>2, <1>4
<1>11. CASE descends(pte) /\ ~faults(pte)
  <2>1. /\ rff_state' = "ST_PTE_REQ"
        /\ rff_lvl' = rff_lvl - 1
        /\ dff_pd_base_addr' = pte.ppn
        /\ ~rff_excp_valid'
    BY <1>1, <1>11 DEF TResp, Resp
  <2>2. \A k \in 1 .. n + 1 : Pointer(trail'[k][2])
    BY <1>2, <1>4, <1>5, <1>6, <1>11, DescendsPointer
  <2>3. Len(trail') = Levels - 1 - rff_lvl' /\ Len(trail') # 0
    BY <1>2, <1>4, <1>5, <1>9, <2>1
  <2>4. Walking'
    BY <2>1, <2>2, <2>3, <1>5, <1>6 DEF Walking, Pointer
  <2> QED BY <1>1, <1>8, <1>10, <2>1, <2>4
          DEF IInv, NoLeftoverException, AnswerIsArchitectural
<1>12. CASE ~descends(pte) \/ faults(pte)
  <2>1. /\ rff_state' = "ST_PTE_RETURN"
        /\ rff_excp_valid' = faults(pte)
        /\ faults(pte) => rff_excp_cause' = FaultType(dff_tlb2ptw.access)
    BY <1>1, <1>12 DEF TResp, Resp, IInv, TypeOK, faults
  <2>2. ~faults(pte) => dff_pte' = pte /\ rff_lvl' = rff_lvl
    BY <1>12, Verdict DEF TResp, Resp
  <2>3. faults(pte) <=> ~ArchOK(pte, rff_lvl)
    BY <1>12, Verdict
  <2>4. Levels - Len(trail') = rff_lvl
    BY <1>2, <1>4, <1>5, <1>9
  <2>5. AnswerIsArchitectural'
    <3>1. Len(trail') > 0 /\ trail'[Len(trail')][2] = pte
      BY <1>4, <1>5, <1>6
    <3>2. rff_excp_valid' <=> ~ArchOK(trail[Len(trail)][2], Levels - Len(trail))'
      BY <2>1, <2>3, <2>4, <3>1, <1>7 DEF ArchOK
    <3> QED BY <2>1, <2>2, <2>4, <3>1, <3>2, <1>7
            DEF AnswerIsArchitectural
  <2> QED BY <1>8, <1>10, <2>1, <2>5 DEF IInv, NoLeftoverException, Walking
<1> QED BY <1>11, <1>12

\* Every step keeps the invariant.
LEMMA InvStep == ASSUME IInv, [TNext]_tvars PROVE IInv'
<1>1. [Next]_vars
  BY DEF TNext, Next, tvars, TAccept, TResp, TReturn
<1>2. TypeOK'
  BY <1>1, TypeStep DEF IInv
<1>3. ASSUME NEW vpn \in VPN, NEW access \in Access, TAccept(vpn, access)
      PROVE  IInv'
  <2>1. /\ rff_state = "ST_READY" /\ rff_state' = "ST_PTE_REQ"
        /\ trail' = <<>> /\ root' = satp_ppn
        /\ rff_lvl' = Levels - 1 /\ dff_pd_base_addr' = satp_ppn
        /\ rff_excp_valid' = rff_excp_valid
    BY <1>3 DEF TAccept, Accept
  <2>2. TrailType' /\ TrailIsChain'
    BY <2>1 DEF IInv, TypeOK, TrailType, TrailIsChain
  <2>3. Walking'
    BY <2>1, LevelsAssumption DEF Walking
  <2> QED BY <1>2, <2>1, <2>2, <2>3
          DEF IInv, NoLeftoverException, AnswerIsArchitectural
<1>4. CASE PmpFault /\ UNCHANGED <<root, trail>>
  <2>1. /\ rff_state = "ST_PTE_REQ" /\ rff_state' = "ST_PTE_RETURN"
        /\ rff_excp_valid' = TRUE
        /\ rff_excp_cause' = PermType(dff_tlb2ptw.access)
        /\ pte_req_addr \in PmpDenied
        /\ UNCHANGED <<rff_lvl, dff_pd_base_addr, dff_tlb2ptw, root, trail>>
    BY <1>4 DEF PmpFault, pmp_excp_valid
  <2>2. /\ rff_lvl = Levels - 1 - Len(trail) /\ Len(trail) < Levels
        /\ Len(trail) = 0 <=> trail = <<>>
        /\ dff_pd_base_addr = IF Len(trail) = 0 THEN root ELSE trail[Len(trail)][2].ppn
        /\ \A k \in DOMAIN trail : Pointer(trail[k][2])
    BY <2>1, LevelsAssumption, EmptyTrail DEF IInv, Walking, TypeOK, Level, TrailType
  <2>3. NextAddr' = pte_req_addr
    BY <2>1, <2>2 DEF pte_req_addr, NextAddr
  <2>4. AnswerIsArchitectural'
    BY <2>1, <2>2, <2>3 DEF AnswerIsArchitectural
  <2>5. TrailType' /\ TrailIsChain'
    BY <2>1 DEF IInv, TrailType, TrailIsChain
  <2> QED BY <1>2, <2>1, <2>4, <2>5 DEF IInv, NoLeftoverException, Walking
<1>5. CASE SendReq /\ UNCHANGED <<root, trail>>
  BY <1>2, <1>5 DEF SendReq, IInv, NoLeftoverException, Walking, TrailType,
                    TrailIsChain, AnswerIsArchitectural
<1>6. ASSUME NEW pte \in PTEs, TResp(pte) PROVE IInv'
  BY <1>2, <1>6, RespStep
<1>7. CASE TReturn
  <2>1. rff_state' = "ST_READY" /\ trail' = <<>> /\ root' = root /\ rff_excp_valid' = FALSE
    BY <1>7 DEF TReturn, Return
  <2>2. TrailType' /\ TrailIsChain'
    BY <2>1 DEF IInv, TrailType, TrailIsChain
  <2> QED BY <1>2, <2>1, <2>2
          DEF IInv, NoLeftoverException, Walking, AnswerIsArchitectural
<1>8. ASSUME NEW ppn \in Roots, WriteSatp(ppn), UNCHANGED <<root, trail>>
      PROVE  IInv'
  BY <1>2, <1>8 DEF WriteSatp, IInv, NoLeftoverException, Walking, TrailType,
                    TrailIsChain, AnswerIsArchitectural, ArchOK, NextAddr
<1>9. CASE UNCHANGED tvars
  BY <1>2, <1>9 DEF tvars, vars, IInv, NoLeftoverException, Walking, TrailType,
                    TrailIsChain, AnswerIsArchitectural, ArchOK, NextAddr
<1> QED BY <1>3, <1>4, <1>5, <1>6, <1>7, <1>8, <1>9 DEF TNext

\* The invariant holds in every state of the walker.
LEMMA Inductive == TSpec => []IInv
<1>1. TInit => IInv
  <2> SUFFICES ASSUME TInit PROVE IInv
    OBVIOUS
  <2>1. TypeOK
    BY TypeInit DEF TInit
  <2>2. TrailType /\ TrailIsChain
    BY <2>1 DEF TInit, TrailType, TypeOK, TrailIsChain
  <2> QED BY <2>1, <2>2 DEF IInv, TInit, Init, NoLeftoverException, Walking,
                            AnswerIsArchitectural
<1> QED BY <1>1, InvStep, PTL DEF TSpec

-----------------------------------------------------------------------------
\* Whatever is stored to the tables between two reads, the walker follows one
\* chain from the root that satp held when the request was taken.
THEOREM ChainCorrect == TSpec => []TrailIsChain
<1>1. IInv => TrailIsChain
  BY DEF IInv
<1> QED BY <1>1, Inductive, PTL

\* The answer is the architecture's verdict on the chain that was read: the leaf
\* with its level, a page fault, or an access fault for the PTE that comes next.
THEOREM AnswerCorrect == TSpec => []AnswerIsArchitectural
<1>1. IInv => AnswerIsArchitectural
  BY DEF IInv
<1> QED BY <1>1, Inductive, PTL

-----------------------------------------------------------------------------
\* The TLB's checks on a valid leaf are the architecture's rules, for each kind
\* of access, each leaf and each privilege state but M.
LEMMA VerdictIsArchitectural ==
  ASSUME NEW p, NEW access \in Access, NEW cs \in Status,
         p.r \in BOOLEAN, p.w \in BOOLEAN, p.x \in BOOLEAN, p.u \in BOOLEAN,
         p.a \in BOOLEAN, p.d \in BOOLEAN,
         p.w => p.r, ArchPrv(access, cs) # "M"
  PROVE  trans_excp_valid(p, access, cs, access # "FETCH") <=> ~ArchAllows(p, access, cs)
<1> USE DEF trans_excp_valid, sum_excp_valid, ad_excp_valid, u_excp_valid,
            exe_excp_valid, perm_excp_valid, effective_prv, ArchAllows, ArchPrv
<1>1. /\ cs.prv \in {"U", "S", "M"} /\ cs.mpp \in {"U", "S", "M"}
      /\ cs.mprv \in BOOLEAN /\ cs.sum \in BOOLEAN /\ cs.mxr \in BOOLEAN
      BY DEF Status, Prv
<1>2. CASE access = "FETCH" BY <1>1, <1>2
<1>3. CASE access = "LOAD" BY <1>1, <1>3
<1>4. CASE access = "STORE" BY <1>1, <1>4
<1>5. CASE access = "AMO" BY <1>1, <1>5
<1> QED BY <1>2, <1>3, <1>4, <1>5 DEF Access

\* The walker's verdict and the TLB's checks together are the architecture's.
LEMMA EndToEnd == ASSUME IInv PROVE TranslationIsArchitectural
<1> SUFFICES ASSUME rff_state = "ST_PTE_RETURN", NEW cs \in Status,
                    ArchPrv(dff_tlb2ptw.access, cs) # "M"
             PROVE  resp_excp_valid(cs) <=>
                      ~ /\ trail # <<>>
                        /\ ArchOK(trail[Len(trail)][2], Levels - Len(trail))
                        /\ ArchAllows(trail[Len(trail)][2], dff_tlb2ptw.access, cs)
    BY DEF TranslationIsArchitectural
<1> DEFINE n == Len(trail)
           last == trail[n][2]
           ac == dff_tlb2ptw.access
<1>1. AnswerIsArchitectural /\ TrailIsChain /\ TrailType /\ TypeOK
      BY DEF IInv
<1>2. ac \in Access /\ rff_excp_valid \in BOOLEAN
      BY <1>1 DEF TypeOK
<1>3. trail \in Seq(Entry) /\ n \in Nat /\ (n > 0 <=> trail # <<>>)
      BY <1>1 DEF TrailType
<1>4. n > 0 => last \in PTEs
      BY <1>3 DEF Entry
<1>5. CASE /\ rff_excp_valid
           /\ \A k \in DOMAIN trail : Pointer(trail[k][2])
  <2>1. trail = <<>> \/ Pointer(last)
        BY <1>3, <1>5
  <2>2. Pointer(last) => ~ArchOK(last, Levels - n)
        BY DEF Pointer, ArchOK
  <2> QED BY <1>5, <2>1, <2>2 DEF resp_excp_valid
<1>6. CASE n > 0 /\ (rff_excp_valid <=> ~ArchOK(last, Levels - n))
           /\ (~rff_excp_valid => dff_pte = last)
  <2>1. CASE rff_excp_valid
        BY <1>6, <2>1 DEF resp_excp_valid
  <2>2. CASE ~rff_excp_valid
    <3>1. ArchOK(last, Levels - n) /\ dff_pte = last /\ trail # <<>>
          BY <1>3, <1>6, <2>2
    <3>2. /\ last.r \in BOOLEAN /\ last.w \in BOOLEAN /\ last.x \in BOOLEAN
          /\ last.u \in BOOLEAN /\ last.a \in BOOLEAN /\ last.d \in BOOLEAN
          BY <1>4, <1>6, TablesAssumption DEF PTE
    <3>3. last.w => last.r
          BY <3>1 DEF ArchOK
    <3> HIDE DEF last
    <3>4. trans_excp_valid(last, ac, cs, ac # "FETCH") <=> ~ArchAllows(last, ac, cs)
          BY <1>2, <3>2, <3>3, VerdictIsArchitectural
    <3> QED BY <2>2, <3>1, <3>4 DEF resp_excp_valid, last
  <2> QED BY <1>2, <2>1, <2>2
<1> QED BY <1>1, <1>5, <1>6 DEF AnswerIsArchitectural

\* An access that misses the TLB faults exactly when the architecture forbids
\* it: orv64_ptw_core and the checks of orv64_tlb divide the work without a gap.
THEOREM TranslationCorrect == TSpec => []TranslationIsArchitectural
<1>1. IInv => TranslationIsArchitectural
      BY EndToEnd
<1> QED BY <1>1, Inductive, PTL
=============================================================================
