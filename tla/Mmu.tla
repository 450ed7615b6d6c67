--------------------------------- MODULE Mmu ---------------------------------
(***************************************************************************)
(* One address-translation path of the core (instruction side): orv64_tlb, *)
(* its orv64_ptw_core, the page tables in memory, and the instructions that*)
(* change what a translation means - stores to page tables, SFENCE.VMA, and*)
(* the CSR writes, traps and returns that change satp or the privilege.    *)
(*                                                                         *)
(* Software is free to store to the page tables at any moment and to run on*)
(* with stale entries until it executes SFENCE.VMA.  What it keeps to:     *)
(* one root table per ASID; flushes by address (VPN, ASID_VPN) only for    *)
(* addresses that no superpage maps; and global pages in tables that every *)
(* address space shares (TablesAssumption, SfenceAssumption,               *)
(* GlobalAssumption).                                                      *)
(***************************************************************************)
EXTENDS Integers, FiniteSets

CONSTANTS
  NumEntries, Levels, cfg_bypass_tlb,         \* as in Tlb
  Part, VPN, PPN, PmpDenied,                  \* as in Ptw
  ASID,
  Contexts,        \* the <<asid, skip>> the core switches between
  Root,            \* ASID -> PPN of its root table
  Tables,          \* the PPNs that hold page tables
  InitMem,         \* the initial tables: Tables \X Part -> PTE
  Choices,         \* the PTEs software may store, per address
  SfenceReqs       \* the SFENCE.VMA requests software issues

ASSUME MmuAssumption == /\ NumEntries \in Nat \ {0}
                        /\ Levels \in Nat \ {0}
                        /\ cfg_bypass_tlb \in BOOLEAN

VARIABLES
  satp_asid, skip_trans,
  rff_state, rff_tlb_valid, dff_tlb, rff_cc2tlb_req_valid, dff_cc2tlb_req,
  rff_is_pending_sfence, dff_sfence_req, dff_ptw2tlb_resp,
  w_satp_ppn, w_state, w_lvl, w_base, w_excp_valid, w_excp_cause, w_req, w_pte,
  mem,             \* the page tables
  seen,            \* history: per ASID, VPN and address, the PTEs a walk may
                   \* have read since the last SFENCE about that ASID and VPN
  fresh,           \* history: the request in flight is younger than the last SFENCE
  fetched,         \* history: a request was taken since the last SFENCE
  restructured     \* history: a pointer to a table was written or overwritten
                   \* since the last flush of everything

tlb_vars == <<rff_state, rff_tlb_valid, dff_tlb, rff_cc2tlb_req_valid,
              dff_cc2tlb_req, rff_is_pending_sfence, dff_sfence_req,
              dff_ptw2tlb_resp>>
ptw_vars == <<w_satp_ppn, w_state, w_lvl, w_base, w_excp_valid, w_excp_cause,
              w_req, w_pte>>
ctx_vars == <<satp_asid, skip_trans>>
hist_vars == <<seen, fresh, fetched, restructured>>
vars == <<tlb_vars, ptw_vars, ctx_vars, mem, hist_vars>>

Level == 0 .. Levels - 1
Addr == DOMAIN InitMem

\* Every PTE an address may ever hold, per address.
Held == [addr \in Addr |->
           {InitMem[addr]} \cup IF addr \in DOMAIN Choices THEN Choices[addr] ELSE {}]

PTEs == UNION {Held[addr] : addr \in Addr}
Roots == {Root[asid] : asid \in ASID}

T == INSTANCE Tlb
W == INSTANCE Ptw WITH
       satp_ppn <- w_satp_ppn, rff_state <- w_state, rff_lvl <- w_lvl,
       dff_pd_base_addr <- w_base, rff_excp_valid <- w_excp_valid,
       rff_excp_cause <- w_excp_cause, dff_tlb2ptw <- w_req, dff_pte <- w_pte

-----------------------------------------------------------------------------
(* What the page tables mean, when a read of an address may return any PTE  *)
(* of held[addr]: the architecture orders the reads of a walk with stores   *)
(* only through SFENCE.VMA, so each of them may see another moment.         *)

Valid(p) == p.v /\ (p.w => p.r)
IsLeaf(p) == Valid(p) /\ (p.r \/ p.x)
IsPointer(p) == Valid(p) /\ ~p.r /\ ~p.x
IsGlobal(p) == IsLeaf(p) /\ p.g
GoodLeaf(p, l) == IsLeaf(p) /\ p.a /\ \A i \in 0 .. l - 1 : p.ppn[i] = 0

\* The tables a walk may go through from the root to level l.
Paths(held, asid, vpn, l) ==
  {path \in [l .. Levels - 1 -> Tables] :
     /\ path[Levels - 1] = Root[asid]
     /\ \A k \in l + 1 .. Levels - 1 :
          /\ <<path[k], vpn[k]>> \notin PmpDenied
          /\ \E p \in held[<<path[k], vpn[k]>>] : IsPointer(p) /\ path[k - 1] = p.ppn}

\* The tables a walk may read at level l.
Dirs(held, asid, vpn, l) == {path[l] : path \in Paths(held, asid, vpn, l)}

\* A walk may end with the PTE p and the translation ppn.
MayAnswer(held, asid, vpn, p, ppn) ==
  \E l \in Level :
    /\ GoodLeaf(p, l)
    /\ \E base \in Dirs(held, asid, vpn, l) :
         <<base, vpn[l]>> \notin PmpDenied /\ p \in held[<<base, vpn[l]>>]
    /\ ppn = [i \in Level |-> IF i < l THEN vpn[i] ELSE p.ppn[i]]

\* A walk may end with a fault.
MayFault(held, asid, vpn) ==
  \E l \in Level : \E base \in Dirs(held, asid, vpn, l) :
    \/ <<base, vpn[l]>> \in PmpDenied
    \/ \E p \in held[<<base, vpn[l]>>] :
         ~GoodLeaf(p, l) /\ ~(IsPointer(p) /\ l > 0)

-----------------------------------------------------------------------------
(* What software keeps to. *)

\* Pointers name tables, and the tables have an entry for every VPN.
ASSUME TablesAssumption ==
  /\ VPN \subseteq [Level -> Part]
  /\ Root \in [ASID -> Tables]
  /\ \A base \in Tables, vpn \in VPN, l \in Level : <<base, vpn[l]>> \in Addr
  /\ InitMem = [addr \in Addr |-> InitMem[addr]]
  /\ DOMAIN Choices \subseteq Addr
  /\ \A addr \in Addr : \A p \in Held[addr] : IsPointer(p) => p.ppn \in Tables
  /\ Contexts \subseteq ASID \X BOOLEAN

\* An address that is flushed by itself is never mapped by a superpage: the TLB
\* compares the whole VPN also with the entry of a superpage.
ASSUME SfenceAssumption ==
  \A req \in SfenceReqs :
    /\ req.type \in {"ALL", "ASID", "VPN", "ASID_VPN"}
    /\ req.type \in {"VPN", "ASID_VPN"} =>
         \A asid \in ASID, l \in Level \ {0} : \A base \in Dirs(Held, asid, req.vpn, l) :
           \A p \in Held[<<base, req.vpn[l]>>] : ~IsLeaf(p)

\* The PTEs that never change.
Fixed == [addr \in Addr |-> {p \in Held[addr] : Held[addr] = {p}}]

\* A global page is in a table that every address space shares, by pointers that
\* do not change; the page itself may be changed, but stays global.
ASSUME GlobalAssumption ==
  \A asid \in ASID, vpn \in VPN, l \in Level : \A base \in Dirs(Held, asid, vpn, l) :
    (\E p \in Held[<<base, vpn[l]>>] : IsGlobal(p)) =>
      /\ \A p \in Held[<<base, vpn[l]>>] : IsLeaf(p) => p.g
      /\ \A other \in ASID : base \in Dirs(Fixed, other, vpn, l)

-----------------------------------------------------------------------------
\* The (asid, vpn) pairs an SFENCE.VMA is about.
Covers(req, asid, vpn) ==
  CASE req.type = "ALL"      -> TRUE
    [] req.type = "ASID"     -> req.asid = asid
    [] req.type = "VPN"      -> req.vpn = vpn
    [] req.type = "ASID_VPN" -> req.asid = asid /\ req.vpn = vpn

\* What it does not order even then: an SFENCE.VMA about one ASID leaves global
\* pages out.
Unordered(req, ptes) == {p \in ptes : req.type = "ASID" /\ IsGlobal(p)}

-----------------------------------------------------------------------------
NoReq == [vpn |-> CHOOSE v \in VPN : TRUE, access |-> "FETCH"]

\* Out of reset the core is in M mode and satp is bare: no translation.
Init == /\ \E c \in Contexts : satp_asid = c[1] /\ skip_trans = c[2] /\ c[2]
        /\ T!TlbInit
        /\ dff_tlb = [i \in 0 .. NumEntries - 1 |->
                        [asid |-> satp_asid, vpn |-> NoReq.vpn,
                         pte |-> InitMem[<<Root[satp_asid], 0>>], lvl |-> 0]]
        /\ dff_cc2tlb_req = NoReq
        /\ dff_sfence_req = [type |-> "ALL", asid |-> satp_asid, vpn |-> NoReq.vpn]
        /\ dff_ptw2tlb_resp = [pte |-> InitMem[<<Root[satp_asid], 0>>], lvl |-> 0,
                               excp |-> FALSE]
        /\ w_satp_ppn = Root[satp_asid]
        /\ w_state = "ST_READY"
        /\ w_lvl = 0
        /\ w_base = Root[satp_asid]
        /\ w_excp_valid = FALSE
        /\ w_excp_cause = W!NoCause
        /\ w_req = NoReq
        /\ w_pte = InitMem[<<Root[satp_asid], 0>>]
        /\ mem = InitMem
        /\ seen = [asid \in ASID |-> [vpn \in VPN |-> [addr \in Addr |-> {InitMem[addr]}]]]
        /\ fresh = FALSE
        /\ fetched = TRUE
        /\ restructured = FALSE

-----------------------------------------------------------------------------
(* The cache side. *)

Request(vpn) ==
  /\ T!AcceptReq(vpn, "FETCH")
  /\ fresh' = TRUE
  /\ fetched' = TRUE
  /\ UNCHANGED <<ptw_vars, ctx_vars, mem, seen, restructured>>

Respond == T!Respond /\ UNCHANGED <<ptw_vars, ctx_vars, mem, hist_vars>>

(* The TLB and its walker; the two handshakes are joint steps. *)

TlbStep == /\ T!Miss \/ T!StartSfence \/ T!DoSfence \/ T!SfenceDone
           /\ UNCHANGED <<ptw_vars, ctx_vars, mem, hist_vars>>

WalkStart == /\ T!PtwTakes
             /\ W!Accept(dff_cc2tlb_req.vpn, dff_cc2tlb_req.access)
             /\ UNCHANGED <<ctx_vars, mem, hist_vars>>

WalkStep == /\ \/ W!PmpFault
               \/ W!SendReq
               \/ w_state = "ST_PTE_RESP" /\ W!Resp(mem[W!pte_req_addr])
            /\ UNCHANGED <<tlb_vars, ctx_vars, mem, hist_vars>>

WalkEnd == /\ T!PtwAnswers([pte |-> w_pte, lvl |-> w_lvl, excp |-> w_excp_valid])
           /\ W!Return
           /\ UNCHANGED <<ctx_vars, mem, hist_vars>>

-----------------------------------------------------------------------------
(* The core. *)

\* A store to a page table.
StorePte(addr, pte) ==
  /\ mem[addr] # pte
  /\ mem' = [mem EXCEPT ![addr] = pte]
  /\ seen' = [asid \in ASID |-> [vpn \in VPN |->
                [seen[asid][vpn] EXCEPT ![addr] = @ \cup {pte}]]]
  /\ restructured' = (restructured \/ IsPointer(mem[addr]) \/ IsPointer(pte))
  /\ UNCHANGED <<tlb_vars, ptw_vars, ctx_vars, fresh, fetched>>

\* SFENCE.VMA leaves decode.  It was itself fetched through this TLB after the
\* previous one had emptied the instruction buffer and stopped the fetch.
Sfence(req) ==
  /\ fetched
  /\ T!FlushReq(req)
  /\ seen' = [asid \in ASID |-> [vpn \in VPN |-> [addr \in Addr |->
                IF Covers(req, asid, vpn)
                THEN {mem[addr]} \cup Unordered(req, seen[asid][vpn][addr])
                ELSE seen[asid][vpn][addr]]]]
  /\ fresh' = FALSE
  /\ fetched' = FALSE
  /\ restructured' = (restructured /\ req.type # "ALL")
  /\ UNCHANGED <<ptw_vars, ctx_vars, mem>>

\* Mutant: satp and the privilege change under a request in flight.
RdyAlways == TRUE

\* inst_buf_idle: no fetch is in flight, so none is in the TLB.
translation_change_rdy == ~rff_cc2tlb_req_valid

\* A satp write, a trap or a return: the new context is another address space
\* or M mode / bare (no translation).
ChangeContext(asid, skip) ==
  /\ translation_change_rdy
  /\ <<asid, skip>> # <<satp_asid, skip_trans>>
  /\ satp_asid' = asid
  /\ skip_trans' = skip
  /\ W!WriteSatp(Root[asid])
  /\ UNCHANGED <<tlb_vars, mem, hist_vars>>

Next == \/ \E vpn \in VPN : Request(vpn)
        \/ Respond
        \/ TlbStep
        \/ WalkStart
        \/ WalkStep
        \/ WalkEnd
        \/ \E addr \in DOMAIN Choices : \E pte \in Choices[addr] : StorePte(addr, pte)
        \/ \E req \in SfenceReqs : Sfence(req)
        \/ \E c \in Contexts : ChangeContext(c[1], c[2])

\* The clock runs, memory answers and the cache takes responses.
Fairness == /\ WF_vars(Respond)
            /\ WF_vars(TlbStep)
            /\ WF_vars(WalkStart)
            /\ WF_vars(WalkStep)
            /\ WF_vars(WalkEnd)

Spec == Init /\ [][Next]_vars /\ Fairness

-----------------------------------------------------------------------------
\* The walker works exactly while the TLB waits for it, and for its request.
WalkerInStep ==
  /\ w_state # "ST_READY" <=> rff_state = "ST_TLB_UPDATE"
  /\ rff_state = "ST_TLB_UPDATE" => w_req = dff_cc2tlb_req
  /\ rff_state \in {"ST_TLB_FETCH", "ST_TLB_UPDATE", "ST_TLB_RET"} => rff_cc2tlb_req_valid
  /\ rff_state \in {"ST_SFENCE", "ST_SFENCE_DONE"} =>
       rff_is_pending_sfence /\ ~rff_cc2tlb_req_valid

\* No SFENCE.VMA is lost: although a flush request is dropped while another one
\* is pending, the core never issues one then, because an SFENCE in the TLB
\* holds back the fetch of the next instruction.
SfenceNotLost == fetched => ~rff_is_pending_sfence

\* A response to a request younger than the last SFENCE.VMA is the answer of a
\* walk in the current address space whose reads all fall after that SFENCE: a
\* fault only for a fault, the PTE (with its permissions) and the page for a page.
ResponseCoherent ==
  T!tlb2cc_resp_valid /\ fresh /\ ~skip_trans =>
    LET held == seen[satp_asid][dff_cc2tlb_req.vpn]
    IN  IF T!ptw_excp
        THEN MayFault(held, satp_asid, dff_cc2tlb_req.vpn)
        ELSE MayAnswer(held, satp_asid, dff_cc2tlb_req.vpn, T!resp_pte, T!resp_ppn)

\* Every entry that survives an SFENCE is right for every address it matches,
\* in every address space that may use it: right ASID tag, right level.
EntriesCoherent ==
  ~rff_is_pending_sfence =>
    \A i \in rff_tlb_valid, asid \in ASID, vpn \in VPN :
      T!entry_match(i, asid, vpn) =>
        MayAnswer(seen[asid][vpn], asid, vpn, dff_tlb[i].pte,
                  T!translate(dff_tlb[i].pte, dff_tlb[i].lvl, vpn))

\* At most one entry matches as long as software has flushed everything after a
\* change of the table structure (base pages to superpage or back); pages
\* themselves, superpages too, may change.
OneMatchWhenFlushed ==
  ~restructured /\ ~rff_is_pending_sfence => Cardinality(T!tlb_match) <= 1

\* A pending SFENCE is served even if the cache keeps asking and tables fault.
SfenceServed == rff_is_pending_sfence ~> ~rff_is_pending_sfence

\* A request is answered, also with SFENCEs and table updates in between.
RequestServed == rff_cc2tlb_req_valid ~> ~rff_cc2tlb_req_valid
=============================================================================
