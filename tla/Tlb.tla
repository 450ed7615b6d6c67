--------------------------------- MODULE Tlb ---------------------------------
(***************************************************************************)
(* orv64_tlb: a small fully associative TLB in front of one page-table     *)
(* walker.  The cache side (cc) has one request in flight; a miss freezes  *)
(* the TLB until the walker answers; an SFENCE is remembered in            *)
(* rff_is_pending_sfence and served between two requests.                  *)
(*                                                                         *)
(* This module has the state and one action per transition of the FSM and  *)
(* of the request registers.  Transitions that the hardware may take in    *)
(* one cycle because they touch different registers (answering a hit and   *)
(* taking the next request, setting the pending flag) are separate steps.  *)
(* The page tables, the walker and the core are composed in Mmu.           *)
(***************************************************************************)
EXTENDS Integers

CONSTANTS
  NumEntries,       \* NUM_TLB_ENTRIES
  Levels,           \* ORV64_NUM_PAGE_LEVELS
  cfg_bypass_tlb    \* only entry 0 is used

VARIABLES
  satp_asid, skip_trans,         \* translation context, owned by the CSR unit
  rff_state,
  rff_tlb_valid,                 \* the valid entries, as a set
  dff_tlb,                       \* entry -> [asid, vpn, pte, lvl]
  rff_cc2tlb_req_valid, dff_cc2tlb_req,      \* the request: [vpn, access]
  rff_is_pending_sfence, dff_sfence_req,     \* the SFENCE: [type, asid, vpn]
  dff_ptw2tlb_resp               \* the walker's answer: [pte, lvl, excp]

tlb_vars == <<rff_state, rff_tlb_valid, dff_tlb, rff_cc2tlb_req_valid,
              dff_cc2tlb_req, rff_is_pending_sfence, dff_sfence_req,
              dff_ptw2tlb_resp>>

Entries == 0 .. NumEntries - 1

SfenceTypes == {"ALL", "ASID", "VPN", "ASID_VPN"}

States == {"ST_READY", "ST_TLB_FETCH", "ST_TLB_UPDATE", "ST_TLB_RET",
           "ST_SFENCE", "ST_SFENCE_DONE"}

TlbInit == /\ rff_state = "ST_READY"
           /\ rff_tlb_valid = {}
           /\ rff_cc2tlb_req_valid = FALSE
           /\ rff_is_pending_sfence = FALSE

-----------------------------------------------------------------------------
(* Hit logic. *)

\* vpn_masks: an entry of level l compares the VPN parts l and above.
vpn_match(e, vpn) ==
  \A l \in e.lvl .. Levels - 1 : e.vpn[l] = vpn[l]

entry_match(i, asid, vpn) ==
  /\ i \in rff_tlb_valid
  /\ dff_tlb[i].asid = asid \/ dff_tlb[i].pte.g
  /\ vpn_match(dff_tlb[i], vpn)

tlb_match == {i \in IF cfg_bypass_tlb THEN {0} ELSE Entries :
                rff_cc2tlb_req_valid /\ entry_match(i, satp_asid, dff_cc2tlb_req.vpn)}

is_tlb_hit == tlb_match # {}

\* The loop over the entries leaves the last match.
tlb_match_wyid == CHOOSE i \in tlb_match : \A j \in tlb_match : j <= i

\* The leaf and level of the response.
resp_pte == IF rff_state = "ST_TLB_RET" THEN dff_ptw2tlb_resp.pte
                                        ELSE dff_tlb[tlb_match_wyid].pte
resp_lvl == IF rff_state = "ST_TLB_RET" THEN dff_ptw2tlb_resp.lvl
                                        ELSE dff_tlb[tlb_match_wyid].lvl

\* A superpage takes the low parts of the PPN from the VPN.
translate(pte, lvl, vpn) ==
  [l \in 0 .. Levels - 1 |-> IF l < lvl THEN vpn[l] ELSE pte.ppn[l]]

resp_ppn == IF skip_trans THEN dff_cc2tlb_req.vpn
            ELSE translate(resp_pte, resp_lvl, dff_cc2tlb_req.vpn)

\* Mutant: the answer of the walker is only seen as a later hit.
RespOnlyHit ==
  rff_state = "ST_READY" /\ IF skip_trans THEN rff_cc2tlb_req_valid ELSE is_tlb_hit

tlb2cc_resp_valid ==
  \/ rff_state = "ST_READY" /\ IF skip_trans THEN rff_cc2tlb_req_valid ELSE is_tlb_hit
  \/ rff_state = "ST_TLB_RET"

ptw_excp == rff_state = "ST_TLB_RET" /\ dff_ptw2tlb_resp.excp

\* lru8/lru2_get_replace_way_id: the first empty way; when there is none, the
\* way the LRU bits point to, left open here.
replace_ways ==
  IF cfg_bypass_tlb THEN {0}
  ELSE IF Entries \subseteq rff_tlb_valid THEN Entries
  ELSE {CHOOSE i \in Entries \ rff_tlb_valid :
          \A j \in Entries \ rff_tlb_valid : i <= j}

-----------------------------------------------------------------------------
\* Mutant: requests are taken while an SFENCE is waiting.
AcceptIgnoresSfence(vpn, access) ==
  /\ rff_state = "ST_READY"
  /\ ~rff_cc2tlb_req_valid
  /\ rff_cc2tlb_req_valid' = TRUE
  /\ dff_cc2tlb_req' = [vpn |-> vpn, access |-> access]
  /\ UNCHANGED <<rff_state, rff_tlb_valid, dff_tlb, rff_is_pending_sfence,
                 dff_sfence_req, dff_ptw2tlb_resp>>

\* ST_READY: a new request is taken when no SFENCE waits.
AcceptReq(vpn, access) ==
  /\ rff_state = "ST_READY"
  /\ ~rff_cc2tlb_req_valid
  /\ ~rff_is_pending_sfence
  /\ rff_cc2tlb_req_valid' = TRUE
  /\ dff_cc2tlb_req' = [vpn |-> vpn, access |-> access]
  /\ UNCHANGED <<rff_state, rff_tlb_valid, dff_tlb, rff_is_pending_sfence,
                 dff_sfence_req, dff_ptw2tlb_resp>>

\* The cache takes the response, in ST_READY (hit or no translation) or in
\* ST_TLB_RET (after a walk).
Respond ==
  /\ tlb2cc_resp_valid
  /\ rff_cc2tlb_req_valid' = FALSE
  /\ rff_state' = "ST_READY"
  /\ UNCHANGED <<rff_tlb_valid, dff_tlb, dff_cc2tlb_req, rff_is_pending_sfence,
                 dff_sfence_req, dff_ptw2tlb_resp>>

\* ST_READY: a miss, also when an SFENCE waits.
Miss ==
  /\ rff_state = "ST_READY"
  /\ rff_cc2tlb_req_valid
  /\ ~skip_trans
  /\ ~is_tlb_hit
  /\ rff_state' = "ST_TLB_FETCH"
  /\ UNCHANGED <<rff_tlb_valid, dff_tlb, rff_cc2tlb_req_valid, dff_cc2tlb_req,
                 rff_is_pending_sfence, dff_sfence_req, dff_ptw2tlb_resp>>

\* ST_TLB_FETCH: the walker takes the request.
PtwTakes ==
  /\ rff_state = "ST_TLB_FETCH"
  /\ rff_state' = "ST_TLB_UPDATE"
  /\ UNCHANGED <<rff_tlb_valid, dff_tlb, rff_cc2tlb_req_valid, dff_cc2tlb_req,
                 rff_is_pending_sfence, dff_sfence_req, dff_ptw2tlb_resp>>

\* Mutant: a walk that ended in an exception is cached too.
CachesFaults(resp) == TRUE

\* A walk that raised an exception leaves the entries alone.
do_update_tlb(resp) == ~resp.excp

\* ST_TLB_UPDATE: the walker answers.  The entry is tagged with the ASID that
\* satp holds now and with the whole requested VPN.
PtwAnswers(resp) ==
  /\ rff_state = "ST_TLB_UPDATE"
  /\ rff_state' = "ST_TLB_RET"
  /\ dff_ptw2tlb_resp' = resp
  /\ IF do_update_tlb(resp)
     THEN \E i \in replace_ways :
            /\ rff_tlb_valid' = rff_tlb_valid \cup {i}
            /\ dff_tlb' = [dff_tlb EXCEPT ![i] =
                 [asid |-> satp_asid, vpn |-> dff_cc2tlb_req.vpn,
                  pte |-> resp.pte, lvl |-> resp.lvl]]
     ELSE UNCHANGED <<rff_tlb_valid, dff_tlb>>
  /\ UNCHANGED <<rff_cc2tlb_req_valid, dff_cc2tlb_req, rff_is_pending_sfence,
                 dff_sfence_req>>

\* The core asks for a flush.  The request registers are written only when no
\* other flush is pending: a second one would be lost.
FlushReq(req) ==
  /\ IF rff_is_pending_sfence
     THEN UNCHANGED <<rff_is_pending_sfence, dff_sfence_req>>
     ELSE rff_is_pending_sfence' = TRUE /\ dff_sfence_req' = req
  /\ UNCHANGED <<rff_state, rff_tlb_valid, dff_tlb, rff_cc2tlb_req_valid,
                 dff_cc2tlb_req, dff_ptw2tlb_resp>>

\* Mutant: the SFENCE does not wait for the request in flight.
StartSfenceBusy ==
  /\ rff_state = "ST_READY"
  /\ rff_is_pending_sfence
  /\ rff_state' = "ST_SFENCE"
  /\ UNCHANGED <<rff_tlb_valid, dff_tlb, rff_cc2tlb_req_valid, dff_cc2tlb_req,
                 rff_is_pending_sfence, dff_sfence_req, dff_ptw2tlb_resp>>

\* ST_READY with no request: the pending SFENCE is served.
StartSfence ==
  /\ rff_state = "ST_READY"
  /\ ~rff_cc2tlb_req_valid
  /\ rff_is_pending_sfence
  /\ rff_state' = "ST_SFENCE"
  /\ UNCHANGED <<rff_tlb_valid, dff_tlb, rff_cc2tlb_req_valid, dff_cc2tlb_req,
                 rff_is_pending_sfence, dff_sfence_req, dff_ptw2tlb_resp>>

\* Mutant: a flush of everything looks at the ASID operand.
SfenceHitsAsid(i) ==
  LET r == dff_sfence_req
  IN  IF r.type \in {"ALL", "ASID"} THEN dff_tlb[i].asid = r.asid
      ELSE dff_tlb[i].vpn = r.vpn

\* The entries an SFENCE removes.  VPNs are compared in full, also for entries
\* of superpages; ASID_VPN removes what matches either.
sfence_hits(i) ==
  LET r == dff_sfence_req
  IN  CASE r.type = "ALL"      -> TRUE
        [] r.type = "ASID"     -> dff_tlb[i].asid = r.asid
        [] r.type = "VPN"      -> dff_tlb[i].vpn = r.vpn
        [] r.type = "ASID_VPN" -> dff_tlb[i].asid = r.asid \/ dff_tlb[i].vpn = r.vpn

\* ST_SFENCE: the valid bits go.
DoSfence ==
  /\ rff_state = "ST_SFENCE"
  /\ rff_state' = "ST_SFENCE_DONE"
  /\ rff_tlb_valid' = {i \in rff_tlb_valid : ~sfence_hits(i)}
  /\ UNCHANGED <<dff_tlb, rff_cc2tlb_req_valid, dff_cc2tlb_req,
                 rff_is_pending_sfence, dff_sfence_req, dff_ptw2tlb_resp>>

\* Mutant: the pending flag stays up.
SfenceDoneSticky ==
  /\ rff_state = "ST_SFENCE_DONE"
  /\ rff_state' = "ST_READY"
  /\ UNCHANGED <<rff_tlb_valid, dff_tlb, rff_cc2tlb_req_valid, dff_cc2tlb_req,
                 rff_is_pending_sfence, dff_sfence_req, dff_ptw2tlb_resp>>

\* ST_SFENCE_DONE: back to ST_READY, the pending flag falls.
SfenceDone ==
  /\ rff_state = "ST_SFENCE_DONE"
  /\ rff_state' = "ST_READY"
  /\ rff_is_pending_sfence' = FALSE
  /\ UNCHANGED <<rff_tlb_valid, dff_tlb, rff_cc2tlb_req_valid, dff_cc2tlb_req,
                 dff_sfence_req, dff_ptw2tlb_resp>>
=============================================================================
