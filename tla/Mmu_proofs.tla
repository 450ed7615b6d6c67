----------------------------- MODULE Mmu_proofs -----------------------------
(***************************************************************************)
(* Proofs about Mmu, for all page tables, address spaces, TLB sizes and    *)
(* flush requests, and for any stores to the tables: the walker and the TLB*)
(* keep in step, no SFENCE.VMA is lost, entries and responses rest only on *)
(* PTEs read after the last SFENCE.VMA about them, and at most one entry   *)
(* matches an address while no pointer to a table changed.                 *)
(***************************************************************************)
EXTENDS Mmu, FiniteSetTheorems, WellFoundedInduction, TLAPS

(***************************************************************************)
(* The inductive invariant.  The walker copies the two fields of the TLB's *)
(* request, so that the copy is the request once that is known to have no  *)
(* others.  A fetch taken after a flush request is one taken after that    *)
(* request was served, which is why SFENCE.VMA, fetched itself, always     *)
(* finds the flush register free.                                          *)
(***************************************************************************)
RequestFields ==
  dff_cc2tlb_req = [vpn |-> dff_cc2tlb_req.vpn, access |-> dff_cc2tlb_req.access]

FreshIsFlushed == fresh => ~rff_is_pending_sfence /\ fetched

IInv == RequestFields /\ WalkerInStep /\ SfenceNotLost /\ FreshIsFlushed

USE DEF IInv, RequestFields, WalkerInStep, SfenceNotLost, FreshIsFlushed

\* The cache side: a request is taken only where no SFENCE waits, and answered
\* only where no walk is under way.
LEMMA CacheKeeps ==
  ASSUME IInv, (\E vpn \in VPN : Request(vpn)) \/ Respond
  PROVE  IInv'
<1>1. ASSUME NEW vpn \in VPN, Request(vpn) PROVE IInv'
  BY <1>1 DEF Request, T!AcceptReq, ptw_vars
<1>2. CASE Respond
  BY <1>2 DEF Respond, T!Respond, T!tlb2cc_resp_valid, ptw_vars, hist_vars
<1> QED BY <1>1, <1>2

\* The FSM of the TLB: a miss needs a request, an SFENCE needs that there is none.
LEMMA TlbKeeps == ASSUME IInv, TlbStep PROVE IInv'
<1> USE DEF ptw_vars, hist_vars
<1>1. CASE T!Miss
  BY <1>1 DEF TlbStep, T!Miss
<1>2. CASE T!StartSfence
  BY <1>2 DEF TlbStep, T!StartSfence
<1>3. CASE T!DoSfence
  BY <1>3 DEF TlbStep, T!DoSfence
<1>4. CASE T!SfenceDone
  BY <1>4 DEF TlbStep, T!SfenceDone
<1> QED BY <1>1, <1>2, <1>3, <1>4 DEF TlbStep

\* The two handshakes with the walker, and its steps in between.
LEMMA WalkKeeps == ASSUME IInv, WalkStart \/ WalkStep \/ WalkEnd PROVE IInv'
<1>1. CASE WalkStart
  <2>1. w_req' = dff_cc2tlb_req'
    BY <1>1 DEF WalkStart, T!PtwTakes, W!Accept
  <2> QED BY <1>1, <2>1 DEF WalkStart, T!PtwTakes, W!Accept, hist_vars
<1>2. CASE WalkStep
  <2>1. w_state # "ST_READY" /\ w_state' # "ST_READY" /\ w_req' = w_req
    BY <1>2 DEF WalkStep, W!PmpFault, W!SendReq, W!Resp
  <2> QED BY <1>2, <2>1 DEF WalkStep, tlb_vars, hist_vars
<1>3. CASE WalkEnd
  BY <1>3 DEF WalkEnd, T!PtwAnswers, W!Return, hist_vars
<1> QED BY <1>1, <1>2, <1>3

\* The core: an SFENCE raises the pending flag and holds back the next fetch;
\* stores and changes of context touch neither the TLB nor the walk.
LEMMA CoreKeeps ==
  ASSUME IInv,
         \/ \E addr \in DOMAIN Choices : \E pte \in Choices[addr] : StorePte(addr, pte)
         \/ \E req \in SfenceReqs : Sfence(req)
         \/ \E c \in Contexts : ChangeContext(c[1], c[2])
  PROVE  IInv'
<1>1. ASSUME NEW addr, NEW pte, StorePte(addr, pte) PROVE IInv'
  BY <1>1 DEF StorePte, tlb_vars, ptw_vars
<1>2. ASSUME NEW req, Sfence(req) PROVE IInv'
  BY <1>2 DEF Sfence, T!FlushReq, ptw_vars
<1>3. ASSUME NEW asid, NEW skip, ChangeContext(asid, skip) PROVE IInv'
  BY <1>3 DEF ChangeContext, W!WriteSatp, tlb_vars, hist_vars
<1> QED BY <1>1, <1>2, <1>3

LEMMA Inductive == Spec => []IInv
<1>1. Init => IInv
  BY DEF Init, T!TlbInit, NoReq
<1>2. IInv /\ [Next]_vars => IInv'
  <2> SUFFICES ASSUME IInv, [Next]_vars PROVE IInv'
    OBVIOUS
  <2>1. CASE Next
    <3> HIDE DEF IInv
    <3> QED BY <2>1, CacheKeeps, TlbKeeps, WalkKeeps, CoreKeeps DEF Next
  <2>2. CASE UNCHANGED vars
    BY <2>2 DEF vars, tlb_vars, ptw_vars, hist_vars
  <2> QED BY <2>1, <2>2
<1> QED BY <1>1, <1>2, PTL DEF Spec

-----------------------------------------------------------------------------
\* The walker works exactly while the TLB waits for it, on the TLB's own request,
\* and never while an SFENCE.VMA empties the TLB.
THEOREM WalkerKeepsInStep == Spec => []WalkerInStep
<1>1. IInv => WalkerInStep
  OBVIOUS
<1> QED BY <1>1, Inductive, PTL

\* No SFENCE.VMA is lost, although the TLB drops a flush request that comes while
\* another is pending: none comes then.
THEOREM NoSfenceIsLost == Spec => []SfenceNotLost
<1>1. IInv => SfenceNotLost
  OBVIOUS
<1> QED BY <1>1, Inductive, PTL

HIDE DEF IInv, RequestFields, WalkerInStep, SfenceNotLost, FreshIsFlushed

-----------------------------------------------------------------------------
(***************************************************************************)
(* The entries against the tables.                                         *)
(*                                                                         *)
(* View is what the meaning of a walk or of an entry depends on.  A step   *)
(* that leaves the view alone leaves every walk and every entry right.     *)
(***************************************************************************)
Waiting == rff_is_pending_sfence /\ rff_state # "ST_SFENCE_DONE"

View == [mem |-> mem, seen |-> seen, waiting |-> Waiting, req |-> dff_sfence_req,
         unsettled |-> restructured \/ (Waiting /\ dff_sfence_req.type = "ALL")]

AgreeFrom(v, w, l) == \A k \in l .. Levels - 1 : v[k] = w[k]

\* The VPNs an entry made for vpn answers for: not those that are flushed by
\* themselves, which the TLB would not recognise in the entry.
FlushedVPNs == {req.vpn : req \in {r \in SfenceReqs : r.type \in {"VPN", "ASID_VPN"}}}
Followed(vpn) == {v \in VPN : v = vpn \/ v \notin FlushedVPNs}

\* The SFENCE.VMA that waits will remove an entry tagged with asid and vpn.
Doomed(view, asid, vpn) ==
  /\ view.waiting
  /\ \/ view.req.type = "ALL"
     \/ view.req.type \in {"ASID", "ASID_VPN"} /\ asid = view.req.asid
     \/ view.req.type \in {"VPN", "ASID_VPN"} /\ vpn = view.req.vpn

Now(view) == [addr \in Addr |-> {view.mem[addr]}]

\* A walk for vpn in asid is right to read the table base at level l: by what the
\* tables may ever hold, by what they have held since the last SFENCE, for every
\* VPN with the same upper parts, and, as long as no pointer changed, by now.
OnPath(view, base, l, asid, vpn) ==
  /\ base \in Dirs(Held, asid, vpn, l)
  /\ \A v \in Followed(vpn) : AgreeFrom(v, vpn, l + 1) =>
       Doomed(view, asid, vpn) \/ base \in Dirs(view.seen[asid][v], asid, v, l)
  /\ view.unsettled \/ base \in Dirs(Now(view), asid, vpn, l)

\* The leaf p that a walk for vpn in asid found at level l in the table base is
\* right for every address that an entry made of it will match.
Backed(view, base, p, l, asid, vpn) ==
  /\ base \in Dirs(Held, asid, vpn, l)
  /\ <<base, vpn[l]>> \notin PmpDenied
  /\ p \in Held[<<base, vpn[l]>>]
  /\ \A a \in ASID, v \in Followed(vpn) :
       (a = asid \/ p.g) /\ AgreeFrom(v, vpn, l) =>
         \/ Doomed(view, asid, vpn)
         \/ /\ base \in Dirs(view.seen[a][v], a, v, l)
            /\ p \in view.seen[a][v][<<base, vpn[l]>>]
  /\ \/ view.unsettled
     \/ /\ base \in Dirs(Now(view), asid, vpn, l)
        /\ ~IsPointer(view.mem[<<base, vpn[l]>>])

Right(view, p, l, asid, vpn) ==
  /\ l \in Level
  /\ GoodLeaf(p, l)
  /\ \E base \in Tables : Backed(view, base, p, l, asid, vpn)

Kinds ==
  /\ satp_asid \in ASID
  /\ w_satp_ppn = Root[satp_asid]
  /\ rff_cc2tlb_req_valid => dff_cc2tlb_req.vpn \in VPN /\ dff_cc2tlb_req.access = "FETCH"
  /\ rff_is_pending_sfence => dff_sfence_req \in SfenceReqs

TablesOK ==
  /\ mem \in [Addr -> PTEs]
  /\ seen \in [ASID -> [VPN -> [Addr -> SUBSET PTEs]]]
  /\ \A addr \in Addr : mem[addr] \in Held[addr]
  /\ \A asid \in ASID, vpn \in VPN, addr \in Addr :
       mem[addr] \in seen[asid][vpn][addr] /\ seen[asid][vpn][addr] \subseteq Held[addr]

WalkOK ==
  /\ w_state # "ST_PTE_RETURN" => ~w_excp_valid
  /\ w_state \in {"ST_READY", "ST_PTE_REQ", "ST_PTE_RESP", "ST_PTE_RETURN"}
  /\ w_state \in {"ST_PTE_REQ", "ST_PTE_RESP"} =>
       w_lvl \in Level /\ OnPath(View, w_base, w_lvl, satp_asid, dff_cc2tlb_req.vpn)
  /\ w_state = "ST_PTE_RESP" => <<w_base, dff_cc2tlb_req.vpn[w_lvl]>> \notin PmpDenied
  /\ w_state = "ST_PTE_RETURN" /\ ~w_excp_valid =>
       Right(View, w_pte, w_lvl, satp_asid, dff_cc2tlb_req.vpn)
  /\ w_state = "ST_PTE_RETURN" /\ w_excp_valid /\ fresh =>
       MayFault(seen[satp_asid][dff_cc2tlb_req.vpn], satp_asid, dff_cc2tlb_req.vpn)

RespOK ==
  rff_state = "ST_TLB_RET" =>
    /\ ~dff_ptw2tlb_resp.excp =>
         Right(View, dff_ptw2tlb_resp.pte, dff_ptw2tlb_resp.lvl, satp_asid,
               dff_cc2tlb_req.vpn)
    /\ dff_ptw2tlb_resp.excp /\ fresh =>
         MayFault(seen[satp_asid][dff_cc2tlb_req.vpn], satp_asid, dff_cc2tlb_req.vpn)

\* An entry, as the TLB holds it.
RightEntry(view, e) ==
  e.asid \in ASID /\ e.vpn \in VPN /\ Right(view, e.pte, e.lvl, e.asid, e.vpn)

EntriesOK ==
  /\ rff_tlb_valid \subseteq 0 .. NumEntries - 1
  /\ cfg_bypass_tlb => rff_tlb_valid \subseteq {0}
  /\ dff_tlb = [i \in 0 .. NumEntries - 1 |-> dff_tlb[i]]
  /\ \A i \in rff_tlb_valid : RightEntry(View, dff_tlb[i])

\* Two entries that some address could match.
Overlap(e, f) ==
  /\ e.lvl = f.lvl
  /\ AgreeFrom(e.vpn, f.vpn, e.lvl)
  /\ e.asid = f.asid \/ e.pte.g \/ f.pte.g

MatchesReq(e, asid, vpn) ==
  (e.asid = asid \/ e.pte.g) /\ AgreeFrom(e.vpn, vpn, e.lvl)

\* A walk is made only for an address that no entry matches, so that as long as
\* no pointer changed it makes no second entry for an address.
EntriesApart ==
  /\ rff_state \in {"ST_TLB_FETCH", "ST_TLB_UPDATE"} =>
       \A i \in rff_tlb_valid : ~MatchesReq(dff_tlb[i], satp_asid, dff_cc2tlb_req.vpn)
  /\ ~View.unsettled =>
       \A i, j \in rff_tlb_valid : i # j => ~Overlap(dff_tlb[i], dff_tlb[j])

CInv == Kinds /\ TablesOK /\ WalkOK /\ RespOK /\ EntriesOK /\ EntriesApart

-----------------------------------------------------------------------------
(***************************************************************************)
(* Lemmas about Dirs, the tables a walk may come to.                       *)
(***************************************************************************)
LEMMA LevelFacts ==
  /\ Levels \in Nat /\ Levels > 0 /\ Levels - 1 \in Level
  /\ \A l \in Level : l \in Int /\ 0 <= l /\ l <= Levels - 1
  BY MmuAssumption DEF Level

LEMMA DirsInTables ==
  ASSUME NEW held, NEW asid, NEW vpn, NEW l \in Level,
         NEW base \in Dirs(held, asid, vpn, l)
  PROVE  base \in Tables
<1>1. PICK path \in Paths(held, asid, vpn, l) : base = path[l]
  BY DEF Dirs
<1>2. path \in [l .. Levels - 1 -> Tables] /\ l \in l .. Levels - 1
  BY <1>1, LevelFacts DEF Paths
<1> QED BY <1>1, <1>2

\* The address a walk reads next is one of the tables.
LEMMA DirsAddr ==
  ASSUME NEW held, NEW asid, NEW vpn \in VPN, NEW l \in Level,
         NEW base \in Dirs(held, asid, vpn, l)
  PROVE  <<base, vpn[l]>> \in Addr
  BY DirsInTables, TablesAssumption

\* More pointers to read: more tables to come to.
LEMMA DirsGrow ==
  ASSUME NEW held, NEW more, NEW asid, NEW vpn \in VPN, NEW l \in Level,
         \A addr \in Addr : \A p \in held[addr] : IsPointer(p) => p \in more[addr]
  PROVE  Dirs(held, asid, vpn, l) \subseteq Dirs(more, asid, vpn, l)
<1> SUFFICES ASSUME NEW path \in Paths(held, asid, vpn, l)
             PROVE  path \in Paths(more, asid, vpn, l)
  BY DEF Dirs
<1>1. path \in [l .. Levels - 1 -> Tables]
  BY DEF Paths
<1>2. ASSUME NEW k \in l + 1 .. Levels - 1 PROVE <<path[k], vpn[k]>> \in Addr
  <2>1. k \in Level /\ k \in l .. Levels - 1
    BY LevelFacts DEF Level
  <2> QED BY <2>1, <1>1, TablesAssumption
<1> QED BY <1>1, <1>2 DEF Paths

\* The tables at level l depend on the VPN parts above l only.
LEMMA DirsAgree ==
  ASSUME NEW held, NEW asid, NEW v, NEW w, NEW l \in Level, AgreeFrom(v, w, l + 1)
  PROVE  Dirs(held, asid, v, l) = Dirs(held, asid, w, l)
<1>1. Paths(held, asid, v, l) = Paths(held, asid, w, l)
  BY DEF Paths, AgreeFrom
<1> QED BY <1>1 DEF Dirs

LEMMA DirsRoot ==
  ASSUME NEW held, NEW asid \in ASID, NEW vpn
  PROVE  Root[asid] \in Dirs(held, asid, vpn, Levels - 1)
<1> DEFINE path == [k \in Levels - 1 .. Levels - 1 |-> Root[asid]]
<1>1. path \in Paths(held, asid, vpn, Levels - 1) /\ path[Levels - 1] = Root[asid]
  BY LevelFacts, TablesAssumption DEF Paths
<1> QED BY <1>1 DEF Dirs

\* A pointer leads one level down.
LEMMA DirsStep ==
  ASSUME NEW held, NEW asid, NEW vpn, NEW l \in Level, l > 0,
         NEW base \in Dirs(held, asid, vpn, l),
         <<base, vpn[l]>> \notin PmpDenied,
         NEW p \in held[<<base, vpn[l]>>], IsPointer(p), p.ppn \in Tables
  PROVE  l - 1 \in Level /\ p.ppn \in Dirs(held, asid, vpn, l - 1)
<1>1. PICK path \in Paths(held, asid, vpn, l) : base = path[l]
  BY DEF Dirs
<1>2. path \in [l .. Levels - 1 -> Tables] /\ path[Levels - 1] = Root[asid]
  BY DEF Paths
<1> DEFINE longer == [k \in l - 1 .. Levels - 1 |-> IF k = l - 1 THEN p.ppn ELSE path[k]]
<1>3. l \in Int /\ Levels \in Int /\ 0 < l /\ l <= Levels - 1
  BY LevelFacts
<1>4. longer \in [l - 1 .. Levels - 1 -> Tables]
  BY <1>2, <1>3
<1>5. longer[Levels - 1] = Root[asid] /\ longer[l - 1] = p.ppn
  BY <1>2, <1>3
<1>6. ASSUME NEW k \in (l - 1) + 1 .. Levels - 1
      PROVE  /\ <<longer[k], vpn[k]>> \notin PmpDenied
             /\ \E q \in held[<<longer[k], vpn[k]>>] : IsPointer(q) /\ longer[k - 1] = q.ppn
  <2>1. CASE k = l
    <3>1. longer[k] = base /\ longer[k - 1] = p.ppn
      BY <2>1, <1>1, <1>3
    <3> HIDE DEF longer
    <3> QED BY <2>1, <3>1
  <2>2. CASE k # l
    <3>1. k \in l + 1 .. Levels - 1 /\ longer[k] = path[k] /\ longer[k - 1] = path[k - 1]
      BY <2>2, <1>3
    <3> HIDE DEF longer
    <3> QED BY <3>1 DEF Paths
  <2> QED BY <2>1, <2>2
<1>7. longer \in Paths(held, asid, vpn, l - 1)
  <2> HIDE DEF longer
  <2> QED BY <1>4, <1>5, <1>6 DEF Paths
<1> QED
  <2> HIDE DEF longer
  <2> QED BY <1>3, <1>5, <1>7 DEF Dirs, Level

\* A non-empty set of naturals has a greatest element if it is bounded.
LEMMA GreatestBelow ==
  ASSUME NEW n \in Nat, NEW S \in SUBSET (0 .. n), S # {}
  PROVE  \E m \in S : \A k \in S : k <= m
<1> DEFINE D == {n - k : k \in S}
<1>0. \A k \in S : k \in Int /\ n - k \in Nat
  OBVIOUS
<1>1. D \in SUBSET Nat /\ D # {}
  BY <1>0
<1>2. \E d \in D : \A e \in D : ~(<<e, d>> \in OpToRel(<, Nat))
  <2> HIDE DEF D
  <2> QED BY <1>1, NatLessThanWellFounded, WFMin
<1>3. PICK d \in D : \A e \in D : ~(e < d)
  <2>1. PICK d \in D : \A e \in D : ~(<<e, d>> \in OpToRel(<, Nat))
    BY <1>2
  <2>2. ASSUME NEW e \in D, e < d PROVE FALSE
    BY <1>1, <2>1, <2>2 DEF OpToRel
  <2> QED BY <2>2
<1>4. PICK m \in S : d = n - m
  OBVIOUS
<1>5. \A k \in S : ~(n - k < n - m)
  BY <1>3, <1>4
<1> QED BY <1>0, <1>5

\* With one PTE per address a walk has no choice.
LEMMA DirsUnique ==
  ASSUME NEW held, NEW asid, NEW vpn \in VPN, NEW l \in Level, NEW k \in Level, l <= k,
         \A addr \in Addr : \A p, q \in held[addr] : p = q,
         NEW path \in Paths(held, asid, vpn, l), NEW base \in Dirs(held, asid, vpn, k)
  PROVE  path[k] = base
<1>1. PICK other \in Paths(held, asid, vpn, k) : base = other[k]
  BY DEF Dirs
<1> DEFINE Differ == {i \in k .. Levels - 1 : path[i] # other[i]}
<1>2. l \in Int /\ k \in Int /\ Levels \in Nat /\ 0 <= l /\ 0 <= k /\ k <= Levels - 1
  BY LevelFacts
<1>3. SUFFICES ASSUME Differ # {} PROVE FALSE
  BY <1>1, <1>2
<1>4. Levels - 1 \in Nat /\ Differ \in SUBSET (0 .. Levels - 1)
  BY <1>2, LevelFacts
<1>5. PICK i \in Differ : \A j \in Differ : j <= i
  <2> HIDE DEF Differ
  <2> QED BY <1>3, <1>4, GreatestBelow
<1>6. i \in k .. Levels - 1 /\ path[i] # other[i]
  OBVIOUS
<1>7. i # Levels - 1
  BY <1>6 DEF Paths
<1>8. i + 1 \in k + 1 .. Levels - 1 /\ i + 1 \in l + 1 .. Levels - 1 /\ (i + 1) - 1 = i
  BY <1>2, <1>6, <1>7
<1>9. path[i + 1] = other[i + 1]
  BY <1>5, <1>8, <1>2
<1> HIDE DEF Differ
<1>10. \E p \in held[<<path[i + 1], vpn[i + 1]>>] : path[i] = p.ppn
  BY <1>8 DEF Paths
<1>11. \E p \in held[<<other[i + 1], vpn[i + 1]>>] : other[i] = p.ppn
  BY <1>8 DEF Paths
<1>12. <<path[i + 1], vpn[i + 1]>> \in Addr
  <2>1. path[i + 1] \in Tables /\ i + 1 \in Level
    BY <1>2, <1>8 DEF Paths, Level
  <2> QED BY <2>1, TablesAssumption
<1> QED BY <1>6, <1>9, <1>10, <1>11, <1>12

\* So that two walks for one address that both end where no pointer is end at the
\* same level, in the same table.
LEMMA WalksMeet ==
  ASSUME NEW held, NEW asid, NEW vpn \in VPN, NEW l \in Level, NEW k \in Level,
         \A addr \in Addr : \A p, q \in held[addr] : p = q,
         NEW b \in Dirs(held, asid, vpn, l), NEW c \in Dirs(held, asid, vpn, k),
         \A p \in held[<<b, vpn[l]>>] : ~IsPointer(p),
         \A p \in held[<<c, vpn[k]>>] : ~IsPointer(p)
  PROVE  l = k /\ b = c
<1>1. PICK path \in Paths(held, asid, vpn, l) : b = path[l]
  BY DEF Dirs
<1>2. PICK other \in Paths(held, asid, vpn, k) : c = other[k]
  BY DEF Dirs
<1>3. l \in Int /\ k \in Int /\ Levels \in Int /\ l <= Levels - 1 /\ k <= Levels - 1
  BY LevelFacts
<1>4. ASSUME l < k PROVE FALSE
  <2>1. path[k] = c
    BY <1>3, <1>4, DirsUnique
  <2>2. k \in l + 1 .. Levels - 1
    BY <1>3, <1>4
  <2> QED BY <2>1, <2>2 DEF Paths
<1>5. ASSUME k < l PROVE FALSE
  <2>1. other[l] = b
    BY <1>3, <1>5, DirsUnique
  <2>2. l \in k + 1 .. Levels - 1
    BY <1>3, <1>5
  <2> QED BY <2>1, <2>2 DEF Paths
<1>6. l = k
  BY <1>3, <1>4, <1>5
<1> QED BY <1>1, <1>3, <1>6, DirsUnique

-----------------------------------------------------------------------------
(***************************************************************************)
(* Lemmas about views: how a walk starts, goes on and ends, and what stores*)
(* and SFENCE.VMA do to it.                                                *)
(***************************************************************************)
ViewOK(view) ==
  \A asid \in ASID, vpn \in VPN, addr \in Addr :
    /\ view.mem[addr] \in view.seen[asid][vpn][addr]
    /\ view.seen[asid][vpn][addr] \subseteq Held[addr]

LEMMA WalkStarts ==
  ASSUME NEW view, NEW asid \in ASID, NEW vpn
  PROVE  OnPath(view, Root[asid], Levels - 1, asid, vpn)
  BY DirsRoot DEF OnPath

LEMMA WalkDescends ==
  ASSUME NEW view, ViewOK(view), NEW asid \in ASID, NEW vpn \in VPN, NEW l \in Level, l > 0,
         NEW base, OnPath(view, base, l, asid, vpn), <<base, vpn[l]>> \notin PmpDenied,
         IsPointer(view.mem[<<base, vpn[l]>>])
  PROVE  /\ l - 1 \in Level
         /\ OnPath(view, view.mem[<<base, vpn[l]>>].ppn, l - 1, asid, vpn)
<1> DEFINE addr == <<base, vpn[l]>>
           p == view.mem[addr]
<1>1. l - 1 \in Level /\ (l - 1) + 1 = l /\ l \in l .. Levels - 1
  BY LevelFacts DEF Level
<1>2. base \in Dirs(Held, asid, vpn, l) /\ addr \in Addr
  BY DirsAddr DEF OnPath
<1>3. p \in Held[addr] /\ \A v \in VPN : p \in view.seen[asid][v][addr]
  BY <1>2 DEF ViewOK
<1>4. IsPointer(p) /\ p.ppn \in Tables /\ addr \notin PmpDenied
  BY <1>2, <1>3, TablesAssumption
<1>5. p.ppn \in Dirs(Held, asid, vpn, l - 1)
  <2> HIDE DEF p
  <2> QED BY <1>2, <1>3, <1>4, DirsStep
<1>6. ASSUME NEW v \in Followed(vpn), AgreeFrom(v, vpn, l), ~Doomed(view, asid, vpn)
      PROVE  p.ppn \in Dirs(view.seen[asid][v], asid, v, l - 1)
  <2>1. AgreeFrom(v, vpn, l + 1) /\ v[l] = vpn[l] /\ v \in VPN
    BY <1>1, <1>6, LevelFacts DEF AgreeFrom, Followed
  <2>2. base \in Dirs(view.seen[asid][v], asid, v, l)
    BY <1>6, <2>1 DEF OnPath
  <2>3. p \in view.seen[asid][v][<<base, v[l]>>] /\ <<base, v[l]>> \notin PmpDenied
    BY <1>3, <1>4, <2>1
  <2> HIDE DEF p
  <2> QED BY <1>4, <2>2, <2>3, DirsStep
<1>7. ASSUME ~view.unsettled PROVE p.ppn \in Dirs(Now(view), asid, vpn, l - 1)
  <2>1. base \in Dirs(Now(view), asid, vpn, l)
    BY <1>7 DEF OnPath
  <2>2. p \in Now(view)[addr]
    BY <1>2 DEF Now
  <2> HIDE DEF p
  <2> QED BY <1>4, <2>1, <2>2, DirsStep
<1> HIDE DEF p
<1>8. OnPath(view, p.ppn, l - 1, asid, vpn)
  BY <1>1, <1>5, <1>6, <1>7 DEF OnPath
<1> QED BY <1>1, <1>8 DEF p

\* A table that holds a global page is on the way of every address space.
LEMMA GlobalIsShared ==
  ASSUME NEW view, ViewOK(view), NEW asid \in ASID, NEW vpn \in VPN, NEW l \in Level,
         NEW base \in Dirs(Held, asid, vpn, l), NEW p \in Held[<<base, vpn[l]>>], IsGlobal(p),
         NEW a \in ASID, NEW v \in VPN, AgreeFrom(v, vpn, l)
  PROVE  base \in Dirs(view.seen[a][v], a, v, l)
<1>1. base \in Dirs(Fixed, a, vpn, l)
  BY GlobalAssumption
<1>2. AgreeFrom(v, vpn, l + 1)
  BY LevelFacts DEF AgreeFrom
<1>3. base \in Dirs(Fixed, a, v, l)
  BY <1>1, <1>2, DirsAgree
<1>4. ASSUME NEW addr \in Addr, NEW q \in Fixed[addr] PROVE q \in view.seen[a][v][addr]
  <2>1. Held[addr] = {q}
    BY <1>4 DEF Fixed
  <2> QED BY <2>1 DEF ViewOK
<1> QED BY <1>3, <1>4, DirsGrow

LEMMA WalkEndsRight ==
  ASSUME NEW view, ViewOK(view), NEW asid \in ASID, NEW vpn \in VPN, NEW l \in Level,
         NEW base, OnPath(view, base, l, asid, vpn), <<base, vpn[l]>> \notin PmpDenied,
         NEW p, p = view.mem[<<base, vpn[l]>>], GoodLeaf(p, l)
  PROVE  Right(view, p, l, asid, vpn)
<1> DEFINE addr == <<base, vpn[l]>>
<1>1. base \in Dirs(Held, asid, vpn, l) /\ addr \in Addr /\ base \in Tables
  BY DirsAddr, DirsInTables DEF OnPath
<1>2. p \in Held[addr] /\ \A a \in ASID, v \in VPN : p \in view.seen[a][v][addr]
  BY <1>1 DEF ViewOK
<1>3. ASSUME NEW a \in ASID, NEW v \in Followed(vpn), a = asid \/ p.g,
             AgreeFrom(v, vpn, l), ~Doomed(view, asid, vpn)
      PROVE  base \in Dirs(view.seen[a][v], a, v, l)
  <2>1. v \in VPN
    BY DEF Followed
  <2>2. CASE a = asid
    <3>1. AgreeFrom(v, vpn, l + 1)
      BY <1>3, LevelFacts DEF AgreeFrom
    <3> QED BY <1>3, <2>2, <3>1 DEF OnPath
  <2>3. CASE p.g
    <3>1. IsGlobal(p)
      BY <2>3 DEF IsGlobal, GoodLeaf
    <3> QED BY <1>1, <1>2, <1>3, <2>1, <3>1, GlobalIsShared
  <2> QED BY <1>3, <2>2, <2>3
<1>4. ~IsPointer(p)
  BY DEF GoodLeaf, IsLeaf, IsPointer
<1>5. \A v \in Followed(vpn) : v \in VPN
  BY DEF Followed
<1>6. view.unsettled \/ base \in Dirs(Now(view), asid, vpn, l)
  BY DEF OnPath
<1>7. Backed(view, base, p, l, asid, vpn)
  BY <1>1, <1>2, <1>3, <1>4, <1>5, <1>6 DEF Backed
<1> QED BY <1>1, <1>7 DEF Right

LEMMA WalkFaults ==
  ASSUME NEW view, ViewOK(view), NEW asid \in ASID, NEW vpn \in VPN, NEW l \in Level,
         NEW base, OnPath(view, base, l, asid, vpn), ~Doomed(view, asid, vpn),
         \/ <<base, vpn[l]>> \in PmpDenied
         \/ /\ ~GoodLeaf(view.mem[<<base, vpn[l]>>], l)
            /\ ~(IsPointer(view.mem[<<base, vpn[l]>>]) /\ l > 0)
  PROVE  MayFault(view.seen[asid][vpn], asid, vpn)
<1>1. vpn \in Followed(vpn) /\ AgreeFrom(vpn, vpn, l + 1)
  BY DEF Followed, AgreeFrom
<1>2. base \in Dirs(view.seen[asid][vpn], asid, vpn, l)
  BY <1>1 DEF OnPath
<1>3. <<base, vpn[l]>> \in Addr
  BY <1>2, DirsAddr
<1>4. view.mem[<<base, vpn[l]>>] \in view.seen[asid][vpn][<<base, vpn[l]>>]
  BY <1>3 DEF ViewOK
<1> QED BY <1>2, <1>4 DEF MayFault

\* A store only adds to what a walk may read, and no walk depends on the PTE it
\* changes unless that is a pointer.
Stored(x, y) ==
  /\ y.waiting = x.waiting /\ y.req = x.req
  /\ x.unsettled => y.unsettled
  /\ \A asid \in ASID, vpn \in VPN, addr \in Addr :
       x.seen[asid][vpn][addr] \subseteq y.seen[asid][vpn][addr]
  /\ \A addr \in Addr :
       \/ y.mem[addr] = x.mem[addr]
       \/ y.unsettled
       \/ ~IsPointer(x.mem[addr]) /\ ~IsPointer(y.mem[addr])

LEMMA StoreKeepsNow ==
  ASSUME NEW x, NEW y, Stored(x, y), ~y.unsettled,
         NEW asid, NEW vpn \in VPN, NEW l \in Level
  PROVE  Dirs(Now(x), asid, vpn, l) \subseteq Dirs(Now(y), asid, vpn, l)
<1>1. \A addr \in Addr : \A p \in Now(x)[addr] : IsPointer(p) => p \in Now(y)[addr]
  BY DEF Stored, Now
<1> QED BY <1>1, DirsGrow

LEMMA StoreKeepsSeen ==
  ASSUME NEW x, NEW y, Stored(x, y), NEW asid \in ASID, NEW vpn \in VPN, NEW l \in Level
  PROVE  Dirs(x.seen[asid][vpn], asid, vpn, l) \subseteq Dirs(y.seen[asid][vpn], asid, vpn, l)
<1>1. \A addr \in Addr : x.seen[asid][vpn][addr] \subseteq y.seen[asid][vpn][addr]
  BY DEF Stored
<1> QED BY <1>1, DirsGrow

LEMMA StoreKeepsPath ==
  ASSUME NEW x, NEW y, Stored(x, y), NEW asid \in ASID, NEW vpn \in VPN, NEW l \in Level,
         NEW base, OnPath(x, base, l, asid, vpn)
  PROVE  OnPath(y, base, l, asid, vpn)
<1>1. Doomed(x, asid, vpn) <=> Doomed(y, asid, vpn)
  BY DEF Doomed, Stored
<1>2. \A v \in Followed(vpn) :
        Dirs(x.seen[asid][v], asid, v, l) \subseteq Dirs(y.seen[asid][v], asid, v, l)
  BY StoreKeepsSeen DEF Followed
<1>3. y.unsettled \/ (~x.unsettled /\ base \in Dirs(Now(y), asid, vpn, l))
  BY StoreKeepsNow DEF OnPath, Stored
<1> QED BY <1>1, <1>2, <1>3 DEF OnPath

LEMMA StoreKeepsRight ==
  ASSUME NEW x, NEW y, Stored(x, y), NEW asid \in ASID, NEW vpn \in VPN, NEW p, NEW l,
         Right(x, p, l, asid, vpn)
  PROVE  Right(y, p, l, asid, vpn)
<1>1. l \in Level
  BY DEF Right
<1>2. PICK base \in Tables : Backed(x, base, p, l, asid, vpn)
  BY DEF Right
<1> DEFINE addr == <<base, vpn[l]>>
<1>3. addr \in Addr
  BY <1>1, <1>2, DirsAddr DEF Backed
<1>4. Doomed(x, asid, vpn) <=> Doomed(y, asid, vpn)
  BY DEF Doomed, Stored
<1>5. \A a \in ASID, v \in Followed(vpn) :
        /\ Dirs(x.seen[a][v], a, v, l) \subseteq Dirs(y.seen[a][v], a, v, l)
        /\ x.seen[a][v][addr] \subseteq y.seen[a][v][addr]
  BY <1>1, <1>3, StoreKeepsSeen DEF Followed, Stored
<1>6. y.unsettled \/ (base \in Dirs(Now(y), asid, vpn, l) /\ ~IsPointer(y.mem[addr]))
  <2> SUFFICES ASSUME ~y.unsettled
               PROVE  base \in Dirs(Now(y), asid, vpn, l) /\ ~IsPointer(y.mem[addr])
    OBVIOUS
  <2>1. base \in Dirs(Now(x), asid, vpn, l) /\ ~IsPointer(x.mem[addr])
    BY <1>2 DEF Backed, Stored
  <2> QED BY <1>1, <1>3, <2>1, StoreKeepsNow DEF Stored
<1>7. Backed(y, base, p, l, asid, vpn)
  <2> HIDE DEF addr
  <2>1. \A a \in ASID, v \in Followed(vpn) :
          (a = asid \/ p.g) /\ AgreeFrom(v, vpn, l) =>
            \/ Doomed(y, asid, vpn)
            \/ base \in Dirs(y.seen[a][v], a, v, l) /\ p \in y.seen[a][v][addr]
    BY <1>2, <1>4, <1>5 DEF Backed, addr
  <2> QED BY <1>2, <1>6, <2>1 DEF Backed, addr
<1> QED BY <1>2, <1>7 DEF Right

\* SFENCE.VMA makes a walk forget old PTEs; a walk that may have used one makes an
\* entry that the SFENCE will remove.
Fenced(x, y) ==
  /\ y.mem = x.mem
  /\ ~x.waiting /\ y.waiting
  /\ y.req \in SfenceReqs
  /\ x.unsettled => y.unsettled
  /\ \A asid \in ASID, vpn \in VPN, addr \in Addr :
       y.seen[asid][vpn][addr] =
         IF Covers(y.req, asid, vpn)
         THEN {x.mem[addr]} \cup Unordered(y.req, x.seen[asid][vpn][addr])
         ELSE x.seen[asid][vpn][addr]
  /\ ViewOK(y)

\* What an SFENCE.VMA covers of an entry's own address space, it also removes.
LEMMA CoveredIsDoomed ==
  ASSUME NEW x, NEW y, Fenced(x, y), NEW asid, NEW vpn, NEW v \in Followed(vpn),
         Covers(y.req, asid, v)
  PROVE  Doomed(y, asid, vpn)
<1>1. y.waiting /\ y.req \in SfenceReqs /\ y.req.type \in {"ALL", "ASID", "VPN", "ASID_VPN"}
  BY SfenceAssumption DEF Fenced
<1>2. ASSUME y.req.type \in {"VPN", "ASID_VPN"} PROVE v = y.req.vpn /\ v = vpn
  <2>1. v = y.req.vpn
    BY <1>2 DEF Covers
  <2>2. y.req.vpn \in FlushedVPNs
    BY <1>1, <1>2 DEF FlushedVPNs
  <2> QED BY <2>1, <2>2 DEF Followed
<1> QED BY <1>1, <1>2 DEF Doomed, Covers

LEMMA FenceKeepsSeen ==
  ASSUME NEW x, NEW y, Fenced(x, y), NEW asid \in ASID, NEW vpn \in VPN,
         ~Covers(y.req, asid, vpn), NEW l \in Level
  PROVE  Dirs(x.seen[asid][vpn], asid, vpn, l) \subseteq Dirs(y.seen[asid][vpn], asid, vpn, l)
<1>1. \A addr \in Addr : x.seen[asid][vpn][addr] \subseteq y.seen[asid][vpn][addr]
  BY DEF Fenced
<1> QED BY <1>1, DirsGrow

LEMMA FenceKeepsPath ==
  ASSUME NEW x, NEW y, Fenced(x, y), NEW asid \in ASID, NEW vpn \in VPN, NEW l \in Level,
         NEW base, OnPath(x, base, l, asid, vpn)
  PROVE  OnPath(y, base, l, asid, vpn)
<1>1. ~Doomed(x, asid, vpn)
  BY DEF Doomed, Fenced
<1>2. ASSUME NEW v \in Followed(vpn), AgreeFrom(v, vpn, l + 1), ~Doomed(y, asid, vpn)
      PROVE  base \in Dirs(y.seen[asid][v], asid, v, l)
  <2>1. v \in VPN /\ ~Covers(y.req, asid, v)
    BY <1>2, CoveredIsDoomed DEF Followed
  <2>2. base \in Dirs(x.seen[asid][v], asid, v, l)
    BY <1>1, <1>2 DEF OnPath
  <2> QED BY <2>1, <2>2, FenceKeepsSeen
<1>3. y.unsettled \/ base \in Dirs(Now(y), asid, vpn, l)
  BY DEF OnPath, Fenced, Now
<1> QED BY <1>2, <1>3 DEF OnPath

LEMMA FenceKeepsRight ==
  ASSUME NEW x, NEW y, Fenced(x, y), NEW asid \in ASID, NEW vpn \in VPN, NEW p, NEW l,
         Right(x, p, l, asid, vpn)
  PROVE  Right(y, p, l, asid, vpn)
<1>1. l \in Level /\ GoodLeaf(p, l)
  BY DEF Right
<1>2. PICK base \in Tables : Backed(x, base, p, l, asid, vpn)
  BY DEF Right
<1> DEFINE addr == <<base, vpn[l]>>
<1>3. /\ base \in Dirs(Held, asid, vpn, l) /\ addr \in Addr /\ p \in Held[addr]
      /\ ~Doomed(x, asid, vpn)
  BY <1>1, <1>2, DirsAddr DEF Backed, Doomed, Fenced
<1>4. ASSUME NEW a \in ASID, NEW v \in Followed(vpn), a = asid \/ p.g,
             AgreeFrom(v, vpn, l), ~Doomed(y, asid, vpn)
      PROVE  base \in Dirs(y.seen[a][v], a, v, l) /\ p \in y.seen[a][v][addr]
  <2>1. v \in VPN
    BY DEF Followed
  <2>2. base \in Dirs(x.seen[a][v], a, v, l) /\ p \in x.seen[a][v][addr]
    BY <1>2, <1>3, <1>4 DEF Backed
  <2>3. CASE ~Covers(y.req, a, v)
    <3>1. p \in y.seen[a][v][addr]
      BY <1>3, <2>1, <2>2, <2>3 DEF Fenced
    <3> QED BY <1>1, <2>1, <2>2, <2>3, <3>1, FenceKeepsSeen
  <2>4. CASE Covers(y.req, a, v)
    <3>1. a # asid /\ p.g
      BY <1>4, <2>4, CoveredIsDoomed
    <3>2. IsGlobal(p)
      BY <1>1, <3>1 DEF GoodLeaf, IsGlobal
    <3>3. base \in Dirs(y.seen[a][v], a, v, l)
      BY <1>1, <1>3, <1>4, <2>1, <3>2, GlobalIsShared DEF Fenced
    <3>4. y.req.type = "ASID"
      <4>1. y.req.type \in {"ALL", "ASID", "VPN", "ASID_VPN"} /\ y.req \in SfenceReqs /\ y.waiting
        BY SfenceAssumption DEF Fenced
      <4>2. ASSUME y.req.type \in {"VPN", "ASID_VPN"} PROVE FALSE
        <5>1. v = y.req.vpn /\ y.req.vpn \in FlushedVPNs
          BY <2>4, <4>1, <4>2 DEF Covers, FlushedVPNs
        <5>2. vpn = y.req.vpn
          BY <5>1 DEF Followed
        <5> QED BY <1>4, <4>1, <4>2, <5>2 DEF Doomed
      <4>3. y.req.type # "ALL"
        BY <1>4, <4>1 DEF Doomed
      <4> QED BY <4>1, <4>2, <4>3
    <3>5. p \in y.seen[a][v][addr]
      BY <1>3, <2>1, <2>2, <2>4, <3>2, <3>4 DEF Fenced, Unordered
    <3> QED BY <3>3, <3>5
  <2> QED BY <2>3, <2>4
<1>5. y.unsettled \/ (base \in Dirs(Now(y), asid, vpn, l) /\ ~IsPointer(y.mem[addr]))
  BY <1>2 DEF Backed, Fenced, Now
<1>6. Backed(y, base, p, l, asid, vpn)
  <2> HIDE DEF addr
  <2> QED BY <1>2, <1>4, <1>5 DEF Backed, addr
<1> QED BY <1>1, <1>6 DEF Right

\* What the SFENCE.VMA leaves is right without it.
LEMMA DoneKeepsRight ==
  ASSUME NEW x, NEW y, y.mem = x.mem, y.seen = x.seen, ~y.waiting,
         x.unsettled => y.unsettled \/ (x.waiting /\ x.req.type = "ALL"),
         NEW asid, NEW vpn, ~Doomed(x, asid, vpn), NEW p, NEW l, Right(x, p, l, asid, vpn)
  PROVE  Right(y, p, l, asid, vpn)
<1>1. x.unsettled => y.unsettled
  BY DEF Doomed
<1>2. PICK base \in Tables : Backed(x, base, p, l, asid, vpn)
  BY DEF Right
<1>3. Now(x) = Now(y)
  BY DEF Now
<1>4. Backed(y, base, p, l, asid, vpn)
  BY <1>1, <1>2, <1>3 DEF Backed
<1> QED BY <1>4 DEF Right

\* A right leaf is an answer for each address an entry made of it matches, once no
\* SFENCE.VMA waits.
LEMMA RightAnswers ==
  ASSUME NEW view, ~view.waiting, NEW asid \in ASID, NEW vpn \in VPN, NEW p, NEW l,
         Right(view, p, l, asid, vpn),
         NEW a \in ASID, NEW v \in VPN, a = asid \/ p.g, AgreeFrom(v, vpn, l)
  PROVE  MayAnswer(view.seen[a][v], a, v, p, T!translate(p, l, v))
<1>1. l \in Level /\ GoodLeaf(p, l)
  BY DEF Right
<1>2. PICK base \in Tables : Backed(view, base, p, l, asid, vpn)
  BY DEF Right
<1>3. l \in l .. Levels - 1 /\ v[l] = vpn[l]
  BY <1>1, LevelFacts DEF AgreeFrom
<1>4. v \in Followed(vpn)
  <2> SUFFICES ASSUME v # vpn, v \in FlushedVPNs PROVE FALSE
    BY DEF Followed
  <2>1. l # 0
    <3> SUFFICES ASSUME l = 0 PROVE v = vpn
      OBVIOUS
    <3>1. v \in [Level -> Part] /\ vpn \in [Level -> Part]
      BY TablesAssumption
    <3>2. \A k \in Level : v[k] = vpn[k]
      BY DEF AgreeFrom, Level
    <3> QED BY <3>1, <3>2
  <2>2. PICK req \in SfenceReqs : req.type \in {"VPN", "ASID_VPN"} /\ v = req.vpn
    BY DEF FlushedVPNs
  <2>3. AgreeFrom(v, vpn, l + 1)
    BY <1>1, LevelFacts DEF AgreeFrom
  <2>4. base \in Dirs(Held, asid, v, l) /\ p \in Held[<<base, v[l]>>]
    BY <1>1, <1>2, <1>3, <2>3, DirsAgree DEF Backed
  <2>5. IsLeaf(p)
    BY <1>1 DEF GoodLeaf
  <2> QED BY <1>1, <2>1, <2>2, <2>4, <2>5, SfenceAssumption
<1>5. /\ base \in Dirs(view.seen[a][v], a, v, l)
      /\ p \in view.seen[a][v][<<base, v[l]>>]
      /\ <<base, v[l]>> \notin PmpDenied
  BY <1>2, <1>3, <1>4 DEF Backed, Doomed
<1>6. T!translate(p, l, v) = [i \in Level |-> IF i < l THEN v[i] ELSE p.ppn[i]]
  BY DEF T!translate, Level
<1> QED BY <1>1, <1>5, <1>6 DEF MayAnswer

\* Where a right leaf is now, for any address that an entry made of it matches.
InPlace(view, base, p, l, asid, vpn) ==
  /\ base \in Dirs(Now(view), asid, vpn, l)
  /\ p \in Held[<<base, vpn[l]>>]
  /\ \A q \in Now(view)[<<base, vpn[l]>>] : ~IsPointer(q)
  /\ IsGlobal(p) => \A q \in Held[<<base, vpn[l]>>] : IsLeaf(q) => q.g

LEMMA RightIsInPlace ==
  ASSUME NEW view, ViewOK(view), ~view.unsettled,
         NEW asid \in ASID, NEW vpn \in VPN, NEW p, NEW l, Right(view, p, l, asid, vpn),
         NEW a \in ASID, NEW v \in VPN, a = asid \/ p.g, AgreeFrom(v, vpn, l)
  PROVE  \E base : InPlace(view, base, p, l, a, v)
<1>1. l \in Level /\ GoodLeaf(p, l)
  BY DEF Right
<1>2. PICK base \in Tables : Backed(view, base, p, l, asid, vpn)
  BY DEF Right
<1>3. v[l] = vpn[l] /\ AgreeFrom(v, vpn, l + 1)
  BY <1>1, LevelFacts DEF AgreeFrom
<1>4. base \in Dirs(Held, asid, vpn, l) /\ p \in Held[<<base, vpn[l]>>]
  BY <1>2 DEF Backed
<1>5. <<base, vpn[l]>> \in Addr
  BY <1>1, <1>4, DirsAddr
<1>6. \A q \in Now(view)[<<base, vpn[l]>>] : ~IsPointer(q)
  BY <1>2, <1>5 DEF Backed, Now
<1>7. IsGlobal(p) => \A q \in Held[<<base, vpn[l]>>] : IsLeaf(q) => q.g
  BY <1>1, <1>4, GlobalAssumption
<1>8. base \in Dirs(Now(view), a, v, l)
  <2>1. CASE a = asid
    <3>1. base \in Dirs(Now(view), asid, vpn, l)
      BY <1>2 DEF Backed
    <3> QED BY <1>1, <1>3, <2>1, <3>1, DirsAgree
  <2>2. CASE p.g
    <3>1. IsGlobal(p)
      BY <1>1, <2>2 DEF GoodLeaf, IsGlobal
    <3>2. base \in Dirs(Fixed, a, vpn, l)
      BY <1>1, <1>4, <3>1, GlobalAssumption
    <3>3. base \in Dirs(Fixed, a, v, l)
      BY <1>1, <1>3, <3>2, DirsAgree
    <3>4. \A addr \in Addr : Fixed[addr] \subseteq Now(view)[addr]
      BY DEF Fixed, Now, ViewOK
    <3> QED BY <1>1, <3>3, <3>4, DirsGrow
  <2> QED BY <2>1, <2>2
<1>9. InPlace(view, base, p, l, a, v)
  BY <1>3, <1>4, <1>6, <1>7, <1>8 DEF InPlace
<1> QED BY <1>9

\* Two entries that match one address are of one page, at one level.
LEMMA MatchesOverlap ==
  ASSUME NEW view, ViewOK(view), ~view.unsettled, NEW e, NEW f,
         RightEntry(view, e), RightEntry(view, f), NEW a \in ASID, NEW v \in VPN,
         MatchesReq(e, a, v), MatchesReq(f, a, v)
  PROVE  Overlap(e, f)
<1>1. /\ e.asid \in ASID /\ e.vpn \in VPN /\ Right(view, e.pte, e.lvl, e.asid, e.vpn)
      /\ f.asid \in ASID /\ f.vpn \in VPN /\ Right(view, f.pte, f.lvl, f.asid, f.vpn)
  BY DEF RightEntry
<1>2. e.lvl \in Level /\ f.lvl \in Level
  BY <1>1 DEF Right
<1>3. /\ (a = e.asid \/ e.pte.g) /\ AgreeFrom(v, e.vpn, e.lvl)
      /\ (a = f.asid \/ f.pte.g) /\ AgreeFrom(v, f.vpn, f.lvl)
  BY DEF MatchesReq, AgreeFrom
<1>4. PICK b : InPlace(view, b, e.pte, e.lvl, a, v)
  BY <1>1, <1>3, RightIsInPlace
<1>5. PICK c : InPlace(view, c, f.pte, f.lvl, a, v)
  BY <1>1, <1>3, RightIsInPlace
<1>6. \A addr \in Addr : \A p, q \in Now(view)[addr] : p = q
  BY DEF Now
<1>7. e.lvl = f.lvl
  BY <1>2, <1>4, <1>5, <1>6, WalksMeet DEF InPlace
<1> QED BY <1>7 DEF MatchesReq, Overlap, AgreeFrom

\* A walk made for an address that the entry f does not match makes no entry that
\* overlaps with f.
LEMMA NewIsApart ==
  ASSUME NEW view, ViewOK(view), ~view.unsettled, NEW e, NEW f,
         RightEntry(view, e), RightEntry(view, f), ~MatchesReq(f, e.asid, e.vpn)
  PROVE  ~Overlap(e, f) /\ ~Overlap(f, e)
<1> SUFFICES ASSUME Overlap(e, f) \/ Overlap(f, e) PROVE FALSE
  OBVIOUS
<1>1. /\ e.asid \in ASID /\ e.vpn \in VPN /\ Right(view, e.pte, e.lvl, e.asid, e.vpn)
      /\ f.asid \in ASID /\ f.vpn \in VPN /\ Right(view, f.pte, f.lvl, f.asid, f.vpn)
  BY DEF RightEntry
<1>2. e.lvl \in Level /\ GoodLeaf(e.pte, e.lvl) /\ GoodLeaf(f.pte, f.lvl)
  BY <1>1 DEF Right
<1>3. e.lvl = f.lvl /\ AgreeFrom(e.vpn, f.vpn, e.lvl) /\ AgreeFrom(f.vpn, e.vpn, e.lvl)
  BY DEF Overlap, AgreeFrom
<1>4. f.asid # e.asid /\ ~f.pte.g
  BY <1>3 DEF MatchesReq
<1>5. e.pte.g
  BY <1>4 DEF Overlap
<1>6. IsGlobal(e.pte)
  BY <1>2, <1>5 DEF GoodLeaf, IsGlobal
<1>7. PICK b : InPlace(view, b, e.pte, e.lvl, f.asid, f.vpn)
  BY <1>1, <1>3, <1>5, <1>6, RightIsInPlace
<1>8. AgreeFrom(f.vpn, f.vpn, f.lvl)
  BY DEF AgreeFrom
<1>9. PICK c : InPlace(view, c, f.pte, f.lvl, f.asid, f.vpn)
  BY <1>1, <1>8, RightIsInPlace
<1>10. \A addr \in Addr : \A p, q \in Now(view)[addr] : p = q
  BY DEF Now
<1>11. b = c
  BY <1>1, <1>2, <1>3, <1>7, <1>9, <1>10, WalksMeet DEF InPlace
<1> QED BY <1>2, <1>3, <1>4, <1>6, <1>7, <1>9, <1>11 DEF GoodLeaf, InPlace

-----------------------------------------------------------------------------
(***************************************************************************)
(* The steps.  Each lemma is about CInv in one action, from IInv before.   *)
(***************************************************************************)
LEMMA SameView ==
  ASSUME UNCHANGED <<mem, seen, restructured, rff_is_pending_sfence, dff_sfence_req>>,
         (rff_state = "ST_SFENCE_DONE") <=> (rff_state' = "ST_SFENCE_DONE")
  PROVE  View' = View
  BY DEF View, Waiting

LEMMA TablesViewOK == ASSUME TablesOK PROVE ViewOK(View)
  BY DEF TablesOK, ViewOK, View

\* The TLB takes a request.
LEMMA RequestKeeps ==
  ASSUME IInv, CInv, NEW vpn \in VPN, Request(vpn)
  PROVE  CInv'
<1> USE DEF Request, T!AcceptReq, ptw_vars, ctx_vars
<1>1. View' = View
  BY SameView
<1>2. w_state = "ST_READY" /\ rff_state = "ST_READY"
  BY DEF CInv, WalkOK, IInv, WalkerInStep
<1>3. Kinds' /\ TablesOK'
  BY DEF CInv, Kinds, TablesOK
<1>4. WalkOK' /\ RespOK'
  BY <1>2 DEF CInv, WalkOK, RespOK
<1>5. EntriesOK' /\ EntriesApart'
  BY <1>1, <1>2 DEF CInv, EntriesOK, EntriesApart
<1> QED BY <1>3, <1>4, <1>5 DEF CInv

\* The cache takes the response.
LEMMA RespondKeeps ==
  ASSUME IInv, CInv, Respond
  PROVE  CInv'
<1> USE DEF Respond, T!Respond, ptw_vars, ctx_vars, hist_vars
<1>1. rff_state \in {"ST_READY", "ST_TLB_RET"} /\ rff_state' = "ST_READY"
  BY DEF T!tlb2cc_resp_valid
<1>2. View' = View
  BY <1>1, SameView
<1>3. w_state = "ST_READY"
  BY <1>1 DEF CInv, WalkOK, IInv, WalkerInStep
<1>4. Kinds' /\ TablesOK'
  BY DEF CInv, Kinds, TablesOK
<1>5. WalkOK' /\ RespOK'
  BY <1>1, <1>3 DEF CInv, WalkOK, RespOK
<1>6. EntriesOK' /\ EntriesApart'
  BY <1>1, <1>2 DEF CInv, EntriesOK, EntriesApart
<1> QED BY <1>4, <1>5, <1>6 DEF CInv

\* A miss: no entry matches the request.
LEMMA MissKeeps ==
  ASSUME IInv, CInv, TlbStep, T!Miss
  PROVE  CInv'
<1> USE DEF TlbStep, T!Miss, ptw_vars, ctx_vars, hist_vars
<1>1. View' = View
  BY SameView
<1>2. w_state = "ST_READY"
  BY DEF CInv, WalkOK, IInv, WalkerInStep
<1>3. Kinds' /\ TablesOK'
  BY DEF CInv, Kinds, TablesOK
<1>4. WalkOK' /\ RespOK'
  BY <1>2 DEF CInv, WalkOK, RespOK
<1>5. ASSUME NEW i \in rff_tlb_valid
      PROVE  ~MatchesReq(dff_tlb[i], satp_asid, dff_cc2tlb_req.vpn)
  <2>1. i \in IF cfg_bypass_tlb THEN {0} ELSE T!Entries
    BY DEF CInv, EntriesOK, T!Entries
  <2>2. i \notin T!tlb_match
    BY DEF T!is_tlb_hit
  <2>3. ~T!entry_match(i, satp_asid, dff_cc2tlb_req.vpn)
    BY <2>1, <2>2 DEF T!tlb_match
  <2> QED BY <2>3 DEF T!entry_match, T!vpn_match, MatchesReq, AgreeFrom
<1>6. EntriesOK' /\ EntriesApart'
  BY <1>1, <1>5 DEF CInv, EntriesOK, EntriesApart
<1> QED BY <1>3, <1>4, <1>6 DEF CInv

LEMMA StartSfenceKeeps ==
  ASSUME IInv, CInv, TlbStep, T!StartSfence
  PROVE  CInv'
<1> USE DEF TlbStep, T!StartSfence, ptw_vars, ctx_vars, hist_vars
<1>1. View' = View
  BY SameView
<1>2. w_state = "ST_READY"
  BY DEF CInv, WalkOK, IInv, WalkerInStep
<1>3. Kinds' /\ TablesOK' /\ WalkOK' /\ RespOK'
  BY <1>2 DEF CInv, Kinds, TablesOK, WalkOK, RespOK
<1>4. EntriesOK' /\ EntriesApart'
  BY <1>1 DEF CInv, EntriesOK, EntriesApart
<1> QED BY <1>3, <1>4 DEF CInv

\* The entries go that the SFENCE.VMA is about; what stays is right without it.
LEMMA DoSfenceKeeps ==
  ASSUME IInv, CInv, TlbStep, T!DoSfence
  PROVE  CInv'
<1> USE DEF TlbStep, T!DoSfence, ptw_vars, ctx_vars, hist_vars
<1>1. w_state = "ST_READY"
  BY DEF CInv, WalkOK, IInv, WalkerInStep
<1>2. Kinds' /\ TablesOK' /\ WalkOK' /\ RespOK'
  BY <1>1 DEF CInv, Kinds, TablesOK, WalkOK, RespOK
<1>3. /\ View.waiting /\ ~View'.waiting
      /\ View'.mem = View.mem /\ View'.seen = View.seen
      /\ View.unsettled => View'.unsettled \/ View.req.type = "ALL"
      /\ View'.unsettled => View.unsettled
      /\ View.req = dff_sfence_req /\ View.req \in SfenceReqs
  BY DEF View, Waiting, IInv, WalkerInStep, CInv, Kinds
<1>4. View.req.type \in {"ALL", "ASID", "VPN", "ASID_VPN"}
  BY <1>3, SfenceAssumption
<1>5. ASSUME NEW i \in rff_tlb_valid'
      PROVE  /\ i \in rff_tlb_valid
             /\ ~Doomed(View, dff_tlb[i].asid, dff_tlb[i].vpn)
             /\ View.req.type # "ALL"
  <2>1. i \in rff_tlb_valid /\ ~T!sfence_hits(i)
    OBVIOUS
  <2> QED BY <1>3, <1>4, <2>1 DEF T!sfence_hits, Doomed
<1>6. ASSUME NEW i \in rff_tlb_valid' PROVE RightEntry(View', dff_tlb[i])
  <2>1. RightEntry(View, dff_tlb[i])
    BY <1>5 DEF CInv, EntriesOK
  <2> QED BY <1>3, <1>5, <2>1, DoneKeepsRight DEF RightEntry
<1>7. EntriesOK'
  BY <1>5, <1>6 DEF CInv, EntriesOK
<1>8. EntriesApart'
  BY <1>3, <1>5 DEF CInv, EntriesApart
<1> QED BY <1>2, <1>7, <1>8 DEF CInv

LEMMA SfenceDoneKeeps ==
  ASSUME IInv, CInv, TlbStep, T!SfenceDone
  PROVE  CInv'
<1> USE DEF TlbStep, T!SfenceDone, ptw_vars, ctx_vars, hist_vars
<1>1. View' = View
  BY DEF View, Waiting
<1>2. w_state = "ST_READY"
  BY DEF CInv, WalkOK, IInv, WalkerInStep
<1>3. Kinds' /\ TablesOK' /\ WalkOK' /\ RespOK'
  BY <1>2 DEF CInv, Kinds, TablesOK, WalkOK, RespOK
<1>4. EntriesOK' /\ EntriesApart'
  BY <1>1 DEF CInv, EntriesOK, EntriesApart
<1> QED BY <1>3, <1>4 DEF CInv

\* A walk starts at the root of the current address space.
LEMMA WalkStartKeeps ==
  ASSUME IInv, CInv, WalkStart
  PROVE  CInv'
<1> USE DEF WalkStart, T!PtwTakes, W!Accept, ctx_vars, hist_vars
<1>1. View' = View
  BY SameView
<1>2. rff_cc2tlb_req_valid /\ dff_cc2tlb_req.vpn \in VPN /\ satp_asid \in ASID
  BY DEF IInv, WalkerInStep, CInv, Kinds
<1>3. Kinds' /\ TablesOK' /\ RespOK'
  BY DEF CInv, Kinds, TablesOK, RespOK
<1>4. w_base' = Root[satp_asid] /\ w_lvl' = Levels - 1
  BY DEF CInv, Kinds
<1>5. OnPath(View', w_base', w_lvl', satp_asid', dff_cc2tlb_req'.vpn) /\ w_lvl' \in Level
  BY <1>1, <1>2, <1>4, WalkStarts, LevelFacts
<1>6. WalkOK'
  BY <1>5 DEF CInv, WalkOK
<1>7. EntriesOK' /\ EntriesApart'
  BY <1>1 DEF CInv, EntriesOK, EntriesApart
<1> QED BY <1>3, <1>6, <1>7 DEF CInv

\* While the walk goes on, the TLB waits.
LEMMA WalkFacts ==
  ASSUME IInv, CInv, w_state # "ST_READY"
  PROVE  /\ rff_state = "ST_TLB_UPDATE" /\ rff_cc2tlb_req_valid
         /\ satp_asid \in ASID /\ dff_cc2tlb_req.vpn \in VPN
         /\ w_req = dff_cc2tlb_req /\ w_req.access = "FETCH"
         /\ ViewOK(View)
         /\ fresh => ~Doomed(View, satp_asid, dff_cc2tlb_req.vpn)
         /\ View.seen = seen /\ View.mem = mem
<1>1. rff_state = "ST_TLB_UPDATE" /\ rff_cc2tlb_req_valid /\ w_req = dff_cc2tlb_req
  BY DEF IInv, WalkerInStep
<1>2. fresh => ~Doomed(View, satp_asid, dff_cc2tlb_req.vpn)
  BY DEF IInv, FreshIsFlushed, Doomed, View, Waiting
<1>3. ViewOK(View)
  BY TablesViewOK DEF CInv
<1> QED BY <1>1, <1>2, <1>3 DEF CInv, Kinds, View

\* What a step of the walker leaves alone.
LEMMA WalkFrame ==
  ASSUME CInv, UNCHANGED <<tlb_vars, ctx_vars, mem, hist_vars, w_satp_ppn>>
  PROVE  View' = View /\ Kinds' /\ TablesOK' /\ RespOK' /\ EntriesOK' /\ EntriesApart'
<1> USE DEF tlb_vars, ctx_vars, hist_vars
<1>1. View' = View
  BY SameView
<1>2. Kinds' /\ TablesOK' /\ RespOK'
  BY <1>1 DEF CInv, Kinds, TablesOK, RespOK
<1>3. EntriesOK' /\ EntriesApart'
  BY <1>1 DEF CInv, EntriesOK, EntriesApart
<1> QED BY <1>1, <1>2, <1>3

LEMMA PmpFaultKeeps ==
  ASSUME IInv, CInv, WalkStep, W!PmpFault
  PROVE  CInv'
<1> USE DEF WalkStep, W!PmpFault, tlb_vars, ctx_vars, hist_vars
<1>1. View' = View /\ Kinds' /\ TablesOK' /\ RespOK' /\ EntriesOK' /\ EntriesApart'
  BY WalkFrame
<1>2. w_lvl \in Level /\ OnPath(View, w_base, w_lvl, satp_asid, dff_cc2tlb_req.vpn)
  BY DEF CInv, WalkOK
<1>3. <<w_base, dff_cc2tlb_req.vpn[w_lvl]>> \in PmpDenied
  BY WalkFacts DEF W!pmp_excp_valid, W!pte_req_addr
<1>4. fresh => MayFault(seen[satp_asid][dff_cc2tlb_req.vpn], satp_asid, dff_cc2tlb_req.vpn)
  <2>1. ASSUME fresh
        PROVE  MayFault(View.seen[satp_asid][dff_cc2tlb_req.vpn], satp_asid, dff_cc2tlb_req.vpn)
    BY <1>2, <1>3, <2>1, WalkFacts, WalkFaults
  <2> QED BY <2>1, WalkFacts
<1>5. WalkOK'
  BY <1>4 DEF WalkOK
<1> QED BY <1>1, <1>5 DEF CInv

LEMMA SendReqKeeps ==
  ASSUME IInv, CInv, WalkStep, W!SendReq
  PROVE  CInv'
<1> USE DEF WalkStep, W!SendReq, tlb_vars, ctx_vars, hist_vars
<1>1. View' = View /\ Kinds' /\ TablesOK' /\ RespOK' /\ EntriesOK' /\ EntriesApart'
  BY WalkFrame
<1>2. <<w_base, dff_cc2tlb_req.vpn[w_lvl]>> \notin PmpDenied
  BY WalkFacts DEF W!pmp_excp_valid, W!pte_req_addr
<1>3. WalkOK'
  BY <1>1, <1>2 DEF CInv, WalkOK
<1> QED BY <1>1, <1>3 DEF CInv

\* The PTE sends the walk on: an invalid one moves the registers only.
GoesOn(p) == W!descends(p) /\ ~W!faults(p)

\* The walker's checks are the architecture's (a fetch does not look at D).
LEMMA ChecksAgree ==
  ASSUME w_req.access = "FETCH", w_lvl \in Level, NEW p
  PROVE  /\ GoesOn(p) <=> IsPointer(p) /\ w_lvl > 0
         /\ W!pte_is_leaf(p) <=> IsLeaf(p)
         /\ ~GoesOn(p) => (W!faults(p) <=> ~GoodLeaf(p, w_lvl))
<1> USE DEF W!pte_is_leaf, W!pte_is_valid, IsLeaf, IsPointer, Valid
<1>1. w_lvl \in Int /\ 0 <= w_lvl /\ w_lvl <= Levels - 1 /\ Levels \in Int
  BY LevelFacts
<1>2. W!pte_is_leaf(p) <=> IsLeaf(p)
  OBVIOUS
<1>3. GoesOn(p) <=> IsPointer(p) /\ w_lvl > 0
  BY <1>1 DEF GoesOn, W!descends, W!faults, W!pte_is_page_fault
<1>4. W!misaligned_superpage(p) <=> \E i \in 0 .. w_lvl - 1 : p.ppn[i] # 0
  BY <1>1 DEF W!misaligned_superpage, W!Level
<1>5. ~GoesOn(p) => (W!faults(p) <=> ~GoodLeaf(p, w_lvl))
  BY <1>1, <1>2, <1>4 DEF GoesOn, W!descends, W!faults, W!pte_is_page_fault, GoodLeaf
<1> QED BY <1>2, <1>3, <1>5

\* A PTE arrives: the walk goes down, ends with a right leaf, or faults.
LEMMA RespKeeps ==
  ASSUME IInv, CInv, WalkStep, w_state = "ST_PTE_RESP", W!Resp(mem[W!pte_req_addr])
  PROVE  CInv'
<1> USE DEF WalkStep, W!Resp, tlb_vars, ctx_vars, hist_vars
<1> DEFINE vpn == dff_cc2tlb_req.vpn
           p == mem[<<w_base, vpn[w_lvl]>>]
<1>1. View' = View /\ Kinds' /\ TablesOK' /\ RespOK' /\ EntriesOK' /\ EntriesApart'
  BY WalkFrame
<1>2. /\ w_lvl \in Level /\ OnPath(View, w_base, w_lvl, satp_asid, vpn)
      /\ <<w_base, vpn[w_lvl]>> \notin PmpDenied /\ ~w_excp_valid
  BY DEF CInv, WalkOK
<1>3. mem[W!pte_req_addr] = p /\ p = View.mem[<<w_base, vpn[w_lvl]>>]
  BY WalkFacts DEF W!pte_req_addr
<1>4. /\ GoesOn(p) <=> IsPointer(p) /\ w_lvl > 0
      /\ W!pte_is_leaf(p) <=> IsLeaf(p)
      /\ ~GoesOn(p) => (W!faults(p) <=> ~GoodLeaf(p, w_lvl))
  BY <1>2, WalkFacts, ChecksAgree
<1>5. satp_asid \in ASID /\ vpn \in VPN /\ ViewOK(View) /\ View.seen = seen
  BY WalkFacts
<1>6. fresh => ~Doomed(View, satp_asid, vpn)
  BY WalkFacts
<1> HIDE DEF p, vpn
<1>7. CASE GoesOn(p)
  <2>1. w_lvl - 1 \in Level /\ OnPath(View, p.ppn, w_lvl - 1, satp_asid, vpn)
    BY <1>2, <1>3, <1>4, <1>5, <1>7, WalkDescends
  <2>2. w_state' = "ST_PTE_REQ" /\ w_lvl' = w_lvl - 1 /\ w_base' = p.ppn /\ ~w_excp_valid'
    BY <1>2, <1>3, <1>7 DEF GoesOn
  <2>3. WalkOK'
    BY <1>1, <2>1, <2>2 DEF WalkOK, vpn
  <2> QED BY <1>1, <2>3 DEF CInv
<1>8. CASE ~GoesOn(p)
  <2>1. w_state' = "ST_PTE_RETURN" /\ (w_excp_valid' <=> W!faults(p))
    BY <1>2, <1>3, <1>8 DEF GoesOn
  <2>2. ASSUME ~W!faults(p) PROVE Right(View, w_pte', w_lvl', satp_asid, vpn)
    <3>1. GoodLeaf(p, w_lvl) /\ IsLeaf(p)
      BY <1>4, <1>8, <2>2 DEF GoodLeaf
    <3>2. w_pte' = p /\ w_lvl' = w_lvl
      BY <1>3, <1>4, <1>8, <2>2, <3>1 DEF GoesOn
    <3> QED BY <1>2, <1>3, <1>5, <3>1, <3>2, WalkEndsRight
  <2>3. ASSUME W!faults(p), fresh PROVE MayFault(seen[satp_asid][vpn], satp_asid, vpn)
    <3>1. ~GoodLeaf(p, w_lvl) /\ ~(IsPointer(p) /\ w_lvl > 0) /\ ~Doomed(View, satp_asid, vpn)
      BY <1>4, <1>6, <1>8, <2>3
    <3>2. MayFault(View.seen[satp_asid][vpn], satp_asid, vpn)
      BY <1>2, <1>3, <1>5, <3>1, WalkFaults
    <3> QED BY <1>5, <3>2
  <2>4. WalkOK'
    BY <1>1, <2>1, <2>2, <2>3 DEF WalkOK, vpn
  <2> QED BY <1>1, <2>4 DEF CInv
<1> QED BY <1>7, <1>8

\* A set of naturals that is not empty has a least element.
LEMMA LeastBelow ==
  ASSUME NEW S \in SUBSET Nat, S # {}
  PROVE  \E m \in S : \A n \in S : m <= n
<1>1. PICK m \in S : \A n \in S : ~(<<n, m>> \in OpToRel(<, Nat))
  BY NatLessThanWellFounded, WFMin
<1>2. \A n \in S : ~(n < m)
  BY <1>1 DEF OpToRel
<1> QED BY <1>2

LEMMA ReplacedWay ==
  ASSUME NEW i \in T!replace_ways
  PROVE  i \in 0 .. NumEntries - 1 /\ (cfg_bypass_tlb => i = 0)
<1> DEFINE Free == T!Entries \ rff_tlb_valid
<1>1. NumEntries \in Nat /\ NumEntries > 0
  BY MmuAssumption
<1>2. CASE cfg_bypass_tlb \/ T!Entries \subseteq rff_tlb_valid
  BY <1>1, <1>2 DEF T!replace_ways, T!Entries
<1>3. CASE ~cfg_bypass_tlb /\ ~(T!Entries \subseteq rff_tlb_valid)
  <2>1. Free \in SUBSET Nat /\ Free # {}
    BY <1>1, <1>3 DEF T!Entries
  <2>2. \E m \in Free : \A n \in Free : m <= n
    <3> HIDE DEF Free
    <3> QED BY <2>1, LeastBelow
  <2>3. i = CHOOSE m \in Free : \A n \in Free : m <= n
    BY <1>3 DEF T!replace_ways
  <2>4. i \in Free
    BY <2>2, <2>3
  <2> QED BY <1>3, <2>4 DEF T!Entries
<1> QED BY <1>2, <1>3

\* The walk ends: a leaf becomes an entry, a fault does not.
LEMMA WalkEndKeeps ==
  ASSUME IInv, CInv, WalkEnd
  PROVE  CInv'
<1> USE DEF WalkEnd, T!PtwAnswers, W!Return, ctx_vars, hist_vars
<1> DEFINE vpn == dff_cc2tlb_req.vpn
           new == [asid |-> satp_asid, vpn |-> vpn, pte |-> w_pte, lvl |-> w_lvl]
<1>1. View' = View
  BY SameView
<1>2. satp_asid \in ASID /\ vpn \in VPN /\ ViewOK(View) /\ w_state = "ST_PTE_RETURN"
  BY WalkFacts
<1>3. Kinds' /\ TablesOK'
  BY DEF CInv, Kinds, TablesOK
<1>4. /\ ~w_excp_valid => Right(View, w_pte, w_lvl, satp_asid, vpn)
      /\ w_excp_valid /\ fresh => MayFault(seen[satp_asid][vpn], satp_asid, vpn)
  BY <1>2 DEF CInv, WalkOK
<1>5. dff_ptw2tlb_resp' = [pte |-> w_pte, lvl |-> w_lvl, excp |-> w_excp_valid]
  OBVIOUS
<1>6. RespOK'
  BY <1>1, <1>4, <1>5 DEF RespOK
<1>7. WalkOK'
  BY DEF WalkOK
<1>8. ASSUME NEW i \in rff_tlb_valid PROVE ~MatchesReq(dff_tlb[i], satp_asid, vpn)
  BY DEF CInv, EntriesApart
<1>9. CASE w_excp_valid
  <2>1. UNCHANGED <<rff_tlb_valid, dff_tlb>>
    BY <1>9 DEF T!do_update_tlb
  <2>2. EntriesOK' /\ EntriesApart'
    BY <1>1, <2>1 DEF CInv, EntriesOK, EntriesApart
  <2> QED BY <1>3, <1>6, <1>7, <2>2 DEF CInv
<1>10. CASE ~w_excp_valid
  <2>1. PICK i \in T!replace_ways : /\ rff_tlb_valid' = rff_tlb_valid \cup {i}
                                    /\ dff_tlb' = [dff_tlb EXCEPT ![i] = new]
    BY <1>10 DEF T!do_update_tlb
  <2>2. i \in 0 .. NumEntries - 1 /\ (cfg_bypass_tlb => i = 0)
    BY ReplacedWay
  <2>3. /\ dff_tlb' = [k \in 0 .. NumEntries - 1 |-> dff_tlb'[k]]
        /\ dff_tlb'[i] = new
        /\ \A k \in rff_tlb_valid' \ {i} : k \in rff_tlb_valid /\ dff_tlb'[k] = dff_tlb[k]
    BY <2>1, <2>2 DEF CInv, EntriesOK
  <2>4. RightEntry(View, new)
    BY <1>2, <1>4, <1>10 DEF RightEntry
  <2>5. \A k \in rff_tlb_valid : RightEntry(View, dff_tlb[k])
    BY DEF CInv, EntriesOK
  <2>6. EntriesOK'
    <3> HIDE DEF new
    <3>1. \A k \in rff_tlb_valid' : RightEntry(View', dff_tlb'[k])
      BY <1>1, <2>3, <2>4, <2>5
    <3> QED BY <2>1, <2>2, <2>3, <3>1 DEF CInv, EntriesOK
  <2>7. ASSUME ~View.unsettled, NEW k \in rff_tlb_valid
        PROVE  ~Overlap(new, dff_tlb[k]) /\ ~Overlap(dff_tlb[k], new)
    <3>1. new.asid = satp_asid /\ new.vpn = vpn
      OBVIOUS
    <3> HIDE DEF new
    <3>2. ~MatchesReq(dff_tlb[k], new.asid, new.vpn)
      BY <1>8, <3>1
    <3> QED BY <1>2, <2>4, <2>5, <2>7, <3>2, NewIsApart
  <2>8. EntriesApart'
    <3> HIDE DEF new
    <3>1. ASSUME ~View.unsettled, NEW j \in rff_tlb_valid', NEW k \in rff_tlb_valid', j # k
          PROVE  ~Overlap(dff_tlb'[j], dff_tlb'[k])
      <4>1. CASE j = i
        BY <2>3, <2>7, <3>1, <4>1
      <4>2. CASE k = i
        BY <2>3, <2>7, <3>1, <4>2
      <4>3. CASE j # i /\ k # i
        BY <2>3, <3>1, <4>3 DEF CInv, EntriesApart
      <4> QED BY <4>1, <4>2, <4>3
    <3> QED BY <1>1, <3>1 DEF EntriesApart
  <2> QED BY <1>3, <1>6, <1>7, <2>6, <2>8 DEF CInv
<1> QED BY <1>9, <1>10

\* Software stores to the tables.
LEMMA StorePteKeeps ==
  ASSUME IInv, CInv, NEW addr \in DOMAIN Choices, NEW pte \in Choices[addr], StorePte(addr, pte)
  PROVE  CInv'
<1> USE DEF StorePte, tlb_vars, ptw_vars, ctx_vars
<1>1. addr \in Addr /\ pte \in Held[addr]
  BY TablesAssumption DEF Held
<1>2. mem' \in [Addr -> PTEs] /\ \A a \in Addr : mem'[a] = IF a = addr THEN pte ELSE mem[a]
  <2>1. mem \in [Addr -> PTEs] /\ pte \in PTEs
    BY <1>1 DEF CInv, TablesOK, PTEs
  <2> QED BY <1>1, <2>1
<1>12. /\ seen' \in [ASID -> [VPN -> [Addr -> SUBSET PTEs]]]
       /\ \A asid \in ASID, vpn \in VPN, a \in Addr :
            seen'[asid][vpn][a] = IF a = addr THEN seen[asid][vpn][a] \cup {pte}
                                  ELSE seen[asid][vpn][a]
  <2> DEFINE Plus(asid, vpn) == [seen[asid][vpn] EXCEPT ![addr] = @ \cup {pte}]
  <2>1. seen \in [ASID -> [VPN -> [Addr -> SUBSET PTEs]]] /\ pte \in PTEs
    BY <1>1 DEF CInv, TablesOK, PTEs
  <2>2. ASSUME NEW asid \in ASID, NEW vpn \in VPN
        PROVE  /\ Plus(asid, vpn) \in [Addr -> SUBSET PTEs]
               /\ \A a \in Addr :
                    seen'[asid][vpn][a] = IF a = addr THEN seen[asid][vpn][a] \cup {pte}
                                          ELSE seen[asid][vpn][a]
    <3> DEFINE old == seen[asid][vpn]
    <3>1. old \in [Addr -> SUBSET PTEs]
      BY <2>1
    <3>2. seen'[asid][vpn] = [old EXCEPT ![addr] = @ \cup {pte}]
      OBVIOUS
    <3> HIDE DEF old
    <3>3. /\ [old EXCEPT ![addr] = @ \cup {pte}] \in [Addr -> SUBSET PTEs]
          /\ \A a \in Addr : seen'[asid][vpn][a] = IF a = addr THEN old[a] \cup {pte} ELSE old[a]
      BY <1>1, <2>1, <3>1, <3>2
    <3> QED BY <3>3 DEF old
  <2>3. seen' = [asid \in ASID |-> [vpn \in VPN |-> Plus(asid, vpn)]]
    OBVIOUS
  <2>5. seen' \in [ASID -> [VPN -> [Addr -> SUBSET PTEs]]]
    <3> DEFINE Row == [Addr -> SUBSET PTEs]
    <3>1. \A asid \in ASID, vpn \in VPN : Plus(asid, vpn) \in Row
      BY <2>2
    <3> HIDE DEF Plus, Row
    <3>2. [asid \in ASID |-> [vpn \in VPN |-> Plus(asid, vpn)]] \in [ASID -> [VPN -> Row]]
      BY <3>1
    <3>3. seen' \in [ASID -> [VPN -> Row]]
      BY <2>3, <3>2
    <3> QED BY <3>3 DEF Row
  <2> QED BY <2>2, <2>5
<1>3. Kinds'
  BY DEF CInv, Kinds
<1>4. TablesOK'
  <2>1. \A a \in Addr : mem'[a] \in Held[a]
    BY <1>1, <1>2 DEF CInv, TablesOK
  <2>2. \A asid \in ASID, vpn \in VPN, a \in Addr :
          mem'[a] \in seen'[asid][vpn][a] /\ seen'[asid][vpn][a] \subseteq Held[a]
    BY <1>1, <1>2, <1>12 DEF CInv, TablesOK
  <2> QED BY <1>2, <1>12, <2>1, <2>2 DEF TablesOK
<1>5. Stored(View, View')
  <2>1. View'.waiting = View.waiting /\ View'.req = View.req
    BY DEF View, Waiting
  <2>2. View'.unsettled \/ (~IsPointer(mem[addr]) /\ ~IsPointer(pte))
    BY DEF View
  <2>3. View.unsettled => View'.unsettled
    BY DEF View, Waiting
  <2>4. View.mem = mem /\ View'.mem = mem' /\ View.seen = seen /\ View'.seen = seen'
    BY DEF View
  <2> QED BY <1>2, <1>12, <2>1, <2>2, <2>3, <2>4 DEF Stored
<1>6. ASSUME fresh, MayFault(seen[satp_asid][dff_cc2tlb_req.vpn], satp_asid, dff_cc2tlb_req.vpn),
             satp_asid \in ASID, dff_cc2tlb_req.vpn \in VPN
      PROVE  MayFault(seen'[satp_asid][dff_cc2tlb_req.vpn], satp_asid, dff_cc2tlb_req.vpn)
  <2> DEFINE vpn == dff_cc2tlb_req.vpn
             old == seen[satp_asid][vpn]
             now == seen'[satp_asid][vpn]
  <2>1. \A a \in Addr : old[a] \subseteq now[a]
    BY <1>12, <1>6
  <2> HIDE DEF old, now, vpn
  <2>5. PICK l \in Level : \E base \in Dirs(old, satp_asid, vpn, l) :
          \/ <<base, vpn[l]>> \in PmpDenied
          \/ \E p \in old[<<base, vpn[l]>>] : ~GoodLeaf(p, l) /\ ~(IsPointer(p) /\ l > 0)
    BY <1>6 DEF MayFault, old, vpn
  <2>2. PICK base \in Dirs(old, satp_asid, vpn, l) :
          \/ <<base, vpn[l]>> \in PmpDenied
          \/ \E p \in old[<<base, vpn[l]>>] : ~GoodLeaf(p, l) /\ ~(IsPointer(p) /\ l > 0)
    BY <2>5
  <2>3. base \in Dirs(now, satp_asid, vpn, l) /\ <<base, vpn[l]>> \in Addr
    BY <1>6, <2>1, DirsGrow, DirsAddr DEF vpn
  <2>4. MayFault(now, satp_asid, vpn)
    BY <2>1, <2>2, <2>3 DEF MayFault
  <2> QED BY <2>4 DEF now, vpn
<1>7. ASSUME w_state # "ST_READY" \/ rff_state = "ST_TLB_RET"
      PROVE  satp_asid \in ASID /\ dff_cc2tlb_req.vpn \in VPN
  BY <1>7 DEF IInv, WalkerInStep, CInv, Kinds
<1>8. WalkOK'
  <2>1. \A base : \A l \in Level : OnPath(View, base, l, satp_asid, dff_cc2tlb_req.vpn)
          /\ w_state # "ST_READY" => OnPath(View', base, l, satp_asid, dff_cc2tlb_req.vpn)
    BY <1>5, <1>7, StoreKeepsPath
  <2>2. \A p, l : Right(View, p, l, satp_asid, dff_cc2tlb_req.vpn)
          /\ w_state # "ST_READY" => Right(View', p, l, satp_asid, dff_cc2tlb_req.vpn)
    BY <1>5, <1>7, StoreKeepsRight
  <2> QED BY <1>6, <1>7, <2>1, <2>2 DEF CInv, WalkOK
<1>9. RespOK'
  <2>1. \A p, l : Right(View, p, l, satp_asid, dff_cc2tlb_req.vpn)
          /\ rff_state = "ST_TLB_RET" => Right(View', p, l, satp_asid, dff_cc2tlb_req.vpn)
    BY <1>5, <1>7, StoreKeepsRight
  <2> QED BY <1>6, <1>7, <2>1 DEF CInv, RespOK
<1>10. EntriesOK'
  <2>1. \A e : RightEntry(View, e) => RightEntry(View', e)
    BY <1>5, StoreKeepsRight DEF RightEntry
  <2> QED BY <2>1 DEF CInv, EntriesOK
<1>11. EntriesApart'
  BY <1>5 DEF CInv, EntriesApart, Stored
<1> QED BY <1>3, <1>4, <1>8, <1>9, <1>10, <1>11 DEF CInv

\* SFENCE.VMA leaves decode: its flush is taken, as none is pending.
LEMMA SfenceKeeps ==
  ASSUME IInv, CInv, NEW req \in SfenceReqs, Sfence(req)
  PROVE  CInv'
<1> USE DEF Sfence, T!FlushReq, ptw_vars, ctx_vars
<1>1. /\ ~rff_is_pending_sfence /\ rff_is_pending_sfence' /\ dff_sfence_req' = req
      /\ ~fresh' /\ rff_state # "ST_SFENCE_DONE" /\ rff_state' = rff_state
  BY DEF IInv, SfenceNotLost, WalkerInStep
<1> DEFINE Cell(asid, vpn, addr) ==
      IF Covers(req, asid, vpn)
      THEN {mem[addr]} \cup Unordered(req, seen[asid][vpn][addr])
      ELSE seen[asid][vpn][addr]
<1>2. \A asid \in ASID, vpn \in VPN, addr \in Addr :
        /\ Cell(asid, vpn, addr) \in SUBSET PTEs
        /\ mem[addr] \in Cell(asid, vpn, addr)
        /\ Cell(asid, vpn, addr) \subseteq Held[addr]
  <2>1. \A ptes : Unordered(req, ptes) \subseteq ptes
    BY DEF Unordered
  <2>2. \A asid \in ASID, vpn \in VPN, addr \in Addr :
          /\ mem[addr] \in PTEs /\ mem[addr] \in Held[addr]
          /\ seen[asid][vpn][addr] \in SUBSET PTEs
          /\ mem[addr] \in seen[asid][vpn][addr]
          /\ seen[asid][vpn][addr] \subseteq Held[addr]
    BY DEF CInv, TablesOK
  <2> QED BY <2>1, <2>2
<1>3. seen' = [asid \in ASID |-> [vpn \in VPN |-> [addr \in Addr |-> Cell(asid, vpn, addr)]]]
  OBVIOUS
<1>4. /\ seen' \in [ASID -> [VPN -> [Addr -> SUBSET PTEs]]]
      /\ \A asid \in ASID, vpn \in VPN, addr \in Addr :
           seen'[asid][vpn][addr] = Cell(asid, vpn, addr)
  <2> HIDE DEF Cell
  <2>1. \A asid \in ASID, vpn \in VPN :
          [addr \in Addr |-> Cell(asid, vpn, addr)] \in [Addr -> SUBSET PTEs]
    BY <1>2
  <2> DEFINE Row == [Addr -> SUBSET PTEs]
  <2> HIDE DEF Row
  <2>2. seen' \in [ASID -> [VPN -> Row]]
    BY <1>3, <2>1 DEF Row
  <2> QED BY <1>3, <2>2 DEF Row
<1>5. Kinds'
  BY <1>1 DEF CInv, Kinds
<1>6. TablesOK'
  BY <1>2, <1>4 DEF CInv, TablesOK
<1>7. Fenced(View, View')
  <2>1. /\ View.mem = mem /\ View'.mem = mem /\ View.seen = seen /\ View'.seen = seen'
        /\ ~View.waiting /\ View'.waiting /\ View'.req = req
    BY <1>1 DEF View, Waiting
  <2>2. View.unsettled => View'.unsettled
    BY <1>1 DEF View, Waiting
  <2>3. ViewOK(View')
    BY <1>6 DEF TablesOK, ViewOK, View
  <2> QED BY <1>4, <2>1, <2>2, <2>3 DEF Fenced
<1>8. ASSUME w_state # "ST_READY" \/ rff_state = "ST_TLB_RET"
      PROVE  satp_asid \in ASID /\ dff_cc2tlb_req.vpn \in VPN
  BY <1>8 DEF IInv, WalkerInStep, CInv, Kinds
<1>9. WalkOK'
  <2>1. \A base : \A l \in Level : OnPath(View, base, l, satp_asid, dff_cc2tlb_req.vpn)
          /\ w_state # "ST_READY" => OnPath(View', base, l, satp_asid, dff_cc2tlb_req.vpn)
    BY <1>7, <1>8, FenceKeepsPath
  <2>2. \A p, l : Right(View, p, l, satp_asid, dff_cc2tlb_req.vpn)
          /\ w_state # "ST_READY" => Right(View', p, l, satp_asid, dff_cc2tlb_req.vpn)
    BY <1>7, <1>8, FenceKeepsRight
  <2> QED BY <1>1, <2>1, <2>2 DEF CInv, WalkOK
<1>10. RespOK'
  <2>1. \A p, l : Right(View, p, l, satp_asid, dff_cc2tlb_req.vpn)
          /\ rff_state = "ST_TLB_RET" => Right(View', p, l, satp_asid, dff_cc2tlb_req.vpn)
    BY <1>7, <1>8, FenceKeepsRight
  <2> QED BY <1>1, <2>1 DEF CInv, RespOK
<1>11. EntriesOK'
  <2>1. \A e : RightEntry(View, e) => RightEntry(View', e)
    BY <1>7, FenceKeepsRight DEF RightEntry
  <2> QED BY <2>1 DEF CInv, EntriesOK
<1>12. EntriesApart'
  BY <1>7 DEF CInv, EntriesApart, Fenced
<1> QED BY <1>5, <1>6, <1>9, <1>10, <1>11, <1>12 DEF CInv

\* satp or the privilege changes: with no request in the TLB there is no walk.
LEMMA ChangeContextKeeps ==
  ASSUME IInv, CInv, NEW c \in Contexts, ChangeContext(c[1], c[2])
  PROVE  CInv'
<1> USE DEF ChangeContext, translation_change_rdy, tlb_vars, hist_vars
<1>1. View' = View
  BY SameView
<1>2. /\ rff_state \notin {"ST_TLB_FETCH", "ST_TLB_UPDATE", "ST_TLB_RET"}
      /\ w_state = "ST_READY" /\ w_state' = "ST_READY"
      /\ rff_state' = rff_state /\ w_excp_valid' = w_excp_valid
  BY DEF IInv, WalkerInStep, W!WriteSatp
<1>3. Kinds'
  <2>1. c[1] \in ASID
    BY TablesAssumption
  <2> QED BY <2>1 DEF CInv, Kinds, W!WriteSatp
<1>4. TablesOK'
  BY DEF CInv, TablesOK
<1>5. WalkOK' /\ RespOK'
  BY <1>2 DEF CInv, WalkOK, RespOK
<1>6. EntriesOK' /\ EntriesApart'
  BY <1>1, <1>2 DEF CInv, EntriesOK, EntriesApart
<1> QED BY <1>3, <1>4, <1>5, <1>6 DEF CInv

LEMMA InitCInv == Init => CInv
<1> SUFFICES ASSUME Init PROVE CInv
  OBVIOUS
<1>1. satp_asid \in ASID
  <2>1. PICK c \in Contexts : satp_asid = c[1]
    BY DEF Init
  <2> QED BY <2>1, TablesAssumption
<1>2. /\ rff_state = "ST_READY" /\ rff_tlb_valid = {} /\ ~rff_cc2tlb_req_valid
      /\ ~rff_is_pending_sfence /\ w_state = "ST_READY" /\ ~w_excp_valid
      /\ w_satp_ppn = Root[satp_asid]
  BY DEF Init, T!TlbInit
<1>3. \A addr \in Addr : InitMem[addr] \in Held[addr] /\ InitMem[addr] \in PTEs
  BY DEF Held, PTEs
<1>4. mem \in [Addr -> PTEs] /\ \A addr \in Addr : mem[addr] = InitMem[addr]
  <2>1. mem = [addr \in Addr |-> InitMem[addr]]
    BY TablesAssumption DEF Init
  <2> QED BY <1>3, <2>1
<1>5. /\ seen \in [ASID -> [VPN -> [Addr -> SUBSET PTEs]]]
      /\ \A asid \in ASID, vpn \in VPN, addr \in Addr : seen[asid][vpn][addr] = {InitMem[addr]}
  <2> DEFINE row == [addr \in Addr |-> {InitMem[addr]}]
             Row == [Addr -> SUBSET PTEs]
  <2>1. seen = [asid \in ASID |-> [vpn \in VPN |-> row]]
    BY DEF Init
  <2>2. row \in Row
    BY <1>3
  <2>3. seen \in [ASID -> [VPN -> Row]]
    <3> HIDE DEF row, Row
    <3> QED BY <2>1, <2>2
  <2> QED BY <2>1, <2>3
<1>6. TablesOK
  BY <1>3, <1>4, <1>5 DEF TablesOK
<1>7. dff_tlb = [i \in 0 .. NumEntries - 1 |-> dff_tlb[i]]
  BY DEF Init
<1>8. Kinds /\ WalkOK /\ RespOK
  BY <1>1, <1>2 DEF Kinds, WalkOK, RespOK
<1>9. EntriesOK /\ EntriesApart
  BY <1>2, <1>7 DEF EntriesOK, EntriesApart
<1> QED BY <1>6, <1>8, <1>9 DEF CInv

LEMMA StutterKeeps == ASSUME CInv, UNCHANGED vars PROVE CInv'
<1> USE DEF vars, tlb_vars, ptw_vars, ctx_vars, hist_vars
<1>1. View' = View
  BY SameView
<1>2. Kinds' /\ TablesOK' /\ WalkOK' /\ RespOK'
  BY <1>1 DEF CInv, Kinds, TablesOK, WalkOK, RespOK
<1>3. EntriesOK' /\ EntriesApart'
  BY <1>1 DEF CInv, EntriesOK, EntriesApart
<1> QED BY <1>2, <1>3 DEF CInv

LEMMA CInductive == Spec => [](IInv /\ CInv)
<1>1. IInv /\ CInv /\ [Next]_vars => CInv'
  <2> SUFFICES ASSUME IInv, CInv, [Next]_vars PROVE CInv'
    OBVIOUS
  <2>1. CASE TlbStep
    BY <2>1, MissKeeps, StartSfenceKeeps, DoSfenceKeeps, SfenceDoneKeeps DEF TlbStep
  <2>2. CASE WalkStep
    BY <2>2, PmpFaultKeeps, SendReqKeeps, RespKeeps DEF WalkStep
  <2> QED BY <2>1, <2>2, RequestKeeps, RespondKeeps, WalkStartKeeps, WalkEndKeeps,
             StorePteKeeps, SfenceKeeps, ChangeContextKeeps, StutterKeeps DEF Next
<1> QED BY <1>1, Inductive, InitCInv, PTL DEF Spec

-----------------------------------------------------------------------------
\* Every entry that an SFENCE.VMA leaves is right for every address it matches, in
\* every address space: its page and its permissions are what a walk for that
\* address may find, all of whose reads fall after the last SFENCE.VMA about it.
THEOREM EntriesAreCoherent == Spec => []EntriesCoherent
<1>1. CInv => EntriesCoherent
  <2> SUFFICES ASSUME CInv, ~rff_is_pending_sfence,
                      NEW i \in rff_tlb_valid, NEW asid \in ASID, NEW vpn \in VPN,
                      T!entry_match(i, asid, vpn)
               PROVE  MayAnswer(seen[asid][vpn], asid, vpn, dff_tlb[i].pte,
                                T!translate(dff_tlb[i].pte, dff_tlb[i].lvl, vpn))
    BY DEF EntriesCoherent
  <2> DEFINE e == dff_tlb[i]
  <2>1. ~View.waiting /\ View.seen = seen
    BY DEF View, Waiting
  <2>2. e.asid \in ASID /\ e.vpn \in VPN /\ Right(View, e.pte, e.lvl, e.asid, e.vpn)
    BY DEF CInv, EntriesOK, RightEntry
  <2>3. (asid = e.asid \/ e.pte.g) /\ AgreeFrom(vpn, e.vpn, e.lvl)
    BY DEF T!entry_match, T!vpn_match, AgreeFrom
  <2> QED BY <2>1, <2>2, <2>3, RightAnswers
<1> QED BY <1>1, CInductive, PTL

\* The entry of a hit is one of those that match.
LEMMA HitMatches ==
  ASSUME CInv, T!is_tlb_hit
  PROVE  T!tlb_match_wyid \in T!tlb_match
<1>1. T!tlb_match \subseteq 0 .. NumEntries - 1 /\ NumEntries - 1 \in Nat
  BY MmuAssumption DEF T!tlb_match, T!Entries
<1>2. \E i \in T!tlb_match : \A j \in T!tlb_match : j <= i
  BY <1>1, GreatestBelow DEF T!is_tlb_hit
<1> QED BY <1>2 DEF T!tlb_match_wyid

\* A response to a request younger than the last SFENCE.VMA is the end of a walk in
\* the current address space whose reads all fall after that SFENCE, whether it
\* comes from an entry or from the walker, and whatever software stores meanwhile.
THEOREM ResponsesAreCoherent == Spec => []ResponseCoherent
<1>1. IInv /\ CInv => ResponseCoherent
  <2> DEFINE vpn == dff_cc2tlb_req.vpn
             held == seen[satp_asid][vpn]
  <2> SUFFICES ASSUME IInv, CInv, T!tlb2cc_resp_valid, fresh, ~skip_trans
               PROVE  IF T!ptw_excp THEN MayFault(held, satp_asid, vpn)
                      ELSE MayAnswer(held, satp_asid, vpn, T!resp_pte, T!resp_ppn)
    BY DEF ResponseCoherent
  <2>1. ~View.waiting /\ View.seen = seen
    BY DEF IInv, FreshIsFlushed, View, Waiting
  <2>2. satp_asid \in ASID
    BY DEF CInv, Kinds
  <2>3. CASE rff_state = "ST_TLB_RET"
    <3>1. vpn \in VPN
      BY <2>3 DEF IInv, WalkerInStep, CInv, Kinds
    <3>2. CASE dff_ptw2tlb_resp.excp
      BY <2>3, <3>2 DEF CInv, RespOK, T!ptw_excp
    <3>3. CASE ~dff_ptw2tlb_resp.excp
      <4>1. Right(View, T!resp_pte, T!resp_lvl, satp_asid, vpn)
        BY <2>3, <3>3 DEF CInv, RespOK, T!resp_pte, T!resp_lvl
      <4>2. T!resp_ppn = T!translate(T!resp_pte, T!resp_lvl, vpn)
        BY DEF T!resp_ppn
      <4>3. AgreeFrom(vpn, vpn, T!resp_lvl)
        BY DEF AgreeFrom
      <4> QED BY <2>1, <2>2, <3>1, <3>3, <4>1, <4>2, <4>3, RightAnswers DEF T!ptw_excp
    <3> QED BY <3>2, <3>3
  <2>4. CASE rff_state # "ST_TLB_RET"
    <3> DEFINE i == T!tlb_match_wyid
               e == dff_tlb[i]
    <3>1. T!is_tlb_hit /\ ~T!ptw_excp
      BY <2>4 DEF T!tlb2cc_resp_valid, T!ptw_excp
    <3>2. rff_cc2tlb_req_valid /\ T!entry_match(i, satp_asid, vpn)
      BY <3>1, HitMatches DEF T!tlb_match
    <3>3. vpn \in VPN
      BY <3>2 DEF CInv, Kinds
    <3>4. e.asid \in ASID /\ e.vpn \in VPN /\ Right(View, e.pte, e.lvl, e.asid, e.vpn)
      BY <3>2 DEF CInv, EntriesOK, RightEntry, T!entry_match
    <3>5. (satp_asid = e.asid \/ e.pte.g) /\ AgreeFrom(vpn, e.vpn, e.lvl)
      BY <3>2 DEF T!entry_match, T!vpn_match, AgreeFrom
    <3>6. T!resp_pte = e.pte /\ T!resp_ppn = T!translate(e.pte, e.lvl, vpn)
      BY <2>4 DEF T!resp_pte, T!resp_lvl, T!resp_ppn
    <3> HIDE DEF e, i
    <3> QED BY <2>1, <2>2, <3>1, <3>3, <3>4, <3>5, <3>6, RightAnswers
  <2> QED BY <2>3, <2>4
<1> QED BY <1>1, CInductive, PTL

\* The TLB never holds two entries for one address as long as software flushes
\* everything after it changes a pointer to a table: a miss is answered by one new
\* entry, which overlaps none of those that stay.
THEOREM AtMostOneMatches == Spec => []OneMatchWhenFlushed
<1>1. CInv => OneMatchWhenFlushed
  <2> SUFFICES ASSUME CInv, ~restructured, ~rff_is_pending_sfence
               PROVE  Cardinality(T!tlb_match) <= 1
    BY DEF OneMatchWhenFlushed
  <2>1. ~View.unsettled /\ ViewOK(View)
    BY TablesViewOK DEF View, Waiting, CInv
  <2>2. ASSUME NEW i \in T!tlb_match, NEW j \in T!tlb_match PROVE i = j
    <3>1. /\ i \in rff_tlb_valid /\ j \in rff_tlb_valid
          /\ satp_asid \in ASID /\ dff_cc2tlb_req.vpn \in VPN
      BY DEF T!tlb_match, T!entry_match, CInv, Kinds
    <3>2. /\ MatchesReq(dff_tlb[i], satp_asid, dff_cc2tlb_req.vpn)
          /\ MatchesReq(dff_tlb[j], satp_asid, dff_cc2tlb_req.vpn)
      BY DEF T!tlb_match, T!entry_match, T!vpn_match, MatchesReq, AgreeFrom
    <3>3. RightEntry(View, dff_tlb[i]) /\ RightEntry(View, dff_tlb[j])
      BY <3>1 DEF CInv, EntriesOK
    <3>4. Overlap(dff_tlb[i], dff_tlb[j])
      BY <2>1, <3>1, <3>2, <3>3, MatchesOverlap
    <3> QED BY <2>1, <3>1, <3>4 DEF CInv, EntriesApart
  <2>3. CASE T!tlb_match = {}
    BY <2>3, FS_EmptySet
  <2>4. CASE T!tlb_match # {}
    <3>1. PICK i \in T!tlb_match : TRUE
      BY <2>4
    <3>2. T!tlb_match = {i}
      BY <2>2, <3>1
    <3> QED BY <3>2, FS_Singleton
  <2> QED BY <2>3, <2>4
<1> QED BY <1>1, CInductive, PTL
=============================================================================
