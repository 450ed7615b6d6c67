--------------------------------- MODULE Vm ---------------------------------
(***************************************************************************)
(* The supervisor of the virtual-memory tests (env/v/vm.c): demand paging  *)
(* of the test's pages with the A and D bits kept by software, and the     *)
(* eviction at the end that checks them.  The core's TLB keeps what it has *)
(* walked until flush_page; it may drop an entry at any time.              *)
(***************************************************************************)
EXTENDS Integers, Sequences, FiniteSets

CONSTANTS Page,     \* 1 .. MAX_TEST_PAGES - 1, the pages evict looks at
          Frame,    \* the physical pages of the free list
          Nodes,    \* freelist_nodes: the frames in the order of the LFSR
          Datum     \* what a page may hold; 0 is the content it is loaded with

None == [f |-> 0, a |-> FALSE, d |-> FALSE]
Pte == [f : Frame, a : BOOLEAN, d : BOOLEAN]

\* LFSR_NEXT has the period MAX_TEST_PAGES: no frame comes twice, and there is
\* one for each page.
ASSUME NodesAssumption ==
  /\ Frame \subseteq Nat \ {0} /\ Page \subseteq Nat \ {0} /\ IsFiniteSet(Page)
  /\ Nodes \in Seq(Frame) /\ Cardinality(Page) <= Len(Nodes)
  /\ \A i, j \in 1 .. Len(Nodes) : Nodes[i] = Nodes[j] => i = j
  /\ 0 \in Datum

VARIABLES user_llpt,        \* the last-level table, by page
          user_mapping,     \* frame given to a page, or 0
          free,             \* the free list from freelist_head on
          freelist_tail,    \* FALSE where the code's tail is 0
          tlb, mem,         \* the core's TLB; the frames' contents
          exp,              \* what the test last stored in a page
          acc,              \* the access of the test under way
          pc                \* user | fault | copy | remap | evict | failed | done

vars == <<user_llpt, user_mapping, free, freelist_tail, tlb, mem, exp, acc, pc>>

\* LFSR_NEXT, six bits.
LfsrNext(x) == 32 * ((x + x \div 2) % 2) + x \div 2

Idle == [kind |-> "none", p |-> 0, v |-> 0]

\* vm_boot: empty tables, every frame on the list; frames hold anything.
Init ==
  /\ user_llpt = [p \in Page |-> None]
  /\ user_mapping = [p \in Page |-> 0]
  /\ free = Nodes
  /\ freelist_tail = TRUE
  /\ tlb = [p \in Page |-> None]
  /\ mem \in [Frame -> Datum]
  /\ exp = [p \in Page |-> 0]
  /\ acc = Idle
  /\ pc = "user"

-----------------------------------------------------------------------------
(* The core.                                                               *)

\* The PTE an access to p sees: the TLB's if there is one, else a walk.
Seen(p) == IF tlb[p] # None THEN tlb[p] ELSE user_llpt[p]

Faults(e, kind) == e = None \/ ~e.a \/ (kind = "store" /\ ~e.d)

\* The test starts an access; it is repeated until it does not fault.
Access == /\ pc = "user" /\ acc = Idle
          /\ \E p \in Page, v \in Datum, kind \in {"load", "store"} :
               acc' = [kind |-> kind, p |-> p, v |-> v]
          /\ UNCHANGED <<user_llpt, user_mapping, free, freelist_tail, tlb, mem, exp, pc>>

Complete ==
  /\ pc = "user" /\ acc # Idle
  /\ ~Faults(Seen(acc.p), acc.kind)
  /\ tlb' = [tlb EXCEPT ![acc.p] = Seen(acc.p)]
  /\ IF acc.kind = "store"
     THEN /\ mem' = [mem EXCEPT ![Seen(acc.p).f] = acc.v]
          /\ exp' = [exp EXCEPT ![acc.p] = acc.v]
     ELSE UNCHANGED <<mem, exp>>
  /\ acc' = Idle
  /\ UNCHANGED <<user_llpt, user_mapping, free, freelist_tail, pc>>

Trap ==
  /\ pc = "user" /\ acc # Idle
  /\ Faults(Seen(acc.p), acc.kind)
  /\ pc' = "fault"
  /\ UNCHANGED <<user_llpt, user_mapping, free, freelist_tail, tlb, mem, exp, acc>>

\* The TLB makes room for another page.
Drop == /\ \E p \in Page : tlb[p] # None /\ tlb' = [tlb EXCEPT ![p] = None]
        /\ UNCHANGED <<user_llpt, user_mapping, free, freelist_tail, mem, exp, acc, pc>>

-----------------------------------------------------------------------------
(* handle_fault.                                                           *)

\* Mutant: flush_page is missing.
FlushNothing(p) == tlb

Flush(p) == [tlb EXCEPT ![p] = None]

\* The page is mapped: software sets A, and D at a store that finds A set.
HandleBits ==
  /\ pc = "fault" /\ user_llpt[acc.p] # None
  /\ \/ /\ ~user_llpt[acc.p].a
        /\ user_llpt' = [user_llpt EXCEPT ![acc.p].a = TRUE]
        /\ tlb' = Flush(acc.p) /\ pc' = "user"
     \/ /\ user_llpt[acc.p].a /\ ~user_llpt[acc.p].d /\ acc.kind = "store"
        /\ user_llpt' = [user_llpt EXCEPT ![acc.p].d = TRUE]
        /\ tlb' = Flush(acc.p) /\ pc' = "user"
     \/ /\ user_llpt[acc.p].a /\ ~(~user_llpt[acc.p].d /\ acc.kind = "store")
        /\ pc' = "failed" /\ UNCHANGED <<user_llpt, tlb>>
  /\ UNCHANGED <<user_mapping, free, freelist_tail, mem, exp, acc>>

\* Mutant: the node stays at the head of the list.
UnlinkNothing == UNCHANGED <<free, freelist_tail>>

\* freelist_head = node->next; if (freelist_head == freelist_tail) freelist_tail = 0.
Unlink == /\ free' = Tail(free)
          /\ freelist_tail' = (freelist_tail /\ Len(free) # 2)

\* Take the first node and map its frame, with A and D for the copy.
HandleMap ==
  /\ pc = "fault" /\ user_llpt[acc.p] = None
  /\ IF free = <<>>
     THEN /\ pc' = "failed"
          /\ UNCHANGED <<user_llpt, user_mapping, free, freelist_tail, tlb>>
     ELSE /\ Unlink
          /\ user_llpt' = [user_llpt EXCEPT ![acc.p] =
                             [f |-> Head(free), a |-> TRUE, d |-> TRUE]]
          /\ tlb' = Flush(acc.p)
          /\ IF user_mapping[acc.p] # 0
             THEN pc' = "failed" /\ UNCHANGED user_mapping
             ELSE /\ pc' = "copy"
                  /\ user_mapping' = [user_mapping EXCEPT ![acc.p] = Head(free)]
  /\ UNCHANGED <<mem, exp, acc>>

\* Mutant: the page is mapped but its content is not brought in.
HandleCopySkipped ==
  /\ pc = "copy" /\ pc' = "remap"
  /\ UNCHANGED <<user_llpt, user_mapping, free, freelist_tail, tlb, mem, exp, acc>>

\* memcpy to the user address, through the TLB like any access.
HandleCopy ==
  /\ pc = "copy"
  /\ IF Faults(Seen(acc.p), "store")
     THEN pc' = "failed" /\ UNCHANGED <<tlb, mem>>
     ELSE /\ tlb' = [tlb EXCEPT ![acc.p] = Seen(acc.p)]
          /\ mem' = [mem EXCEPT ![Seen(acc.p).f] = 0]
          /\ pc' = "remap"
  /\ UNCHANGED <<user_llpt, user_mapping, free, freelist_tail, exp, acc>>

\* Mutant: the final mapping is not flushed, the TLB keeps A and D of the copy.
HandleRemapUnflushed ==
  /\ pc = "remap" /\ pc' = "user"
  /\ user_llpt' = [user_llpt EXCEPT ![acc.p] = [@ EXCEPT !.a = FALSE, !.d = FALSE]]
  /\ UNCHANGED <<user_mapping, free, freelist_tail, tlb, mem, exp, acc>>

\* The final mapping has neither bit: the next access faults once more.
HandleRemap ==
  /\ pc = "remap" /\ pc' = "user"
  /\ user_llpt' = [user_llpt EXCEPT ![acc.p] = [@ EXCEPT !.a = FALSE, !.d = FALSE]]
  /\ tlb' = Flush(acc.p)
  /\ UNCHANGED <<user_mapping, free, freelist_tail, mem, exp, acc>>

-----------------------------------------------------------------------------
(* The test's ecall: evict every page, then terminate.                     *)
Ecall == /\ pc = "user" /\ acc = Idle /\ pc' = "evict"
         /\ UNCHANGED <<user_llpt, user_mapping, free, freelist_tail, tlb, mem, exp, acc>>

\* evict(p): A must be set, and D where the page differs from the original.
\* The original is copied over it; the node goes to the list with address 0.
Evict(p) ==
  /\ pc = "evict" /\ user_mapping[p] # 0
  /\ LET e == Seen(p)
         changed == mem[e.f] # 0
     IN  IF \/ ~user_llpt[p].a
            \/ Faults(e, "load")
            \/ changed /\ (~user_llpt[p].d \/ Faults(e, "store"))
         THEN pc' = "failed" /\ UNCHANGED <<user_mapping, free, freelist_tail, tlb, mem>>
         ELSE /\ tlb' = [tlb EXCEPT ![p] = e]
              /\ mem' = [mem EXCEPT ![e.f] = 0]
              /\ user_mapping' = [user_mapping EXCEPT ![p] = 0]
              /\ free' = IF freelist_tail THEN Append(free, 0) ELSE <<0>>
              /\ freelist_tail' = TRUE
              /\ UNCHANGED pc
  /\ UNCHANGED <<user_llpt, exp, acc>>

\* for (i = 1; i < MAX_TEST_PAGES; i++), the lower pages first.
EvictNext == \E p \in Page : /\ \A q \in Page : q < p => user_mapping[q] = 0
                             /\ Evict(p)

Terminate == /\ pc = "evict" /\ \A p \in Page : user_mapping[p] = 0
             /\ pc' = "done"
             /\ UNCHANGED <<user_llpt, user_mapping, free, freelist_tail, tlb, mem, exp, acc>>

Kernel == HandleBits \/ HandleMap \/ HandleCopy \/ HandleRemap \/ EvictNext \/ Terminate
Core == Complete \/ Trap
Next == Access \/ Core \/ Drop \/ Ecall \/ Kernel

\* The core executes; the test need not make another access, nor ever end.
Spec == Init /\ [][Next]_vars /\ WF_vars(Core \/ Kernel)

-----------------------------------------------------------------------------
\* Every variable keeps its range; pc names a phase of handle_fault or evict.
TypeOK ==
  /\ user_llpt \in [Page -> Pte \cup {None}]
  /\ user_mapping \in [Page -> Frame \cup {0}]
  /\ free \in Seq(Frame \cup {0})
  /\ freelist_tail \in BOOLEAN
  /\ tlb \in [Page -> Pte \cup {None}]
  /\ mem \in [Frame -> Datum]
  /\ exp \in [Page -> Datum]
  /\ acc \in [kind : {"load", "store"}, p : Page, v : Datum] \cup {Idle}
  /\ pc \in {"user", "fault", "copy", "remap", "evict", "failed", "done"}

\* Two pages of the test never share a physical page, also while a page is
\* being filled.
FramesDisjoint ==
  pc \in {"user", "fault", "copy", "remap"} =>
    \A p, q \in Page :
      p # q /\ user_llpt[p] # None /\ user_llpt[q] # None =>
        user_llpt[p].f # user_llpt[q].f

\* No assertion of vm.c fails: the list never runs out, no fault is spurious,
\* and at the end every page has A, and D if its content changed.
AssertionsHold == pc # "failed"

\* The test reads what it last stored in a page, or what it was loaded with.
DataPreserved ==
  pc \in {"user", "fault"} =>
    \A p \in Page : user_llpt[p] # None => mem[user_llpt[p].f] = exp[p]

\* An access completes after at most its three faults: it does not fault for ever.
AccessCompletes == acc # Idle ~> acc = Idle
=============================================================================
