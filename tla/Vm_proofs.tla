----------------------------- MODULE Vm_proofs -----------------------------
(***************************************************************************)
(* FramesDisjoint, AssertionsHold and DataPreserved for every number of    *)
(* pages, every order of the free list and every content of the pages.     *)
(*                                                                         *)
(* The heart of the invariant is that the TLB never disagrees with the     *)
(* table (TlbFresh): then a fault is never spurious, and the A and D bits  *)
(* of the table tell what the test did.  Counted says the free list holds  *)
(* a node for each page that has none yet.                                 *)
(***************************************************************************)
EXTENDS Vm, FiniteSetTheorems, TLAPS

Running == pc \in {"user", "fault", "copy", "remap"}

Mapped == {p \in Page : user_llpt[p] # None}

TlbFresh == \A p \in Page : tlb[p] = None \/ tlb[p] = user_llpt[p]

Phase ==
  /\ pc \in {"fault", "copy", "remap"} => acc # Idle
  /\ pc = "evict" => acc = Idle
  /\ pc = "fault" => Faults(user_llpt[acc.p], acc.kind)
  /\ pc \in {"copy", "remap"} =>
       user_llpt[acc.p] # None /\ user_llpt[acc.p].a /\ user_llpt[acc.p].d
  /\ pc = "remap" => mem[user_llpt[acc.p].f] = 0

ListSound ==
  Running =>
    /\ free \in Seq(Frame)
    /\ \A i, j \in 1 .. Len(free) : free[i] = free[j] => i = j
    /\ \A i \in 1 .. Len(free), p \in Page : user_llpt[p].f # free[i]

OwnFrames ==
  \A p, q \in Page :
    p # q /\ user_llpt[p] # None /\ user_llpt[q] # None => user_llpt[p].f # user_llpt[q].f

MappingSound ==
  /\ Running => \A p \in Page : user_mapping[p] = user_llpt[p].f
  /\ \A p \in Page : user_mapping[p] \in {0, user_llpt[p].f}

Counted == Running => Len(free) + Cardinality(Mapped) = Len(Nodes)

Accessed == \A p \in Page : user_llpt[p] # None /\ ~user_llpt[p].a => acc # Idle /\ acc.p = p

DirtySound ==
  \A p \in Page : user_llpt[p] # None /\ mem[user_llpt[p].f] # 0 => user_llpt[p].d

DataSound ==
  Running => \A p \in Page :
    IF user_llpt[p] = None \/ (pc = "copy" /\ p = acc.p) THEN exp[p] = 0
    ELSE mem[user_llpt[p].f] = exp[p]

IInv == /\ TypeOK /\ pc # "failed"
        /\ TlbFresh /\ Phase /\ ListSound /\ OwnFrames /\ MappingSound
        /\ Counted /\ Accessed /\ DirtySound /\ DataSound

-----------------------------------------------------------------------------
\* What is known of any entry of the table or of the TLB.
LEMMA PteFacts ==
  ASSUME NEW e \in Pte \cup {None}
  PROVE  /\ e.f \in Frame \cup {0}
         /\ e.a \in BOOLEAN /\ e.d \in BOOLEAN
         /\ e = None <=> e.f = 0
         /\ e # None => e.f \in Frame
<1>0. 0 \notin Frame
      BY NodesAssumption
<1>1. CASE e = None
      BY <1>0, <1>1 DEF None
<1>2. CASE e \in Pte
  <2>1. e.f \in Frame /\ e.a \in BOOLEAN /\ e.d \in BOOLEAN
        BY <1>2 DEF Pte
  <2>2. None.f = 0
        BY DEF None
  <2>3. e.f # 0 /\ e # None
        BY <1>0, <2>1, <2>2
  <2> QED BY <2>1, <2>3
<1> QED BY <1>1, <1>2

\* Every access sees what the table says.
LEMMA SeenIsTable == TlbFresh => \A p \in Page : Seen(p) = user_llpt[p]
  BY DEF TlbFresh, Seen

\* An access that has been started names a page.
LEMMA AccFacts ==
  ASSUME TypeOK, acc # Idle
  PROVE  acc.p \in Page /\ acc.kind \in {"load", "store"} /\ acc.v \in Datum
  BY DEF TypeOK

\* Init.
LEMMA InitIInv == Init => IInv
<1> SUFFICES ASSUME Init PROVE IInv
    OBVIOUS
<1> USE NodesAssumption DEF Init
<1>1. TypeOK
  <2>1. None \in Pte \cup {None} /\ Idle \in {Idle}
        OBVIOUS
  <2>2. free \in Seq(Frame \cup {0})
        OBVIOUS
  <2> QED BY <2>1, <2>2 DEF TypeOK
<1>2. \A p \in Page : user_llpt[p] = None /\ None.f = 0
      BY DEF None
<1>3. TlbFresh /\ Phase /\ OwnFrames /\ MappingSound /\ Accessed /\ DirtySound
      BY <1>2 DEF TlbFresh, Phase, OwnFrames, MappingSound, Accessed, DirtySound
<1>4. ListSound
      BY <1>2 DEF ListSound
<1>5. DataSound
      BY <1>2 DEF DataSound
<1>6. Counted
  <2>1. Mapped = {}
        BY <1>2 DEF Mapped
  <2> QED BY <2>1, FS_EmptySet DEF Counted
<1> QED BY <1>1, <1>3, <1>4, <1>5, <1>6 DEF IInv

\* Steps that leave the tables, the list and the memory alone.
LEMMA AccessIInv == ASSUME IInv, Access PROVE IInv'
<1> USE DEF IInv, Access
<1>1. TypeOK' BY DEF TypeOK
<1>2. Running /\ Running' BY DEF Running
<1>3. TlbFresh' /\ OwnFrames' /\ MappingSound' /\ ListSound' /\ DirtySound'
      BY <1>2 DEF TlbFresh, OwnFrames, MappingSound, ListSound, DirtySound
<1>4. Phase' BY DEF Phase
<1>5. Accessed' BY DEF Accessed
<1>6. DataSound' BY <1>2 DEF DataSound
<1>7. Counted' BY <1>2 DEF Counted, Mapped
<1> QED BY <1>1, <1>3, <1>4, <1>5, <1>6, <1>7

LEMMA DropIInv == ASSUME IInv, Drop PROVE IInv'
<1> USE DEF IInv, Drop
<1>1. TypeOK' BY DEF TypeOK
<1>2. Running <=> Running' BY DEF Running
<1>3. TlbFresh' BY DEF TlbFresh, TypeOK
<1>4. OwnFrames' /\ MappingSound' /\ ListSound' /\ DirtySound' /\ Accessed'
      BY <1>2 DEF OwnFrames, MappingSound, ListSound, DirtySound, Accessed
<1>5. Phase' BY DEF Phase, Faults
<1>6. DataSound' BY <1>2 DEF DataSound
<1>7. Counted' BY <1>2 DEF Counted, Mapped
<1> QED BY <1>1, <1>3, <1>4, <1>5, <1>6, <1>7

LEMMA TrapIInv == ASSUME IInv, Trap PROVE IInv'
<1> USE DEF IInv, Trap
<1>1. TypeOK' BY DEF TypeOK
<1>2. Running /\ Running' BY DEF Running
<1>3. TlbFresh' /\ OwnFrames' /\ MappingSound' /\ ListSound' /\ DirtySound' /\ Accessed'
      BY <1>2 DEF TlbFresh, OwnFrames, MappingSound, ListSound, DirtySound, Accessed
<1>4. Faults(user_llpt[acc.p], acc.kind)
      BY SeenIsTable, AccFacts
<1>5. Phase' BY <1>4 DEF Phase, Faults
<1>6. DataSound' BY <1>2 DEF DataSound
<1>7. Counted' BY <1>2 DEF Counted, Mapped
<1> QED BY <1>1, <1>3, <1>5, <1>6, <1>7

LEMMA EcallIInv == ASSUME IInv, Ecall PROVE IInv'
<1> USE DEF IInv, Ecall
<1>1. TypeOK' BY DEF TypeOK
<1>2. ~Running' BY DEF Running
<1>3. TlbFresh' /\ OwnFrames' /\ MappingSound' /\ ListSound' /\ DirtySound' /\ Accessed'
      BY <1>2 DEF TlbFresh, OwnFrames, MappingSound, ListSound, DirtySound, Accessed
<1>4. Phase' BY DEF Phase
<1>5. DataSound' /\ Counted' BY <1>2 DEF DataSound, Counted
<1> QED BY <1>1, <1>3, <1>4, <1>5

LEMMA TerminateIInv == ASSUME IInv, Terminate PROVE IInv'
<1> USE DEF IInv, Terminate
<1>1. TypeOK' BY DEF TypeOK
<1>2. ~Running' BY DEF Running
<1>3. TlbFresh' /\ OwnFrames' /\ MappingSound' /\ ListSound' /\ DirtySound' /\ Accessed'
      BY <1>2 DEF TlbFresh, OwnFrames, MappingSound, ListSound, DirtySound, Accessed
<1>4. Phase' BY DEF Phase
<1>5. DataSound' /\ Counted' BY <1>2 DEF DataSound, Counted
<1> QED BY <1>1, <1>3, <1>4, <1>5
-----------------------------------------------------------------------------
\* The access is done: a store found D set in the table.
LEMMA CompleteIInv == ASSUME IInv, Complete PROVE IInv'
<1> USE DEF IInv, Complete
<1> DEFINE a == acc.p
           e == user_llpt[acc.p]
<1>1. a \in Page /\ acc.v \in Datum
      BY AccFacts
<1>2. Seen(a) = e /\ e # None /\ e.a /\ (acc.kind = "store" => e.d)
      BY <1>1, SeenIsTable DEF Faults
<1>3. e \in Pte \cup {None} /\ e.f \in Frame
      BY <1>1, <1>2, PteFacts DEF TypeOK
<1>4. Running /\ Running' BY DEF Running
<1>5. TypeOK'
      BY <1>1, <1>2, <1>3 DEF TypeOK
<1>6. TlbFresh' BY <1>1, <1>2 DEF TlbFresh, TypeOK
<1>7. OwnFrames' /\ MappingSound' /\ ListSound'
      BY <1>4 DEF OwnFrames, MappingSound, ListSound
<1>8. Phase' BY DEF Phase
<1>9. Accessed' BY <1>2 DEF Accessed
<1>10. \A p \in Page : user_llpt[p] # None => user_llpt[p].f \in Frame
       BY PteFacts DEF TypeOK
<1>11. \A p \in Page : p # a /\ user_llpt[p] # None => user_llpt[p].f # e.f
       BY <1>1, <1>2 DEF OwnFrames
<1>12. DirtySound'
       BY <1>1, <1>2, <1>3, <1>10, <1>11 DEF DirtySound, TypeOK
<1>13. DataSound'
  <2>1. CASE acc.kind = "store"
        BY <2>1, <1>1, <1>2, <1>3, <1>4, <1>10, <1>11 DEF DataSound, TypeOK
  <2>2. CASE acc.kind # "store"
        BY <2>2, <1>4 DEF DataSound
  <2> QED BY <2>1, <2>2
<1>14. Counted' BY <1>4 DEF Counted, Mapped
<1> QED BY <1>5, <1>6, <1>7, <1>8, <1>9, <1>12, <1>13, <1>14

\* A fault on a mapped page is never spurious: one of the two bits is missing.
LEMMA HandleBitsIInv == ASSUME IInv, HandleBits PROVE IInv'
<1> USE DEF IInv, HandleBits
<1> DEFINE a == acc.p
           e == user_llpt[acc.p]
<1>1. acc # Idle /\ a \in Page /\ acc.kind \in {"load", "store"}
      BY AccFacts DEF Phase
<1>2. e # None /\ (~e.a \/ (acc.kind = "store" /\ ~e.d))
      BY DEF Phase, Faults
<1>3. e \in Pte
      BY <1>1, <1>2 DEF TypeOK
<1>4. /\ pc' = "user" /\ tlb' = Flush(a)
      /\ \/ ~e.a /\ user_llpt' = [user_llpt EXCEPT ![a] = [e EXCEPT !.a = TRUE]]
         \/ e.a /\ user_llpt' = [user_llpt EXCEPT ![a] = [e EXCEPT !.d = TRUE]]
      BY <1>1, <1>2
<1>5. Running /\ Running' BY <1>4 DEF Running
<1>6. /\ user_llpt'[a] \in Pte /\ user_llpt'[a].f = e.f
      /\ user_llpt'[a].a /\ (e.d => user_llpt'[a].d)
      /\ \A p \in Page \ {a} : user_llpt'[p] = user_llpt[p]
  <2> HIDE DEF HandleBits, IInv
  <2>0. user_llpt \in [Page -> Pte \cup {None}]
        BY DEF IInv, TypeOK
  <2>1. CASE ~e.a /\ user_llpt' = [user_llpt EXCEPT ![a] = [e EXCEPT !.a = TRUE]]
    <3>1. user_llpt'[a] = [e EXCEPT !.a = TRUE]
          BY <1>1, <2>0, <2>1
    <3> QED BY <1>1, <1>3, <2>0, <2>1, <3>1 DEF Pte
  <2>2. CASE e.a /\ user_llpt' = [user_llpt EXCEPT ![a] = [e EXCEPT !.d = TRUE]]
    <3>1. user_llpt'[a] = [e EXCEPT !.d = TRUE]
          BY <1>1, <2>0, <2>2
    <3> QED BY <1>1, <1>3, <2>0, <2>2, <3>1 DEF Pte
  <2> QED BY <1>4, <2>1, <2>2
<1>7. user_llpt'[a] # None
      BY <1>6, PteFacts, <1>2, <1>3
<1>8. TypeOK'
      BY <1>1, <1>4, <1>6 DEF TypeOK, Flush
<1>9. TlbFresh'
      BY <1>1, <1>4, <1>6 DEF TlbFresh, TypeOK, Flush
<1>10. OwnFrames' BY <1>1, <1>2, <1>6 DEF OwnFrames
<1>11. MappingSound' BY <1>1, <1>5, <1>6 DEF MappingSound
<1>12. ListSound' BY <1>1, <1>5, <1>6 DEF ListSound
<1>13. Phase' BY <1>4 DEF Phase
<1>14. Accessed' BY <1>1, <1>6 DEF Accessed
<1>15. DirtySound' BY <1>1, <1>2, <1>6 DEF DirtySound
<1>16. DataSound' BY <1>1, <1>2, <1>4, <1>5, <1>6, <1>7 DEF DataSound
<1>17. Counted'
  <2>1. Mapped' = Mapped
        BY <1>1, <1>2, <1>6, <1>7 DEF Mapped
  <2> QED BY <2>1, <1>5 DEF Counted
<1> QED BY <1>4, <1>8, <1>9, <1>10, <1>11, <1>12, <1>13, <1>14, <1>15, <1>16, <1>17

\* The copy goes to the new frame, which the TLB cannot contradict.
LEMMA HandleCopyIInv == ASSUME IInv, HandleCopy PROVE IInv'
<1> USE DEF IInv, HandleCopy
<1> DEFINE a == acc.p
           e == user_llpt[acc.p]
<1>1. acc # Idle /\ a \in Page
      BY AccFacts DEF Phase
<1>2. Seen(a) = e /\ e # None /\ e.a /\ e.d
      BY <1>1, SeenIsTable DEF Phase
<1>3. /\ pc' = "remap" /\ tlb' = [tlb EXCEPT ![a] = e]
      /\ mem' = [mem EXCEPT ![e.f] = 0]
      BY <1>2 DEF Faults
<1>4. e \in Pte \cup {None} /\ e.f \in Frame /\ 0 \in Datum
      BY <1>1, <1>2, PteFacts, NodesAssumption DEF TypeOK
<1>5. Running /\ Running' BY <1>3 DEF Running
<1>6. TypeOK'
      BY <1>1, <1>3, <1>4 DEF TypeOK
<1>7. TlbFresh' BY <1>1, <1>3 DEF TlbFresh, TypeOK
<1>8. OwnFrames' /\ MappingSound' /\ ListSound' /\ Accessed'
      BY <1>5 DEF OwnFrames, MappingSound, ListSound, Accessed
<1>9. Phase' BY <1>1, <1>2, <1>3, <1>4 DEF Phase, TypeOK
<1>10. \A p \in Page : p # a /\ user_llpt[p] # None =>
          user_llpt[p].f # e.f /\ user_llpt[p].f \in Frame
       BY <1>1, <1>2, PteFacts DEF OwnFrames, TypeOK
<1>11. DirtySound' BY <1>1, <1>2, <1>3, <1>4, <1>10 DEF DirtySound, TypeOK
<1>12. DataSound' BY <1>1, <1>2, <1>3, <1>4, <1>5, <1>10 DEF DataSound, TypeOK
<1>13. Counted' BY <1>5 DEF Counted, Mapped
<1> QED BY <1>3, <1>6, <1>7, <1>8, <1>9, <1>11, <1>12, <1>13

LEMMA HandleRemapIInv == ASSUME IInv, HandleRemap PROVE IInv'
<1> USE DEF IInv, HandleRemap
<1> DEFINE a == acc.p
           e == user_llpt[acc.p]
<1>1. acc # Idle /\ a \in Page
      BY AccFacts DEF Phase
<1>2. e # None /\ mem[e.f] = 0
      BY DEF Phase
<1>3. e \in Pte
      BY <1>1, <1>2 DEF TypeOK
<1>4. Running /\ Running' BY DEF Running
<1>5. /\ user_llpt'[a] \in Pte /\ user_llpt'[a].f = e.f
      /\ \A p \in Page \ {a} : user_llpt'[p] = user_llpt[p]
      BY <1>1, <1>3 DEF TypeOK, Pte
<1>6. user_llpt'[a] # None
      BY <1>2, <1>3, <1>5, PteFacts
<1>7. TypeOK'
      BY <1>1, <1>5 DEF TypeOK, Flush
<1>8. TlbFresh'
      BY <1>1, <1>5 DEF TlbFresh, TypeOK, Flush
<1>9. OwnFrames' BY <1>1, <1>2, <1>5 DEF OwnFrames
<1>10. MappingSound' BY <1>1, <1>4, <1>5 DEF MappingSound
<1>11. ListSound' BY <1>1, <1>4, <1>5 DEF ListSound
<1>12. Phase' BY DEF Phase
<1>13. Accessed' BY <1>1, <1>5 DEF Accessed
<1>14. DirtySound' BY <1>1, <1>2, <1>5 DEF DirtySound
<1>15. DataSound' BY <1>1, <1>2, <1>4, <1>5, <1>6 DEF DataSound
<1>16. Counted'
  <2>1. Mapped' = Mapped
        BY <1>1, <1>2, <1>5, <1>6 DEF Mapped
  <2> QED BY <2>1, <1>4 DEF Counted
<1> QED BY <1>7, <1>8, <1>9, <1>10, <1>11, <1>12, <1>13, <1>14, <1>15, <1>16

\* The checks of evict pass: A is set since no access is under way, and D
\* wherever the frame differs from the original.
LEMMA EvictIInv == ASSUME IInv, EvictNext PROVE IInv'
<1> USE DEF IInv
<1>1. PICK p \in Page : Evict(p)
      BY DEF EvictNext
<1> DEFINE e == user_llpt[p]
<1>2. pc = "evict" /\ acc = Idle /\ user_mapping[p] # 0
      BY <1>1 DEF Evict, Phase
<1>3. e.f # 0 /\ user_mapping[p] = e.f
      BY <1>2 DEF MappingSound
<1>4. e \in Pte \cup {None} /\ e # None /\ e.f \in Frame
      BY <1>3, PteFacts DEF TypeOK
<1>5. Seen(p) = e /\ e.a /\ (mem[e.f] # 0 => e.d)
      BY <1>2, <1>4, SeenIsTable DEF Accessed, DirtySound
<1>6. /\ tlb' = [tlb EXCEPT ![p] = e]
      /\ mem' = [mem EXCEPT ![e.f] = 0]
      /\ user_mapping' = [user_mapping EXCEPT ![p] = 0]
      /\ free' = IF freelist_tail THEN Append(free, 0) ELSE <<0>>
      /\ freelist_tail' = TRUE /\ pc' = pc
      /\ user_llpt' = user_llpt /\ exp' = exp /\ acc' = acc
      BY <1>1, <1>4, <1>5 DEF Evict, Faults
<1>7. ~Running' BY <1>2, <1>6 DEF Running
<1>8. TypeOK'
      BY <1>4, <1>6, NodesAssumption, SMTT(30) DEF TypeOK
<1>9. TlbFresh' BY <1>6 DEF TlbFresh, TypeOK
<1>10. OwnFrames' /\ Accessed' BY <1>6 DEF OwnFrames, Accessed
<1>11. MappingSound' BY <1>6, <1>7 DEF MappingSound, TypeOK
<1>12. ListSound' /\ DataSound' /\ Counted' BY <1>7 DEF ListSound, DataSound, Counted
<1>13. Phase' BY <1>2, <1>6 DEF Phase
<1>14. \A q \in Page : user_llpt[q] # None => user_llpt[q].f \in Frame
       BY PteFacts DEF TypeOK
<1>15. DirtySound' BY <1>6, <1>14 DEF DirtySound, TypeOK
<1> QED BY <1>2, <1>6, <1>8, <1>9, <1>10, <1>11, <1>12, <1>13, <1>15

\* There is a node for the page: fewer pages than nodes have one already.
LEMMA HandleMapIInv == ASSUME IInv, HandleMap PROVE IInv'
<1> USE DEF IInv
<1> DEFINE a == acc.p
           new == [f |-> Head(free), a |-> TRUE, d |-> TRUE]
<1>1. pc = "fault" /\ acc # Idle /\ a \in Page /\ user_llpt[a] = None
      BY AccFacts DEF HandleMap, Phase
<1>2. Running BY <1>1 DEF Running
<1>3. /\ IsFiniteSet(Mapped) /\ a \notin Mapped
      /\ Cardinality(Mapped) \in Nat /\ Cardinality(Mapped) < Len(Nodes)
      /\ Cardinality(Mapped \cup {a}) = Cardinality(Mapped) + 1
  <2>1. Mapped \subseteq Page \ {a} /\ a \notin Mapped
        BY <1>1 DEF Mapped
  <2>2. IsFiniteSet(Page) /\ Cardinality(Page) <= Len(Nodes) /\ Len(Nodes) \in Nat
        BY NodesAssumption
  <2>3. IsFiniteSet(Page \ {a}) /\ Cardinality(Page \ {a}) = Cardinality(Page) - 1
        BY <1>1, <2>2, FS_RemoveElement
  <2>4. IsFiniteSet(Mapped) /\ Cardinality(Mapped) <= Cardinality(Page \ {a})
        BY <2>1, <2>3, FS_Subset
  <2>5. Cardinality(Mapped) \in Nat /\ Cardinality(Page) \in Nat
        BY <2>2, <2>4, FS_CardinalityType
  <2>6. Cardinality(Mapped \cup {a}) = Cardinality(Mapped) + 1
        BY <2>1, <2>4, FS_AddElement
  <2> QED BY <2>1, <2>2, <2>3, <2>4, <2>5, <2>6
<1>4. /\ free \in Seq(Frame) /\ Len(free) \in Nat /\ Len(Nodes) \in Nat
      /\ Len(free) + Cardinality(Mapped) = Len(Nodes)
      BY <1>2, NodesAssumption DEF ListSound, Counted
<1>5. Len(free) > 0
      BY <1>3, <1>4
<1>6. free # <<>> /\ Head(free) = free[1] /\ Head(free) \in Frame
      BY <1>4, <1>5
<1>7. user_mapping[a] = 0
      BY <1>1, <1>2 DEF MappingSound, None
<1>8. /\ free' = Tail(free) /\ freelist_tail' = (freelist_tail /\ Len(free) # 2)
      /\ user_llpt' = [user_llpt EXCEPT ![a] = new]
      /\ tlb' = Flush(a) /\ pc' = "copy"
      /\ user_mapping' = [user_mapping EXCEPT ![a] = Head(free)]
      /\ mem' = mem /\ exp' = exp /\ acc' = acc
      BY <1>6, <1>7 DEF HandleMap, Unlink
<1>9. Running' BY <1>8 DEF Running
<1>10. new \in Pte /\ new.f = Head(free) /\ new.a /\ new.d /\ new # None
  <2>1. new \in Pte /\ new.f = Head(free) /\ new.a /\ new.d
        BY <1>6 DEF Pte
  <2> QED BY <2>1, <1>6, PteFacts, NodesAssumption
<1>11. /\ user_llpt'[a] = new
       /\ \A p \in Page \ {a} : user_llpt'[p] = user_llpt[p]
       BY <1>1, <1>8 DEF TypeOK
<1>12. /\ Tail(free) \in Seq(Frame) /\ Len(Tail(free)) = Len(free) - 1
       /\ \A i \in 1 .. Len(Tail(free)) : Tail(free)[i] = free[i + 1]
       BY <1>4, <1>5, <1>6
<1>13. TypeOK'
  <2>1. /\ user_llpt' \in [Page -> Pte \cup {None}]
        /\ user_mapping' \in [Page -> Frame \cup {0}]
        /\ tlb' \in [Page -> Pte \cup {None}]
        BY <1>6, <1>8, <1>10 DEF TypeOK, Flush
  <2>2. free' \in Seq(Frame \cup {0})
        BY <1>8, <1>12
  <2>3. freelist_tail' \in BOOLEAN
        BY <1>8
  <2> QED BY <1>8, <2>1, <2>2, <2>3 DEF TypeOK
<1>14. TlbFresh'
       BY <1>1, <1>8, <1>11 DEF TlbFresh, TypeOK, Flush
<1>15. \A p \in Page : user_llpt[p].f # Head(free)
       BY <1>2, <1>4, <1>5, <1>6 DEF ListSound
<1>16. OwnFrames'
       BY <1>10, <1>11, <1>15 DEF OwnFrames
<1>17. MappingSound'
       BY <1>1, <1>2, <1>8, <1>10, <1>11 DEF MappingSound, TypeOK
<1>18. ListSound'
  <2>1. \A i, j \in 1 .. Len(Tail(free)) : Tail(free)[i] = Tail(free)[j] => i = j
        BY <1>2, <1>4, <1>12 DEF ListSound
  <2>2. \A i \in 1 .. Len(Tail(free)) : Tail(free)[i] # Head(free)
        BY <1>2, <1>4, <1>5, <1>6, <1>12 DEF ListSound
  <2>3. \A i \in 1 .. Len(Tail(free)), p \in Page : user_llpt[p].f # Tail(free)[i]
        BY <1>2, <1>4, <1>12 DEF ListSound
  <2> QED BY <2>1, <2>2, <2>3, <1>8, <1>10, <1>11, <1>12 DEF ListSound
<1>19. Phase'
       BY <1>1, <1>8, <1>10, <1>11 DEF Phase
<1>20. Accessed'
       BY <1>8, <1>10, <1>11 DEF Accessed
<1>21. DirtySound'
       BY <1>8, <1>10, <1>11 DEF DirtySound
<1>22. DataSound'
       BY <1>1, <1>2, <1>8, <1>10, <1>11 DEF DataSound
<1>23. Counted'
  <2>1. Mapped' = Mapped \cup {a}
        BY <1>1, <1>10, <1>11 DEF Mapped
  <2>2. Len(free') + Cardinality(Mapped') = Len(Nodes)
        BY <2>1, <1>3, <1>4, <1>8, <1>12
  <2> QED BY <2>2 DEF Counted
<1> QED BY <1>8, <1>13, <1>14, <1>16, <1>17, <1>18, <1>19, <1>20, <1>21, <1>22, <1>23

-----------------------------------------------------------------------------
LEMMA NextIInv == IInv /\ [Next]_vars => IInv'
<1> SUFFICES ASSUME IInv, [Next]_vars PROVE IInv'
    OBVIOUS
<1>1. CASE Access BY <1>1, AccessIInv
<1>2. CASE Core BY <1>2, CompleteIInv, TrapIInv DEF Core
<1>3. CASE Drop BY <1>3, DropIInv
<1>4. CASE Ecall BY <1>4, EcallIInv
<1>5. CASE Kernel
      BY <1>5, HandleBitsIInv, HandleMapIInv, HandleCopyIInv, HandleRemapIInv,
         EvictIInv, TerminateIInv DEF Kernel
<1>6. CASE UNCHANGED vars
      BY <1>6 DEF vars, IInv, TypeOK, Running, Mapped, TlbFresh, Phase, ListSound,
         OwnFrames, MappingSound, Counted, Accessed, DirtySound, DataSound, Faults
<1> QED BY <1>1, <1>2, <1>3, <1>4, <1>5, <1>6 DEF Next

\* The invariant holds in every reachable state of the supervisor.
THEOREM InvariantHolds == Spec => []IInv
  BY InitIInv, NextIInv, PTL DEF Spec

\* No assertion of vm.c fails, however the test accesses its pages: the free
\* list does not run out, no fault is spurious, evict finds A and D as it
\* expects them.
THEOREM AssertionsNeverFail == Spec => []AssertionsHold
<1>1. IInv => AssertionsHold
      BY DEF IInv, AssertionsHold
<1> QED BY <1>1, InvariantHolds, PTL

\* handle_fault never gives a frame to two pages.
THEOREM FramesAreDisjoint == Spec => []FramesDisjoint
<1>1. IInv => FramesDisjoint
      BY DEF IInv, OwnFrames, FramesDisjoint
<1> QED BY <1>1, InvariantHolds, PTL

\* The content of a mapped page is what the test last stored there, or what
\* handle_fault copied in.
THEOREM DataIsPreserved == Spec => []DataPreserved
<1>1. IInv => DataPreserved
      BY DEF IInv, DataSound, DataPreserved, Running
<1> QED BY <1>1, InvariantHolds, PTL
=============================================================================
