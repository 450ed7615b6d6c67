---------------------------- MODULE ArbBuf_proofs ----------------------------
(***************************************************************************)
(* Proofs about OursFifo, for every Depth and every set of items, and about*)
(* ArbBuf, for every number of inputs and all depths.                      *)
(***************************************************************************)
EXTENDS ArbBuf, RrArb_proofs, SequenceTheorems, TLAPS

\* The pointers stay inside the ring when they are incremented.
LEMMA IncInRing == 0 \in Slots /\ \A p \in Slots : Inc(p) \in Slots
  BY DepthAssumption DEF Slots, Inc

\* One edge keeps the registers of ours_fifo in their ranges.
LEMMA RangesStep == ASSUME FifoTypeOK, NEW v \in BOOLEAN, NEW r \in BOOLEAN,
                           NEW d \in Data, BufClk(v, d, r)
                    PROVE  FifoTypeOK'
  BY IncInRing DEF FifoTypeOK, BufClk, FifoEdge, Flags

\* Type correctness: the registers of ours_fifo keep their ranges.
THEOREM FifoTypeCorrect == FifoSpec => []FifoTypeOK
<1>1. FifoInit => FifoTypeOK
  BY IncInRing, Zenon DEF FifoInit, FifoTypeOK
<1>2. FifoTypeOK /\ [FifoNext]_fifo_vars => FifoTypeOK'
  <2> SUFFICES ASSUME FifoTypeOK, [FifoNext]_fifo_vars PROVE FifoTypeOK'
    OBVIOUS
  <2> USE DEF FifoTypeOK
  <2>1. ASSUME NEW v \in BOOLEAN, NEW r \in BOOLEAN, NEW d \in Data, BufClk(v, d, r)
        PROVE FifoTypeOK'
    BY <2>1, RangesStep
  <2>2. CASE FifoReset
    BY <2>2, IncInRing, Zenon DEF FifoReset
  <2>3. CASE UNCHANGED fifo_vars
    BY <2>3 DEF fifo_vars
  <2> QED BY <2>1, <2>2, <2>3 DEF FifoNext
<1> QED BY <1>1, <1>2, PTL DEF FifoSpec

\* The inductive invariant of the ring.
FifoIInv == FifoTypeOK /\ FlagsAgree

\* One edge keeps flags and pointers in agreement: this is where the ring
\* must not be written when full nor read when empty.
LEMMA FlagsStep == ASSUME FifoIInv, NEW v \in BOOLEAN, NEW r \in BOOLEAN,
                          NEW d \in Data, BufClk(v, d, r)
                   PROVE  FlagsAgree'
  <1> DEFINE we == v /\ ~rff_full
             re == r /\ ~rff_empty
  <1>1. rff_head \in 0 .. Depth - 1 /\ rff_tail \in 0 .. Depth - 1
    BY DEF FifoIInv, FifoTypeOK, Slots
  <1>2. rff_empty \in BOOLEAN /\ rff_full \in BOOLEAN /\ FlagsAgree
    BY DEF FifoIInv, FifoTypeOK
  <1> USE DepthAssumption DEF FlagsAgree, BufClk, FifoEdge, Flags, Inc
  <1>3. CASE we /\ ~re
    BY <1>1, <1>2, <1>3
  <1>4. CASE ~we /\ re
    BY <1>1, <1>2, <1>4
  <1>5. CASE we /\ re
    BY <1>1, <1>2, <1>5
  <1>6. CASE ~we /\ ~re
    BY <1>1, <1>2, <1>6
  <1> QED BY <1>3, <1>4, <1>5, <1>6

LEMMA FifoInitInv == FifoInit => FifoIInv
  BY IncInRing, Zenon DEF FifoInit, FifoIInv, FifoTypeOK, FlagsAgree

\* The registered flags of the ring always agree with its pointers.
THEOREM FlagsCorrect == FifoSpec => []FlagsAgree
<1>1. FifoInit => FifoIInv
  BY FifoInitInv
<1>2. FifoIInv /\ FifoTypeOK' /\ [FifoNext]_fifo_vars => FifoIInv'
  <2> SUFFICES ASSUME FifoIInv, [FifoNext]_fifo_vars PROVE FlagsAgree'
    BY DEF FifoIInv
  <2>1. ASSUME NEW v \in BOOLEAN, NEW r \in BOOLEAN, NEW d \in Data, BufClk(v, d, r)
        PROVE FlagsAgree'
    BY <2>1, FlagsStep
  <2>2. CASE FifoReset
    BY <2>2 DEF FifoReset, FlagsAgree
  <2>3. CASE UNCHANGED fifo_vars
    BY <2>3 DEF fifo_vars, FifoIInv, FlagsAgree
  <2> QED BY <2>1, <2>2, <2>3 DEF FifoNext
<1>3. FifoIInv => FlagsAgree
  BY DEF FifoIInv
<1> QED BY <1>1, <1>2, <1>3, FifoTypeCorrect, PTL DEF FifoSpec

-----------------------------------------------------------------------------
(* The ring is a queue. *)

\* How many items the ring holds, and where the i-th of them is.
LEMMA RingFacts ==
  ASSUME FifoIInv
  PROVE  /\ rff_head \in 0 .. Depth - 1 /\ rff_tail \in 0 .. Depth - 1
         /\ Count \in 0 .. Depth
         /\ Count = 0 <=> rff_empty
         /\ Count = Depth <=> rff_full
         /\ \A i \in 0 .. Depth - 1 : Slot(i) \in Slots
         /\ Count < Depth => Slot(Count) = rff_tail
         /\ \A i, j \in 0 .. Depth - 1 : Slot(i) = Slot(j) => i = j
         /\ Slot(0) = rff_head
  BY DepthAssumption DEF FifoIInv, FifoTypeOK, FlagsAgree, Slots, Count, Slot

\* The queue the ring stands for is a sequence of items.
IsQueue == /\ Content \in Seq(Data) /\ Len(Content) = Count
           /\ \A i \in 1 .. Count : Content[i] = dff_fifo_ram[Slot(i - 1)]

LEMMA ContentSeq == FifoIInv => IsQueue
  <1> SUFFICES ASSUME FifoIInv PROVE IsQueue
    OBVIOUS
  <1>1. Count \in Nat /\ \A i \in 1 .. Count : dff_fifo_ram[Slot(i - 1)] \in Data
    <2>1. Count \in Nat /\ Count <= Depth
      BY RingFacts, DepthAssumption
    <2>2. ASSUME NEW i \in 1 .. Count PROVE dff_fifo_ram[Slot(i - 1)] \in Data
      <3>1. i - 1 \in 0 .. Depth - 1
        BY <2>1, DepthAssumption
      <3>2. Slot(i - 1) \in Slots
        BY <3>1, RingFacts
      <3> QED BY <3>2 DEF FifoIInv, FifoTypeOK
    <2> QED BY <2>1, <2>2
  <1>2. Content \in [1 .. Count -> Data]
    BY <1>1 DEF Content
  <1>3. Content \in Seq(Data)
    BY <1>1, <1>2, IsASeq
  <1> QED BY <1>1, <1>2, <1>3, LenProperties DEF Content, IsQueue

\* What one edge does to the queue: put, take, both or neither.  An item is never
\* written over one that is still inside, and the one that leaves is the oldest.
LEMMA EdgeOnContent ==
  ASSUME FifoIInv, FifoIInv', NEW v \in BOOLEAN, NEW r \in BOOLEAN, NEW d \in Data, BufClk(v, d, r)
  PROVE  /\ r /\ ~rff_empty => Content # <<>>
         /\ v /\ ~rff_full => Len(Content) < Depth
         /\ LET rest == IF r /\ ~rff_empty THEN Tail(Content) ELSE Content
            IN  Content' = IF v /\ ~rff_full THEN Append(rest, d) ELSE rest
  <1> DEFINE we == v /\ ~rff_full
             re == r /\ ~rff_empty
  <1>1. /\ rff_head \in 0 .. Depth - 1 /\ rff_tail \in 0 .. Depth - 1
        /\ rff_empty \in BOOLEAN /\ rff_full \in BOOLEAN
        /\ FlagsAgree /\ dff_fifo_ram \in [Slots -> Data]
    BY DEF FifoIInv, FifoTypeOK, Slots
  <1>2. /\ Content \in Seq(Data) /\ Len(Content) = Count /\ Count \in 0 .. Depth
        /\ \A i \in 1 .. Count : Content[i] = dff_fifo_ram[Slot(i - 1)]
        /\ \A i \in 0 .. Depth - 1 : Slot(i) \in Slots
        /\ Count < Depth => Slot(Count) = rff_tail
        /\ \A i, j \in 0 .. Depth - 1 : Slot(i) = Slot(j) => i = j
        /\ Count = 0 <=> rff_empty
        /\ Count = Depth <=> rff_full
    BY ContentSeq, RingFacts DEF IsQueue
  <1>3. IsQueue'
    BY ContentSeq, PTL
  <1>4. Count' = Count + (IF we THEN 1 ELSE 0) - (IF re THEN 1 ELSE 0)
    BY <1>1, DepthAssumption DEF FlagsAgree, BufClk, FifoEdge, Flags, Inc, Count
  <1>5. \A i \in 0 .. Depth - 1 : Slot(i)' = IF re THEN Slot(i + 1) ELSE Slot(i)
    BY <1>1, DepthAssumption DEF BufClk, FifoEdge, Inc, Slot
  <1>6. dff_fifo_ram' = IF we THEN [dff_fifo_ram EXCEPT ![rff_tail] = d] ELSE dff_fifo_ram
    BY DEF BufClk, FifoEdge
  <1>7. we => Count < Depth
    BY <1>2, DepthAssumption
  <1>8. re => Count > 0
    BY <1>2, DepthAssumption
  <1> HIDE DEF we, re
  \* What is inside and stays is not overwritten; what comes in is behind it.
  <1>9. ASSUME NEW i \in 0 .. Count - 1 PROVE dff_fifo_ram'[Slot(i)] = dff_fifo_ram[Slot(i)]
    <2>1. we => Slot(i) # rff_tail
      BY <1>2, <1>7, DepthAssumption
    <2> QED BY <1>2, <1>1, <1>6, <2>1
  <1>10. we => dff_fifo_ram'[Slot(Count)] = d
    BY <1>1, <1>2, <1>6, <1>7 DEF Slots
  <1>11. ASSUME NEW i \in 1 .. Count'
         PROVE  Content'[i] = IF i - 1 + (IF re THEN 1 ELSE 0) < Count
                              THEN Content[i + (IF re THEN 1 ELSE 0)] ELSE d
    <2>1. Content'[i] = dff_fifo_ram'[Slot(i - 1)']
      BY <1>3 DEF IsQueue
    <2>2. i - 1 \in 0 .. Depth - 1
      BY <1>2, <1>4, <1>7, <1>8, DepthAssumption
    <2>3. Slot(i - 1)' = Slot(i - 1 + (IF re THEN 1 ELSE 0))
      BY <1>5, <2>2
    <2> DEFINE k == i - 1 + (IF re THEN 1 ELSE 0)
    <2>4. Content'[i] = dff_fifo_ram'[Slot(k)]
      BY <2>1, <2>3
    <2>5. k \in 0 .. Count /\ (k = Count => we)
      BY <1>2, <1>4
    <2>6. k < Count => Content'[i] = dff_fifo_ram[Slot(k)]
      <3> SUFFICES ASSUME k < Count PROVE Content'[i] = dff_fifo_ram[Slot(k)]
        OBVIOUS
      <3>1. k \in 0 .. Count - 1
        BY <1>2, <2>5
      <3> HIDE DEF k
      <3>2. dff_fifo_ram'[Slot(k)] = dff_fifo_ram[Slot(k)]
        BY <3>1, <1>9
      <3> QED BY <3>2, <2>4
    <2>7. k < Count => Content[k + 1] = dff_fifo_ram[Slot(k)]
      BY <1>2, <2>5, DepthAssumption
    <2>8. ~(k < Count) => Content'[i] = d
      BY <1>2, <1>10, <2>4, <2>5
    <2>9. k + 1 = i + (IF re THEN 1 ELSE 0)
      OBVIOUS
    <2> QED BY <2>6, <2>7, <2>8, <2>9
  <1>12. Content' \in Seq(Data) /\ Len(Content') = Count'
    BY <1>3 DEF IsQueue
  <1>13. CASE we /\ ~re
    <2>1. Content' = Append(Content, d)
      BY <1>2, <1>4, <1>11, <1>12, <1>13, AppendProperties, SeqEqual
    <2> QED BY <2>1, <1>2, <1>7, <1>13 DEF we, re
  <1>14. CASE ~we /\ re
    <2>0. Content # <<>>
      BY <1>2, <1>8, <1>14
    <2>1. Content' = Tail(Content)
      BY <2>0, <1>2, <1>4, <1>8, <1>11, <1>12, <1>14, HeadTailProperties, SeqEqual
    <2> QED BY <2>0, <2>1, <1>14 DEF we, re
  <1>15. CASE we /\ re
    <2>0. Content # <<>>
      BY <1>2, <1>8, <1>15
    <2>1. Content' = Append(Tail(Content), d)
      <3>1. /\ Tail(Content) \in Seq(Data) /\ Len(Tail(Content)) = Count - 1
            /\ \A i \in 1 .. Count - 1 : Tail(Content)[i] = Content[i + 1]
        BY <2>0, <1>2, HeadTailProperties
      <3>2. /\ Append(Tail(Content), d) \in Seq(Data) /\ Len(Append(Tail(Content), d)) = Count
            /\ \A i \in 1 .. Count - 1 : Append(Tail(Content), d)[i] = Content[i + 1]
            /\ Append(Tail(Content), d)[Count] = d
        BY <3>1, <1>2, AppendProperties
      <3>3. Len(Content') = Count /\ \A i \in 1 .. Count : Content'[i] = Append(Tail(Content), d)[i]
        BY <3>2, <1>2, <1>4, <1>11, <1>12, <1>15
      <3> QED BY <3>2, <3>3, <1>12, SeqEqual
    <2> QED BY <2>0, <2>1, <1>2, <1>7, <1>15 DEF we, re
  <1>16. CASE ~we /\ ~re
    <2>1. Content' = Content
      BY <1>2, <1>4, <1>11, <1>12, <1>16, SeqEqual
    <2> QED BY <2>1, <1>16 DEF we, re
  <1> QED BY <1>13, <1>14, <1>15, <1>16

\* The outputs of the buffer are those of the queue: ready while there is room, and
\* the slot at the head is the oldest item.
LEMMA HeadShown ==
  ASSUME FifoIInv
  PROVE  /\ Content = <<>> <=> rff_empty
         /\ rff_full <=> Len(Content) >= Depth
         /\ ~rff_empty => Head(Content) = dff_fifo_ram[rff_head]
  <1>1. IsQueue /\ Count \in 0 .. Depth
    BY ContentSeq, RingFacts
  <1>2. Content = <<>> <=> rff_empty
    BY <1>1, RingFacts, EmptySeq DEF IsQueue
  <1>3. rff_full <=> Len(Content) >= Depth
    BY <1>1, RingFacts, DepthAssumption DEF IsQueue
  <1>4. ASSUME ~rff_empty PROVE Head(Content) = dff_fifo_ram[rff_head]
    <2>1. Head(Content) = Content[1] /\ Count \in Nat \ {0}
      BY <1>1, <1>2, <1>4, RingFacts, HeadTailProperties, DepthAssumption DEF IsQueue
    <2> QED BY <1>1, <2>1, RingFacts DEF IsQueue
  <1> QED BY <1>2, <1>3, <1>4

LEMMA ContentShown == FifoIInv => BQ!Shown
  <1> SUFFICES ASSUME FifoIInv PROVE BQ!Shown
    OBVIOUS
  <1>1. rff_full \in BOOLEAN /\ Len(Content) \in Nat
    BY ContentSeq, LenProperties DEF FifoIInv, FifoTypeOK, IsQueue
  <1>2. (~rff_full) = (Len(Content) < Depth)
    BY <1>1, HeadShown, DepthAssumption
  <1> QED BY <1>2, HeadShown DEF BQ!Shown

\* So an edge is a step of the bounded queue with the inputs of that edge.
LEMMA EdgeIsQueueStep ==
  ASSUME FifoIInv, FifoIInv', NEW v \in BOOLEAN, NEW r \in BOOLEAN, NEW d \in Data, BufClk(v, d, r)
  PROVE  BQ!Next
  <1> DEFINE offer == IF v THEN <<d>> ELSE <<>>
             rest == IF r /\ ~rff_empty THEN Tail(Content) ELSE Content
  <1>1. edge' = [rstn |-> TRUE, take |-> r, offer |-> offer]
    BY DEF BufClk
  <1>2. /\ edge'.take = r /\ edge'.offer = offer
        /\ edge' \in [rstn : {TRUE}, offer : BQ!Offers, take : BOOLEAN]
    BY <1>1 DEF BQ!Offers
  <1>3. /\ r /\ ~rff_empty => Content # <<>>
        /\ Content' = IF v /\ ~rff_full THEN Append(rest, d) ELSE rest
    BY EdgeOnContent
  <1>4. rest = IF edge'.take /\ Content # <<>> THEN Tail(Content) ELSE Content
    BY <1>2, HeadShown
  <1>5. rest \in Seq(Data)
    <2>1. Content \in Seq(Data)
      BY ContentSeq DEF IsQueue
    <2> QED BY <2>1, <1>3, HeadTailProperties
  <1> HIDE DEF rest
  <1>6. Content' = rest \o (IF ~rff_full THEN offer ELSE <<>>)
    <2>1. CASE v /\ ~rff_full
      BY <2>1, <1>3, <1>5, AppendIsConcat
    <2>2. CASE ~(v /\ ~rff_full)
      BY <2>2, <1>3, <1>5, ConcatEmptySeq
    <2> QED BY <2>1, <2>2
  <1> HIDE DEF offer
  <1>7. BQ!Cycle
    BY <1>2, <1>4, <1>6 DEF BQ!Cycle
  <1>8. BQ!Shown'
    BY ContentShown, PTL
  <1> QED BY <1>7, <1>8 DEF BQ!Next

\* An edge with rstn low empties the queue.
LEMMA ResetOnContent == ASSUME FifoIInv', FifoReset PROVE BQ!Next
  <1>1. BQ!Clear
    BY DEF FifoReset, BQ!Clear, Content, Count
  <1>2. BQ!Shown'
    BY ContentShown, PTL
  <1> QED BY <1>1, <1>2 DEF BQ!Next

LEMMA InitIsEmpty == FifoInit => BQ!Init
  <1> SUFFICES ASSUME FifoInit PROVE BQ!Init
    OBVIOUS
  <1>1. BQ!Shown
    BY FifoInitInv, ContentShown
  <1>2. Content = <<>> /\ ~edge.rstn
    BY DEF FifoInit, Content, Count
  <1> QED BY <1>1, <1>2 DEF BQ!Init

\* With nothing changed the queue and its wires stay.
LEMMA StillIsStill == ASSUME UNCHANGED fifo_vars PROVE UNCHANGED BQ!bq_vars
  BY DEF fifo_vars, BQ!bq_vars, Content, Count, Slot

\* The ring with its registered flags is a bounded queue, for every depth and every
\* pattern of valid, ready and reset: what is offered while slave_ready is up is
\* appended, the oldest item is shown and taken, and only a reset drops anything.
THEOREM FifoIsAQueue == FifoSpec => RefinesQueue
<1>1. FifoIInv /\ FifoIInv' /\ [FifoNext]_fifo_vars => [BQ!Next]_BQ!bq_vars
  <2> SUFFICES ASSUME FifoIInv, FifoIInv', [FifoNext]_fifo_vars PROVE [BQ!Next]_BQ!bq_vars
    OBVIOUS
  <2>1. ASSUME NEW v \in BOOLEAN, NEW r \in BOOLEAN, NEW d \in Data, BufClk(v, d, r)
        PROVE BQ!Next
    BY <2>1, EdgeIsQueueStep
  <2>2. CASE FifoReset
    BY <2>2, ResetOnContent
  <2>3. CASE UNCHANGED fifo_vars
    BY <2>3, StillIsStill
  <2> QED BY <2>1, <2>2, <2>3 DEF FifoNext
<1>2. FifoSpec => []FifoIInv
  BY FifoTypeCorrect, FlagsCorrect, PTL DEF FifoIInv
<1> QED BY InitIsEmpty, <1>1, <1>2, PTL DEF FifoSpec, RefinesQueue, BQ!Spec

-----------------------------------------------------------------------------
(* The numbering of the items, on sequences of whatever items.              *)

\* Nothing is under way: the next number is the one the output waits for.
LEMMA AlternatesEmpty ==
  ASSUME NEW i, NEW a \in {0, 1}
  PROVE  Alternates(<<>>, i, a, a)
<1> DEFINE num == [k \in 1 .. 1 |-> a]
<1>1. num \in [1 .. Len(<<>>) + 1 -> {0, 1}] /\ num[1] = a
  OBVIOUS
<1> HIDE DEF num
<1> QED BY <1>1 DEF Alternates

\* A sequence that is numbered from a to b may be taken apart anywhere ...
LEMMA AlternatesAppend ==
  ASSUME NEW S, NEW s \in Seq(S), NEW d \in S, NEW i, NEW a \in {0, 1}, NEW b \in {0, 1},
         Alternates(s, i, a, b), d.from = i => d.n = b
  PROVE  Alternates(Append(s, d), i, a, IF d.from = i THEN 1 - b ELSE b)
<1> DEFINE c == IF d.from = i THEN 1 - b ELSE b
           t == Append(s, d)
<1>0. Len(s) \in Nat /\ c \in {0, 1}
  BY LenProperties
<1>1. /\ Len(t) = Len(s) + 1
      /\ \A k \in 1 .. Len(s) : t[k] = s[k]
      /\ t[Len(s) + 1] = d
  BY AppendProperties
<1>2. PICK num \in [1 .. Len(s) + 1 -> {0, 1}] :
        /\ num[1] = a /\ num[Len(s) + 1] = b
        /\ \A k \in 1 .. Len(s) : IF s[k].from = i THEN s[k].n = num[k] /\ num[k + 1] = 1 - num[k]
                                                ELSE num[k + 1] = num[k]
  BY DEF Alternates
<1> DEFINE more == [k \in 1 .. Len(s) + 2 |-> IF k = Len(s) + 2 THEN c ELSE num[k]]
<1>3. /\ more \in [1 .. Len(s) + 2 -> {0, 1}]
      /\ \A k \in 1 .. Len(s) + 1 : more[k] = num[k]
      /\ more[Len(s) + 2] = c
  BY <1>0
<1>c. d.from = i => c = 1 - b
  OBVIOUS
<1>d. d.from # i => c = b
  OBVIOUS
<1> HIDE DEF more, c, t
<1>4. more[1] = a /\ more[Len(t) + 1] = c /\ more \in [1 .. Len(t) + 1 -> {0, 1}]
  BY <1>0, <1>1, <1>2, <1>3
<1>5. ASSUME NEW k \in 1 .. Len(t)
      PROVE  IF t[k].from = i THEN t[k].n = more[k] /\ more[k + 1] = 1 - more[k]
                              ELSE more[k + 1] = more[k]
  <2>1. CASE k \in 1 .. Len(s)
    <3>1. t[k] = s[k] /\ more[k] = num[k] /\ more[k + 1] = num[k + 1]
      BY <1>0, <1>1, <1>3, <2>1
    <3> QED BY <1>2, <2>1, <3>1
  <2>2. CASE k = Len(s) + 1
    <3>1. t[k] = d /\ more[k] = b /\ more[k + 1] = c
      BY <1>0, <1>1, <1>2, <1>3, <2>2
    <3> QED BY <3>1, <1>c, <1>d
  <2> QED BY <1>0, <1>1, <2>1, <2>2
<1>6. Alternates(t, i, a, c)
  BY <1>4, <1>5 DEF Alternates
<1> QED BY <1>6 DEF c, t

LEMMA AlternatesTail ==
  ASSUME NEW S, NEW s \in Seq(S), s # <<>>, NEW i, NEW a \in {0, 1}, NEW b \in {0, 1},
         Alternates(s, i, a, b)
  PROVE  /\ Head(s).from = i => Head(s).n = a
         /\ Alternates(Tail(s), i, IF Head(s).from = i THEN 1 - a ELSE a, b)
<1> DEFINE c == IF Head(s).from = i THEN 1 - a ELSE a
           t == Tail(s)
<1>0. Len(s) \in Nat \ {0}
  BY EmptySeq
<1>1. /\ Head(s) = s[1]
      /\ Len(t) = Len(s) - 1
      /\ \A k \in 1 .. Len(s) - 1 : t[k] = s[k + 1]
  BY HeadTailProperties
<1>2. PICK num \in [1 .. Len(s) + 1 -> {0, 1}] :
        /\ num[1] = a /\ num[Len(s) + 1] = b
        /\ \A k \in 1 .. Len(s) : IF s[k].from = i THEN s[k].n = num[k] /\ num[k + 1] = 1 - num[k]
                                                ELSE num[k + 1] = num[k]
  BY DEF Alternates
<1>3. num[2] = c /\ (Head(s).from = i => Head(s).n = a)
  BY <1>0, <1>1, <1>2
<1> DEFINE less == [k \in 1 .. Len(s) |-> num[k + 1]]
<1>4. less \in [1 .. Len(s) -> {0, 1}] /\ \A k \in 1 .. Len(s) : less[k] = num[k + 1]
  BY <1>0
<1> HIDE DEF less, c, t
<1>5. less[1] = c /\ less[Len(t) + 1] = b /\ less \in [1 .. Len(t) + 1 -> {0, 1}]
  BY <1>0, <1>1, <1>2, <1>3, <1>4
<1>6. ASSUME NEW k \in 1 .. Len(t)
      PROVE  IF t[k].from = i THEN t[k].n = less[k] /\ less[k + 1] = 1 - less[k]
                              ELSE less[k + 1] = less[k]
  <2>1. k + 1 \in 1 .. Len(s) /\ t[k] = s[k + 1] /\ less[k] = num[k + 1] /\ less[k + 1] = num[k + 2]
    BY <1>0, <1>1, <1>4
  <2>2. k + 1 + 1 = k + 2
    BY <1>0, <1>1
  <2> QED BY <1>2, <2>1, <2>2
<1>7. Alternates(t, i, c, b)
  BY <1>5, <1>6 DEF Alternates
<1> QED BY <1>3, <1>7 DEF c, t

\* ... and two such sequences be put together where the numbers meet.
LEMMA AlternatesConcat ==
  ASSUME NEW S, NEW s \in Seq(S), NEW t \in Seq(S), NEW i,
         NEW a \in {0, 1}, NEW c \in {0, 1}, NEW b \in {0, 1},
         Alternates(s, i, a, c), Alternates(t, i, c, b)
  PROVE  Alternates(s \o t, i, a, b)
<1> DEFINE u == s \o t
<1>0. Len(s) \in Nat /\ Len(t) \in Nat
  BY LenProperties
<1>1. /\ Len(u) = Len(s) + Len(t)
      /\ \A k \in 1 .. Len(s) + Len(t) : u[k] = IF k <= Len(s) THEN s[k] ELSE t[k - Len(s)]
  BY ConcatProperties
<1>2. PICK p \in [1 .. Len(s) + 1 -> {0, 1}] :
        /\ p[1] = a /\ p[Len(s) + 1] = c
        /\ \A k \in 1 .. Len(s) : IF s[k].from = i THEN s[k].n = p[k] /\ p[k + 1] = 1 - p[k]
                                                ELSE p[k + 1] = p[k]
  BY DEF Alternates
<1>3. PICK q \in [1 .. Len(t) + 1 -> {0, 1}] :
        /\ q[1] = c /\ q[Len(t) + 1] = b
        /\ \A k \in 1 .. Len(t) : IF t[k].from = i THEN t[k].n = q[k] /\ q[k + 1] = 1 - q[k]
                                                ELSE q[k + 1] = q[k]
  BY DEF Alternates
<1> DEFINE r == [k \in 1 .. Len(s) + Len(t) + 1 |-> IF k <= Len(s) THEN p[k] ELSE q[k - Len(s)]]
<1>4. \A k \in 1 .. Len(s) + Len(t) + 1 :
        /\ k <= Len(s) => r[k] = p[k]
        /\ ~(k <= Len(s)) => r[k] = q[k - Len(s)]
  BY <1>0
<1>5. r \in [1 .. Len(s) + Len(t) + 1 -> {0, 1}]
  <2> SUFFICES ASSUME NEW k \in 1 .. Len(s) + Len(t) + 1
               PROVE (IF k <= Len(s) THEN p[k] ELSE q[k - Len(s)]) \in {0, 1}
    OBVIOUS
  <2>1. CASE k <= Len(s)
    <3>1. k \in 1 .. Len(s) + 1
      BY <1>0, <2>1
    <3> QED BY <3>1, <2>1
  <2>2. CASE ~(k <= Len(s))
    <3>1. k - Len(s) \in 1 .. Len(t) + 1
      BY <1>0, <2>2
    <3> QED BY <3>1, <2>2
  <2> QED BY <2>1, <2>2
<1> HIDE DEF r, u
<1>6. r[Len(s) + 1] = c
  BY <1>0, <1>3, <1>4
<1>7. r[1] = a
  BY <1>0, <1>2, <1>3, <1>4
<1>8. r[Len(u) + 1] = b
  <2>1. Len(s) + Len(t) + 1 \in 1 .. Len(s) + Len(t) + 1 /\ ~(Len(s) + Len(t) + 1 <= Len(s))
    BY <1>0
  <2>2. Len(s) + Len(t) + 1 - Len(s) = Len(t) + 1
    BY <1>0
  <2> QED BY <1>1, <1>3, <1>4, <2>1, <2>2
<1>9. ASSUME NEW k \in 1 .. Len(u)
      PROVE  IF u[k].from = i THEN u[k].n = r[k] /\ r[k + 1] = 1 - r[k]
                              ELSE r[k + 1] = r[k]
  <2>0. k \in 1 .. Len(s) + Len(t)
    BY <1>1
  <2>1. CASE k <= Len(s)
    <3>1. k \in 1 .. Len(s) /\ u[k] = s[k] /\ r[k] = p[k]
      BY <1>0, <1>1, <1>4, <2>0, <2>1, SMTT(30)
    <3>2. r[k + 1] = p[k + 1]
      <4>1. CASE k = Len(s)
        BY <4>1, <1>2, <1>6
      <4>2. CASE k # Len(s)
        <5>1. k + 1 \in 1 .. Len(s) + Len(t) + 1 /\ k + 1 <= Len(s)
          BY <4>2, <2>0, <2>1, <1>0
        <5> QED BY <5>1, <1>4
      <4> QED BY <4>1, <4>2
    <3> QED BY <3>1, <3>2, <1>2
  <2>2. CASE ~(k <= Len(s))
    <3>1. k - Len(s) \in 1 .. Len(t) /\ k + 1 - Len(s) = k - Len(s) + 1
      BY <1>0, <2>0, <2>2
    <3>2. u[k] = t[k - Len(s)] /\ r[k] = q[k - Len(s)]
      <4>1. k \in 1 .. Len(s) + Len(t) + 1
        BY <1>0, <2>0
      <4> QED BY <4>1, <1>1, <1>4, <2>0, <2>2
    <3>3. r[k + 1] = q[k + 1 - Len(s)]
      BY <1>0, <1>4, <2>0, <2>2, SMTT(30)
    <3> QED BY <3>1, <3>2, <3>3, <1>3
  <2> QED BY <2>1, <2>2
<1>10. Alternates(u, i, a, b)
  BY <1>1, <1>5, <1>7, <1>8, <1>9 DEF Alternates
<1> QED BY <1>10 DEF u

-----------------------------------------------------------------------------
(***************************************************************************)
(* Arbiter, ring and input buffers together.  The invariant of each part   *)
(* holds, the arbiter's wires are the flags of the buffers, and the items  *)
(* of an input are numbered through the output buffer and on through the   *)
(* input's own, with some number c where the one ends and the other starts.*)
(***************************************************************************)
Wires == vld = {i \in Inputs : inq[i] # <<>>} /\ rdy = ~rff_full

QueuesOK == /\ inq \in [Inputs -> Seq(Items)]
            /\ \A i \in Inputs : \A k \in 1 .. Len(inq[i]) : inq[i][k].from = i
            /\ sent \in [Inputs -> {0, 1}]
            /\ got \in [Inputs -> {0, 1}]

Ordered == \A i \in Inputs : \E c \in {0, 1} : /\ Alternates(Content, i, got[i], c)
                                               /\ Alternates(inq[i], i, c, sent[i])

BufIInv == IInv /\ FifoIInv /\ Wires /\ QueuesOK /\ Ordered

\* What is granted is the oldest item of an input that has one.
LEMMA GrantedItem ==
  ASSUME BufIInv, grt # {}
  PROVE  \E g \in Inputs : /\ grt = {g} /\ inq[g] # <<>>
                           /\ master_info_buf_i = Head(inq[g])
                           /\ Head(inq[g]) \in Items /\ Head(inq[g]).from = g
<1>1. vld # {}
  BY NoRequestNoGrant DEF BufIInv
<1>2. PICK g \in vld : grt = {g}
  BY <1>1, GrantFacts DEF BufIInv
<1>3. g \in Inputs /\ inq[g] # <<>> /\ inq[g] \in Seq(Items)
  BY DEF BufIInv, Wires, QueuesOK
<1>4. Len(inq[g]) \in Nat \ {0}
  BY <1>3, EmptySeq
<1>5. Head(inq[g]) = inq[g][1] /\ Head(inq[g]) \in Items
  BY <1>3, HeadTailProperties
<1>6. inq[g][1].from = g
  BY <1>3, <1>4 DEF BufIInv, QueuesOK
<1>7. (CHOOSE i \in grt : TRUE) = g
  BY <1>2
<1> QED BY <1>2, <1>3, <1>5, <1>6, <1>7 DEF master_info_buf_i

\* A step is an edge of the ring that writes the granted item.
LEMMA StepIsEdge ==
  ASSUME BufIInv, NEW slave_valid \in SUBSET Inputs, NEW master_ready \in BOOLEAN,
         BufStep(slave_valid, master_ready)
  PROVE  \E v \in BOOLEAN, d \in Data : /\ v <=> grt # {}
                                        /\ grt # {} => d = master_info_buf_i
                                        /\ BufClk(v, d, master_ready)
<1>1. dff_fifo_ram[0] \in Data
  BY IncInRing DEF BufIInv, FifoIInv, FifoTypeOK
<1>2. grt # {} => master_info_buf_i \in Data
  BY GrantedItem, BufAssumption
<1> DEFINE vv == grt # {}
           dd == IF grt # {} THEN master_info_buf_i ELSE dff_fifo_ram[0]
<1>3. BufClk(vv, dd, master_ready) /\ vv \in BOOLEAN /\ (vv <=> grt # {})
  BY DEF BufStep
<1>4. dd \in Data /\ (grt # {} => dd = master_info_buf_i)
  BY <1>1, <1>2
<1> HIDE DEF vv, dd
<1> QED BY <1>3, <1>4

\* So the two parts keep their invariants.
LEMMA PartsStep ==
  ASSUME BufIInv, NEW slave_valid \in SUBSET Inputs, NEW master_ready \in BOOLEAN,
         BufStep(slave_valid, master_ready)
  PROVE  IInv' /\ FifoIInv' /\ Wires'
<1>1. IInv'
  <2>1. Clk /\ IInv
    BY DEF BufStep, BufIInv
  <2> QED BY <2>1, TypeStep, HeldStep, BudgetStep DEF IInv
<1>2. FifoIInv'
  <2>1. PICK v \in BOOLEAN, d \in Data : BufClk(v, d, master_ready)
    BY StepIsEdge
  <2> QED BY <2>1, RangesStep, FlagsStep DEF BufIInv, FifoIInv
<1>3. Wires'
  BY DEF BufStep, Wires
<1> QED BY <1>1, <1>2, <1>3

\* What a step does to the output buffer ...
LEMMA OutputStep ==
  ASSUME BufIInv, NEW slave_valid \in SUBSET Inputs, NEW master_ready \in BOOLEAN,
         BufStep(slave_valid, master_ready)
  PROVE  LET re == master_ready /\ ~rff_empty
             rest == IF re THEN Tail(Content) ELSE Content
         IN  /\ Content' = IF transfer THEN Append(rest, master_info_buf_i) ELSE rest
             /\ re => Content # <<>>
             /\ got' = IF re THEN [got EXCEPT ![Head(Content).from] = 1 - @] ELSE got
<1> DEFINE re == master_ready /\ ~rff_empty
           rest == IF re THEN Tail(Content) ELSE Content
<1>1. PICK v \in BOOLEAN, d \in Data : /\ v <=> grt # {}
                                       /\ grt # {} => d = master_info_buf_i
                                       /\ BufClk(v, d, master_ready)
  BY StepIsEdge
<1>2. FifoIInv /\ FifoIInv'
  BY PartsStep DEF BufIInv
<1>3. /\ re => Content # <<>>
      /\ Content' = IF v /\ ~rff_full THEN Append(rest, d) ELSE rest
  BY <1>1, <1>2, EdgeOnContent
<1>4. v /\ ~rff_full <=> transfer
  BY <1>1 DEF BufIInv, Wires, transfer
<1>5. re => Head(Content) = dff_fifo_ram[rff_head]
  BY <1>2, HeadShown
<1>6. got' = IF re THEN [got EXCEPT ![dff_fifo_ram[rff_head].from] = 1 - @] ELSE got
  BY DEF BufStep
<1> HIDE DEF re, rest
<1>7. got' = IF re THEN [got EXCEPT ![Head(Content).from] = 1 - @] ELSE got
  BY <1>5, <1>6
<1>8. Content' = IF transfer THEN Append(rest, master_info_buf_i) ELSE rest
  BY <1>1, <1>3, <1>4 DEF transfer
<1> QED BY <1>3, <1>7, <1>8 DEF re, rest

\* ... and to the input buffers: the granted one may be popped, and any of them
\* may take in a next item.
LEMMA InputStep ==
  ASSUME BufIInv, NEW slave_valid \in SUBSET Inputs, NEW master_ready \in BOOLEAN,
         BufStep(slave_valid, master_ready), NEW i \in Inputs
  PROVE  LET rest == IF transfer /\ i \in grt THEN Tail(inq[i]) ELSE inq[i]
             new == [from |-> i, n |-> sent[i]]
         IN  /\ rest \in Seq(Items) /\ new \in Items
             /\ \A k \in 1 .. Len(rest) : rest[k].from = i
             /\ \/ inq'[i] = rest /\ sent'[i] = sent[i]
                \/ inq'[i] = Append(rest, new) /\ sent'[i] = 1 - sent[i]
<1> DEFINE rest == IF transfer /\ i \in grt THEN Tail(inq[i]) ELSE inq[i]
           new == [from |-> i, n |-> sent[i]]
<1>1. inq[i] \in Seq(Items) /\ \A k \in 1 .. Len(inq[i]) : inq[i][k].from = i
  BY DEF BufIInv, QueuesOK
<1>2. new \in Items
  BY DEF BufIInv, QueuesOK, Items
<1>3. rest \in Seq(Items) /\ \A k \in 1 .. Len(rest) : rest[k].from = i
  <2>1. CASE transfer /\ i \in grt
    <3>1. inq[i] # <<>>
      BY <2>1, GrantedItem
    <3>2. /\ Tail(inq[i]) \in Seq(Items) /\ Len(Tail(inq[i])) = Len(inq[i]) - 1
          /\ \A k \in 1 .. Len(inq[i]) - 1 : Tail(inq[i])[k] = inq[i][k + 1]
          /\ Len(inq[i]) \in Nat
      BY <1>1, <3>1, HeadTailProperties, LenProperties
    <3>3. \A k \in 1 .. Len(Tail(inq[i])) : Tail(inq[i])[k].from = i
      BY <1>1, <3>2
    <3> QED BY <2>1, <3>2, <3>3
  <2>2. CASE ~(transfer /\ i \in grt)
    BY <1>1, <2>2
  <2> QED BY <2>1, <2>2
<1>4. inq'[i] = rest \o (IF i \in Pushed(slave_valid) THEN <<new>> ELSE <<>>)
  <2>1. i \in slave_ready_buf_o <=> transfer /\ i \in grt
    BY DEF slave_ready_buf_o, transfer
  <2>2. inq'[i] = (IF i \in slave_ready_buf_o THEN Tail(inq[i]) ELSE inq[i]) \o
                  (IF i \in Pushed(slave_valid) THEN <<new>> ELSE <<>>)
    BY DEF BufStep, BufIn
  <2> QED BY <2>1, <2>2
<1>5. sent'[i] = IF i \in Pushed(slave_valid) THEN 1 - sent[i] ELSE sent[i]
  BY DEF BufStep
<1> HIDE DEF rest, new
<1>6. CASE i \in Pushed(slave_valid)
  <2>1. inq'[i] = Append(rest, new)
    BY <1>2, <1>3, <1>4, <1>6, AppendIsConcat
  <2> QED BY <1>2, <1>3, <1>5, <1>6, <2>1 DEF rest, new
<1>7. CASE i \notin Pushed(slave_valid)
  <2>1. inq'[i] = rest
    BY <1>3, <1>4, <1>7, ConcatEmptySeq
  <2> QED BY <1>2, <1>3, <1>5, <1>7, <2>1 DEF rest, new
<1> QED BY <1>6, <1>7

LEMMA QueuesStep ==
  ASSUME BufIInv, NEW slave_valid \in SUBSET Inputs, NEW master_ready \in BOOLEAN,
         BufStep(slave_valid, master_ready)
  PROVE  QueuesOK'
<1>1. ASSUME NEW i \in Inputs
      PROVE  /\ inq'[i] \in Seq(Items)
             /\ \A k \in 1 .. Len(inq'[i]) : inq'[i][k].from = i
  <2> DEFINE rest == IF transfer /\ i \in grt THEN Tail(inq[i]) ELSE inq[i]
             new == [from |-> i, n |-> sent[i]]
  <2>1. /\ rest \in Seq(Items) /\ new \in Items /\ new.from = i
        /\ \A k \in 1 .. Len(rest) : rest[k].from = i
        /\ inq'[i] = rest \/ inq'[i] = Append(rest, new)
    BY InputStep
  <2> HIDE DEF rest, new
  <2>2. CASE inq'[i] = rest
    BY <2>1, <2>2
  <2>3. CASE inq'[i] = Append(rest, new)
    <3>1. /\ Append(rest, new) \in Seq(Items)
          /\ Len(Append(rest, new)) = Len(rest) + 1
          /\ \A k \in 1 .. Len(rest) : Append(rest, new)[k] = rest[k]
          /\ Append(rest, new)[Len(rest) + 1] = new
          /\ Len(rest) \in Nat
      BY <2>1, AppendProperties, LenProperties
    <3>2. ASSUME NEW k \in 1 .. Len(rest) + 1 PROVE Append(rest, new)[k].from = i
      <4>1. k \in 1 .. Len(rest) \/ k = Len(rest) + 1
        BY <3>1
      <4> QED BY <2>1, <3>1, <4>1
    <3> QED BY <2>3, <3>1, <3>2
  <2> QED BY <2>1, <2>2, <2>3
<1>2. inq' = [i \in Inputs |-> inq'[i]]
  BY DEF BufStep, BufIn
<1>3. sent' \in [Inputs -> {0, 1}] /\ got' \in [Inputs -> {0, 1}]
  <2>1. sent \in [Inputs -> {0, 1}] /\ got \in [Inputs -> {0, 1}] /\ \A b \in {0, 1} : 1 - b \in {0, 1}
    BY DEF BufIInv, QueuesOK
  <2>2. sent' \in [Inputs -> {0, 1}]
    BY <2>1 DEF BufStep
  <2>3. got' = got \/ \E j : got' = [got EXCEPT ![j] = 1 - @]
    BY DEF BufStep
  <2>4. ASSUME NEW j, got' = [got EXCEPT ![j] = 1 - @] PROVE got' \in [Inputs -> {0, 1}]
    <3>1. CASE j \in Inputs
      BY <2>1, <2>4, <3>1
    <3>2. CASE j \notin Inputs
      BY <2>1, <2>4, <3>2
    <3> QED BY <3>1, <3>2
  <2> QED BY <2>1, <2>2, <2>3, <2>4
<1>4. inq' \in [Inputs -> Seq(Items)]
  BY <1>1, <1>2
<1> QED BY <1>1, <1>3, <1>4 DEF QueuesOK

\* The numbering goes on through both buffers: what leaves an input buffer joins
\* the output buffer in the same edge, behind what was there.
LEMMA OrderStep ==
  ASSUME BufIInv, NEW slave_valid \in SUBSET Inputs, NEW master_ready \in BOOLEAN,
         BufStep(slave_valid, master_ready)
  PROVE  Ordered'
<1> SUFFICES ASSUME NEW i \in Inputs
             PROVE  \E c \in {0, 1} : /\ Alternates(Content', i, got'[i], c)
                                      /\ Alternates(inq'[i], i, c, sent'[i])
  BY DEF Ordered, Alternates
<1>1. PICK c \in {0, 1} : Alternates(Content, i, got[i], c) /\ Alternates(inq[i], i, c, sent[i])
  BY DEF BufIInv, Ordered
<1>2. /\ got \in [Inputs -> {0, 1}] /\ got[i] \in {0, 1} /\ sent[i] \in {0, 1}
      /\ inq[i] \in Seq(Items) /\ Content \in Seq(Data)
  BY ContentSeq DEF BufIInv, QueuesOK, IsQueue
\* The output takes the oldest item.
<1> DEFINE re == master_ready /\ ~rff_empty
           out == IF re THEN Tail(Content) ELSE Content
<1>3. /\ Content' = IF transfer THEN Append(out, master_info_buf_i) ELSE out
      /\ re => Content # <<>>
      /\ got' = IF re THEN [got EXCEPT ![Head(Content).from] = 1 - @] ELSE got
  BY OutputStep
<1>4. Alternates(out, i, got'[i], c) /\ out \in Seq(Data) /\ got'[i] \in {0, 1}
  <2>1. CASE re
    <3>1. Alternates(Tail(Content), i, IF Head(Content).from = i THEN 1 - got[i] ELSE got[i], c)
      BY <1>1, <1>2, <1>3, <2>1, AlternatesTail
    <3>2. got'[i] = IF Head(Content).from = i THEN 1 - got[i] ELSE got[i]
      BY <1>2, <1>3, <2>1
    <3>3. Tail(Content) \in Seq(Data)
      BY <1>2, <1>3, <2>1, HeadTailProperties
    <3> QED BY <1>2, <2>1, <3>1, <3>2, <3>3
  <2>2. CASE ~re
    BY <1>1, <1>2, <1>3, <2>2
  <2> QED BY <2>1, <2>2
<1> HIDE DEF re, out
\* The granted item moves.
<1> DEFINE in == IF transfer /\ i \in grt THEN Tail(inq[i]) ELSE inq[i]
<1>5. PICK e \in {0, 1} : Alternates(Content', i, got'[i], e) /\ Alternates(in, i, e, sent[i])
  <2>1. CASE transfer
    <3>1. PICK g \in Inputs : /\ grt = {g} /\ inq[g] # <<>>
                              /\ master_info_buf_i = Head(inq[g])
                              /\ Head(inq[g]) \in Items /\ Head(inq[g]).from = g
      BY <2>1, GrantedItem DEF transfer
    <3>2. Head(inq[g]) \in Data
      BY <3>1, BufAssumption
    <3>3. CASE g = i
      <4>1. Head(inq[i]).n = c /\ Alternates(Tail(inq[i]), i, 1 - c, sent[i])
        BY <1>1, <1>2, <3>1, <3>3, AlternatesTail
      <4>2. Alternates(Append(out, Head(inq[i])), i, got'[i], 1 - c)
        BY <1>4, <3>1, <3>2, <3>3, <4>1, AlternatesAppend
      <4> QED BY <1>3, <2>1, <3>1, <3>3, <4>1, <4>2
    <3>4. CASE g # i
      <4>1. Alternates(Append(out, Head(inq[g])), i, got'[i], c)
        BY <1>4, <3>1, <3>2, <3>4, AlternatesAppend
      <4> QED BY <1>1, <1>3, <2>1, <3>1, <3>4, <4>1
    <3> QED BY <3>3, <3>4
  <2>2. CASE ~transfer
    BY <1>1, <1>3, <1>4, <2>2
  <2> QED BY <2>1, <2>2
\* The input takes in a next item.
<1> DEFINE new == [from |-> i, n |-> sent[i]]
<1>6. /\ in \in Seq(Items) /\ new \in Items
      /\ \/ inq'[i] = in /\ sent'[i] = sent[i]
         \/ inq'[i] = Append(in, new) /\ sent'[i] = 1 - sent[i]
  BY InputStep
<1>7. new.from = i /\ new.n = sent[i]
  OBVIOUS
<1> HIDE DEF in, new
<1>8. Alternates(inq'[i], i, e, sent'[i])
  <2>1. CASE inq'[i] = in /\ sent'[i] = sent[i]
    BY <1>5, <2>1
  <2>2. CASE inq'[i] = Append(in, new) /\ sent'[i] = 1 - sent[i]
    <3>1. Alternates(Append(in, new), i, e, 1 - sent[i])
      BY <1>2, <1>5, <1>6, <1>7, AlternatesAppend
    <3> QED BY <2>2, <3>1
  <2> QED BY <1>6, <2>1, <2>2
<1> QED BY <1>5, <1>8

LEMMA BufInductive == BufSpec => []BufIInv
<1>1. BufInit => BufIInv
  <2> SUFFICES ASSUME BufInit PROVE BufIInv
    OBVIOUS
  <2>1. IInv
    BY InitInv DEF BufInit
  <2>2. FifoIInv
    BY FifoInitInv DEF BufInit
  <2>3. Wires
    BY DEF BufInit, FifoInit, Wires
  <2>4. QueuesOK
    <3>1. <<>> \in Seq(Items) /\ Len(<<>>) = 0
      BY EmptySeq
    <3> QED BY <3>1 DEF BufInit, QueuesOK
  <2>5. Ordered
    <3> SUFFICES ASSUME NEW i \in Inputs
                 PROVE  Alternates(Content, i, got[i], 0) /\ Alternates(inq[i], i, 0, sent[i])
      BY DEF Ordered
    <3>1. Content = <<>>
      BY DEF BufInit, FifoInit, Content, Count
    <3>2. inq[i] = <<>> /\ got[i] = 0 /\ sent[i] = 0
      BY DEF BufInit
    <3> QED BY <3>1, <3>2, AlternatesEmpty
  <2> QED BY <2>1, <2>2, <2>3, <2>4, <2>5 DEF BufIInv
<1>2. BufIInv /\ [BufNext]_buf_vars => BufIInv'
  <2> SUFFICES ASSUME BufIInv, [BufNext]_buf_vars PROVE BufIInv'
    OBVIOUS
  <2>1. ASSUME NEW slave_valid \in SUBSET Inputs, NEW master_ready \in BOOLEAN,
               BufStep(slave_valid, master_ready)
        PROVE  BufIInv'
    BY <2>1, PartsStep, QueuesStep, OrderStep DEF BufIInv
  <2>2. CASE UNCHANGED buf_vars
    <3>1. IInv'
      BY <2>2 DEF buf_vars, vars, BufIInv, IInv, TypeOK, HeldGrant, Budget, Dist
    <3>2. FifoIInv' /\ Content' = Content
      BY <2>2 DEF buf_vars, fifo_vars, BufIInv, FifoIInv, FifoTypeOK, FlagsAgree, Content, Count, Slot
    <3>3. Wires' /\ QueuesOK'
      BY <2>2 DEF buf_vars, fifo_vars, vars, BufIInv, Wires, QueuesOK
    <3>4. Ordered'
      BY <2>2, <3>2 DEF buf_vars, BufIInv, Ordered, Alternates
    <3> QED BY <3>1, <3>2, <3>3, <3>4 DEF BufIInv
  <2> QED BY <2>1, <2>2 DEF BufNext
<1> QED BY <1>1, <1>2, PTL DEF BufSpec

\* From end to end, for every number of inputs and every depth of the buffers, an
\* item of an input is neither lost nor repeated nor overtaken by a later one.
THEOREM EndToEndOrder == BufSpec => []InOrder
<1>1. BufIInv => InOrder
  <2> SUFFICES ASSUME BufIInv, NEW i \in Inputs
               PROVE  Alternates(Content \o inq[i], i, got[i], sent[i])
    BY DEF InOrder
  <2>1. PICK c \in {0, 1} : Alternates(Content, i, got[i], c) /\ Alternates(inq[i], i, c, sent[i])
    BY DEF BufIInv, Ordered
  <2>2. got[i] \in {0, 1} /\ sent[i] \in {0, 1} /\ inq[i] \in Seq(Items)
    BY DEF BufIInv, QueuesOK
  <2>3. inq[i] \in Seq(Data)
    BY <2>2, BufAssumption, SeqMonotonic
  <2>4. Content \in Seq(Data)
    BY ContentSeq DEF BufIInv, IsQueue
  <2> QED BY <2>1, <2>2, <2>3, <2>4, AlternatesConcat
<1> QED BY <1>1, BufInductive, PTL

\* Inside the composition the ring is that queue, and it is never cleared: what the
\* arbiter grants is appended exactly when the ring is ready for it, nothing already
\* inside is dropped or written over, and the items leave in the order they came.
THEOREM OutputIsAQueue == BufSpec => RefinesQueue /\ [][~BQ!Clear]_buf_vars
<1>1. BufInit => BQ!Init
  BY InitIsEmpty DEF BufInit
<1>2. BufIInv /\ BufIInv' /\ [BufNext]_buf_vars => [BQ!Next]_BQ!bq_vars /\ [~BQ!Clear]_buf_vars
  <2> SUFFICES ASSUME BufIInv, BufIInv', [BufNext]_buf_vars
               PROVE  [BQ!Next]_BQ!bq_vars /\ [~BQ!Clear]_buf_vars
    OBVIOUS
  <2>1. ASSUME NEW slave_valid \in SUBSET Inputs, NEW master_ready \in BOOLEAN,
               BufStep(slave_valid, master_ready)
        PROVE  BQ!Next /\ ~BQ!Clear
    <3>1. PICK v \in BOOLEAN, d \in Data : BufClk(v, d, master_ready)
      BY <2>1, StepIsEdge
    <3>2. BQ!Next
      BY <3>1, EdgeIsQueueStep DEF BufIInv
    <3>3. edge'.rstn
      BY <3>1 DEF BufClk
    <3> QED BY <3>2, <3>3 DEF BQ!Clear
  <2>2. CASE UNCHANGED buf_vars
    BY <2>2, StillIsStill DEF buf_vars
  <2> QED BY <2>1, <2>2 DEF BufNext
<1> QED BY <1>1, <1>2, BufInductive, PTL DEF BufSpec, RefinesQueue, BQ!Spec

\* ... and the arbiter keeps its promises with the buffers around it: the bound on
\* the bypass and the grant that stays.
THEOREM ArbiterKeepsItsPromises == BufSpec => []BoundedBypass /\ GrantStable
<1>1. BufIInv => BoundedBypass
  BY BudgetBounds DEF BufIInv
<1>2. BufIInv /\ [BufNext]_buf_vars => [grt # {} /\ ~rdy => grt' = grt]_vars
  <2> SUFFICES ASSUME BufIInv, [BufNext]_buf_vars PROVE [grt # {} /\ ~rdy => grt' = grt]_vars
    OBVIOUS
  <2>1. CASE BufNext
    BY <2>1, FrozenStays DEF BufNext, BufStep
  <2>2. CASE UNCHANGED buf_vars
    BY <2>2 DEF buf_vars
  <2> QED BY <2>1, <2>2
<1> QED BY <1>1, <1>2, BufInductive, PTL DEF BufSpec, GrantStable
=============================================================================
