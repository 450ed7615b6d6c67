---------------------------- MODULE L2Bank_proofs ----------------------------
(***************************************************************************)
(* Proofs about L2Bank, for every number of indices, tags, ways, MSHRs and *)
(* bursts, and for every set of requests.                                  *)
(*                                                                         *)
(* IndexExclusive and AmoIsolated are not inductive.  The store half of an *)
(* atomic enters s1 without the checks of stage 1, so the exclusion of     *)
(* indices rests on the store coming alone, and that on where the load     *)
(* half has been: AmoPhase says it is in at most one of s1, s2, s3, an MSHR*)
(* or with the core, that the lock is its own all that time, and that what *)
(* is younger is not in the pipeline.  Accounted finds the owner of each   *)
(* write that is still owed.                                               *)
(*                                                                         *)
(* MissBookkeeping and ResponsesDoNotCollide, in the second half, rest on  *)
(* where an MSHR is: OnePlace says that a valid one is in exactly one of   *)
(* the FIFOs and registers on its way through the bank.                    *)
(*                                                                         *)
(* The last part is about banks without atomics: OneWayPerLine,            *)
(* CleanMeansInMemory and ReadsCoherent, by way of what stage 3 knows about*)
(* the RAM when it decides, and of where the only copy of a victim is.     *)
(***************************************************************************)
EXTENDS L2Bank, FiniteSetTheorems, SequenceTheorems, WellFoundedInduction, TLAPS

\* Where the load half of an atomic can be.
InS1 == s1.valid /\ s1.type = "AMO_LR"
InS2 == s2.valid /\ s2.type = "AMO_LR"
InS3 == s3.valid /\ s3.type = "AMO_LR" /\ s3.hit
InMshr == \E m \in Ids : mshr[m].type = "AMO_LR"

Alone == ~s1.valid /\ ~s2.valid

AmoPhase ==
  /\ InS1 \/ InS2 \/ InS3 \/ InMshr \/ amo => lock.type = "AMO_LR"
  /\ InS1 => s1.idx = lock.idx /\ ~InS2 /\ ~InS3 /\ ~InMshr /\ ~amo
  /\ InS2 => s2.idx = lock.idx /\ ~s1.valid /\ ~InS3 /\ ~InMshr /\ ~amo
  /\ InS3 => Alone /\ ~same_index_mshr(lock.idx) /\ ~InMshr /\ ~amo
  /\ \A m \in Ids : mshr[m].type = "AMO_LR" => mshr[m].idx = lock.idx /\ Alone /\ ~amo
  /\ amo => Alone /\ ~same_index_mshr(lock.idx)

Shapes ==
  /\ lock \in Request \cup {NoReq}
  /\ amo \in BOOLEAN
  /\ \A m \in Ids : mshr[m].valid \/ mshr[m] = Empty

\* A write that has not been performed yet.
WriteType(x) == \/ x.type \in {"WRITE", "AMO_SC"}
              \/ x.type = "SC"

PendingWrite(x) == x.valid /\ WriteType(x) /\ (x.type = "SC" => x.sc = "OK")

Accounted ==
  \A a \in owed :
    \/ PendingWrite(s1) /\ line(s1) = a
    \/ PendingWrite(s2) /\ line(s2) = a
    \/ \E m \in valid_mshrs : WriteType(mshr[m]) /\ line(mshr[m]) = a

IInv == Shapes /\ IndexExclusive /\ AmoPhase /\ Accounted

-----------------------------------------------------------------------------
(* What a clock edge does to each register, whatever the wires. *)

\* What the wires can be.
LEMMA InputFacts ==
  ASSUME NEW in \in Inputs
  PROVE  /\ in.req \in Reqs \cup {NoReq}
         /\ in.r \in Ids \cup {NoId}
         /\ in.amo => amo
  BY DEF Inputs, Wires, Choice, Bursts

\* s1 holds, empties or takes what enters; s2 holds, empties or takes s1.
LEMMA PipeMoves ==
  ASSUME NEW in, Pipeline(in)
  PROVE  /\ \/ s1' = s1 /\ ~s2_ready(in)
            \/ s1' = Empty /\ s2_ready(in) /\ entering(in) = NoReq
            \/ /\ s2_ready(in) /\ entering(in) # NoReq
               /\ s1'.valid /\ s1'.type = entering(in).type
               /\ s1'.idx = entering(in).idx /\ s1'.tag = entering(in).tag
               /\ s1'.sc = sc(in)
         /\ \/ s2' = s2 /\ ~s3_ready(in)
            \/ s2' = Empty /\ s3_ready(in) /\ (~s1.valid \/ s2_stall(in))
            \/ /\ s3_ready(in) /\ s1.valid /\ ~s2_stall(in)
               /\ s2'.valid /\ s2'.type = s1.type
               /\ s2'.idx = s1.idx /\ s2'.tag = s1.tag /\ s2'.sc = s1.sc
  <1>1. \/ s1' = s1 /\ ~s2_ready(in)
        \/ s1' = Empty /\ s2_ready(in) /\ entering(in) = NoReq
        \/ /\ s2_ready(in) /\ entering(in) # NoReq
           /\ s1'.valid /\ s1'.type = entering(in).type
           /\ s1'.idx = entering(in).idx /\ s1'.tag = entering(in).tag
           /\ s1'.sc = sc(in)
    BY DEF Pipeline
  <1>2. \/ s2' = s2 /\ ~s3_ready(in)
        \/ s2' = Empty /\ s3_ready(in) /\ (~s1.valid \/ s2_stall(in))
        \/ /\ s3_ready(in) /\ s1.valid /\ ~s2_stall(in)
           /\ s2'.valid /\ s2'.type = s1.type
           /\ s2'.idx = s1.idx /\ s2'.tag = s1.tag /\ s2'.sc = s1.sc
    BY DEF Pipeline
  <1> QED BY <1>1, <1>2

\* An MSHR takes the request in s2, is freed, or is left alone.
LEMMA MshrMoves ==
  ASSUME NEW in, Miss(in), NEW m \in Ids
  PROVE  \/ /\ mshr_we(in) /\ m = new_mshr_id
            /\ mshr'[m].valid /\ mshr'[m].type = s2.type
            /\ mshr'[m].idx = s2.idx /\ mshr'[m].tag = s2.tag
         \/ mshr'[m] = Empty /\ m \in retired(in)
         \/ mshr'[m] = mshr[m] /\ m \notin retired(in)
  BY DEF Miss, new_mshr

\* A request that gets an MSHR leaves s2.
LEMMA MissLeaves ==
  ASSUME NEW in, mshr_we(in)
  PROVE  s2.valid /\ s3_ready(in)
  BY DEF mshr_we, s3_ready

\* What enters is the store half, which the core owes, or a request of the NoC
\* that passed the checks of stage 1.
LEMMA EnterFacts ==
  ASSUME NEW in \in Inputs, entering(in) # NoReq, Shapes
  PROVE  \/ /\ amo /\ lock # NoReq
            /\ entering(in).type = "AMO_SC"
            /\ entering(in).idx = lock.idx /\ entering(in).tag = lock.tag
         \/ /\ ~l2_amo_store(in) /\ lock = NoReq /\ accepts(in) /\ entering(in) = in.req
            /\ in.req \in Reqs /\ ~s1_stall(in.req)
  <1>1. CASE l2_amo_store(in) /\ s2_ready(in)
    <2>1. amo /\ lock # NoReq
      BY <1>1, InputFacts DEF l2_amo_store
    <2> QED BY <1>1, <2>1 DEF entering
  <1>2. CASE ~(l2_amo_store(in) /\ s2_ready(in))
    <2>1. accepts(in) /\ entering(in) = in.req
      BY <1>2 DEF entering
    <2>2. lock = NoReq /\ ~s1_stall(in.req) /\ in.req # NoReq
      BY <2>1 DEF accepts
    <2> QED BY <2>1, <2>2, InputFacts DEF l2_amo_store
  <1> QED BY <1>1, <1>2

-----------------------------------------------------------------------------
\* The exclusion of indices is kept by a clock edge.
LEMMA ExclusiveStep ==
  ASSUME IInv, NEW in \in Inputs, Pipeline(in), Miss(in)
  PROVE  IndexExclusive'
  <1> USE DEF IInv
  <1>1. ASSUME NEW m \in valid_mshrs'
        PROVE  /\ m \in Ids
               /\ \/ m \in valid_mshrs /\ mshr'[m] = mshr[m]
                  \/ mshr_we(in) /\ m = new_mshr_id /\ mshr'[m].idx = s2.idx
    BY <1>1, MshrMoves DEF valid_mshrs, Empty
  <1>2. ASSUME s1'.valid PROVE ~same_index_mshr(s1.idx)' /\ ~(s2'.valid /\ s2'.idx = s1'.idx)
    <2>1. CASE s1' = s1 /\ ~s2_ready(in)
      <3>1. ~same_index_mshr(s1.idx) /\ ~(s2.valid /\ s2.idx = s1.idx)
        BY <1>2, <2>1 DEF IndexExclusive
      <3>2. ~same_index_mshr(s1.idx)'
        BY <3>1, <2>1, <1>1, MissLeaves DEF same_index_mshr
      <3>3. s2' = s2 \/ s2' = Empty
        BY <2>1, <1>2, PipeMoves DEF s2_ready
      <3> QED BY <3>1, <3>2, <3>3, <2>1 DEF Empty
    <2>2. CASE s2_ready(in) /\ entering(in) # NoReq /\ s1'.idx = entering(in).idx
      <3>1. CASE amo /\ lock # NoReq /\ entering(in).idx = lock.idx
        <4>1. Alone /\ ~same_index_mshr(lock.idx)
          BY <3>1 DEF AmoPhase
        <4>2. ~s2'.valid
          BY <4>1, PipeMoves DEF Alone, Empty
        <4>3. ~same_index_mshr(s1.idx)'
          BY <4>1, <3>1, <2>2, <1>1, MissLeaves DEF same_index_mshr, Alone
        <4> QED BY <4>2, <4>3
      <3>2. CASE entering(in) = in.req /\ ~s1_stall(in.req)
        <4>1. /\ ~same_index_mshr(s1'.idx)
              /\ ~(s1.valid /\ s1.idx = s1'.idx)
              /\ ~(s2.valid /\ s2.idx = s1'.idx)
          BY <3>2, <2>2 DEF s1_stall
        <4>2. ~same_index_mshr(s1.idx)'
          BY <4>1, <1>1, MissLeaves DEF same_index_mshr
        <4>3. ~(s2'.valid /\ s2'.idx = s1'.idx)
          BY <4>1, PipeMoves DEF Empty
        <4> QED BY <4>2, <4>3
      <3> QED BY <2>2, <3>1, <3>2, EnterFacts
    <2> QED BY <1>2, <2>1, <2>2, PipeMoves DEF Empty
  <1>3. ASSUME s2'.valid PROVE ~same_index_mshr(s2.idx)'
    <2>1. CASE s2' = s2 /\ ~s3_ready(in)
      BY <1>1, <1>3, <2>1, MissLeaves DEF IndexExclusive, same_index_mshr
    <2>2. CASE s3_ready(in) /\ s1.valid /\ ~s2_stall(in) /\ s2'.idx = s1.idx
      <3>1. ~(s2.valid /\ s2.idx = s1.idx) /\ ~same_index_mshr(s1.idx)
        BY <2>2 DEF s2_stall
      <3> QED BY <3>1, <2>2, <1>1, MissLeaves DEF same_index_mshr
    <2> QED BY <1>3, <2>1, <2>2, PipeMoves DEF Empty
  <1>4. ASSUME NEW m \in valid_mshrs', NEW n \in valid_mshrs', mshr'[m].idx = mshr'[n].idx
        PROVE  m = n
    <2>1. mshr_we(in) => ~same_index_mshr(s2.idx)
      BY MissLeaves DEF IndexExclusive
    <2>2. CASE m \in valid_mshrs /\ mshr'[m] = mshr[m] /\ n \in valid_mshrs /\ mshr'[n] = mshr[n]
      BY <1>4, <2>2 DEF IndexExclusive
    <2>3. CASE mshr_we(in) /\ m = new_mshr_id /\ mshr'[m].idx = s2.idx
      BY <1>1, <1>4, <2>1, <2>3 DEF same_index_mshr
    <2>4. CASE mshr_we(in) /\ n = new_mshr_id /\ mshr'[n].idx = s2.idx
      BY <1>1, <1>4, <2>1, <2>4 DEF same_index_mshr
    <2> QED BY <1>1, <2>2, <2>3, <2>4
  <1> QED BY <1>2, <1>3, <1>4 DEF IndexExclusive

\* The shapes of the lock, the flag of the core and the MSHRs.
LEMMA ShapesStep ==
  ASSUME IInv, NEW in \in Inputs, Clk(in)
  PROVE  Shapes'
  <1> USE DEF IInv, Clk
  <1>1. lock' \in Request \cup {NoReq}
    BY InputFacts, L2Assumption DEF Pipeline, accepts, Shapes
  <1>2. amo' \in BOOLEAN
    BY DEF Core, Shapes
  <1>3. ASSUME NEW m \in Ids PROVE mshr'[m].valid \/ mshr'[m] = Empty
    BY <1>3, MshrMoves DEF Shapes
  <1> QED BY <1>1, <1>2, <1>3 DEF Shapes

\* A burst that ends frees its own MSHR: no flush retires in that cycle.
LEMMA RefillFrees ==
  ASSUME NEW in, last_burst_accepted(in)
  PROVE  in.r \in retired(in) /\ in.r # NoId
  BY DEF last_burst_accepted, rdata_coll_valid, rvalid, rready, flush_req, retired

\* The load half takes one step at a time, and nothing follows it.
LEMMA AmoPhaseStep ==
  ASSUME IInv, NEW in \in Inputs, Clk(in)
  PROVE  AmoPhase'
  <1> USE DEF IInv, Clk
  <1>1. ASSUME lock.type = "AMO_LR"
        PROVE  /\ ~accepts(in)
               /\ lock # NoReq
               /\ lock' = IF l2_amo_store(in) THEN NoReq ELSE lock
    BY <1>1 DEF accepts, NoReq, Pipeline, unlock
  <1>2. l2_amo_store(in) => amo /\ ~amo'
    BY InputFacts DEF l2_amo_store, Core
  <1>3. ASSUME NEW m \in Ids, mshr'[m].type = "AMO_LR"
        PROVE  \/ mshr[m].type = "AMO_LR" /\ mshr'[m] = mshr[m] /\ m \notin retired(in)
               \/ InS2 /\ ~hit /\ s3_ready(in) /\ mshr'[m].idx = s2.idx
    BY <1>3, MshrMoves, MissLeaves DEF Empty, InS2, mshr_we, FlushTypes
  <1>4. ASSUME InS1'
        PROVE  \/ InS1 /\ s1' = s1 /\ ~s2_ready(in)
               \/ /\ lock = NoReq /\ lock' = in.req
                  /\ s1'.idx = in.req.idx /\ in.req.type = "AMO_LR"
    <2>1. CASE s1' = s1 /\ ~s2_ready(in)
      BY <1>4, <2>1 DEF InS1
    <2>2. CASE s2_ready(in) /\ entering(in) # NoReq /\ s1'.type = entering(in).type
                 /\ s1'.idx = entering(in).idx
      <3>1. lock = NoReq /\ accepts(in) /\ entering(in) = in.req
        BY <1>4, <2>2, EnterFacts DEF InS1
      <3> QED BY <1>4, <2>2, <3>1 DEF Pipeline, InS1
    <2> QED BY <1>4, <2>1, <2>2, PipeMoves DEF InS1, Empty
  <1>5. ASSUME InS2'
        PROVE  \/ InS2 /\ s2' = s2
               \/ InS1 /\ s2_ready(in) /\ s2'.idx = s1.idx
    BY <1>5, PipeMoves DEF InS1, InS2, Empty, s2_ready
  <1>6. InS3' => (InS3 /\ ~in.rdy) \/ (InS2 /\ hit /\ s3_ready(in))
    BY DEF Pipeline, InS2, InS3, s3_valid, s3_ready, Empty
  <1>7. ASSUME amo'
        PROVE  \/ amo /\ ~l2_amo_store(in)
               \/ InS3 /\ in.rdy
               \/ in.r \in Ids /\ mshr[in.r].type = "AMO_LR" /\ in.r \in retired(in)
    <2>1. mshr_resp_valid(in) => in.r \in Ids /\ in.r \in retired(in)
      BY RefillFrees, InputFacts DEF mshr_resp_valid
    <2> QED BY <1>7, <2>1 DEF Core, s4_resp, InS3, FlushTypes
  <1>8. CASE lock.type # "AMO_LR"
    <2>1. ~InS1 /\ ~InS2 /\ ~InS3 /\ ~InMshr /\ ~amo
      BY <1>8 DEF AmoPhase
    <2>2. ~InS2' /\ ~InS3' /\ ~InMshr' /\ ~amo'
      BY <2>1, <1>3, <1>5, <1>6, <1>7 DEF InMshr
    <2>3. \A m \in Ids : mshr'[m].type # "AMO_LR"
      BY <2>2 DEF InMshr
    <2>4. InS1' => lock'.type = "AMO_LR" /\ s1'.idx = lock'.idx
      BY <2>1, <1>4
    <2> QED BY <2>2, <2>3, <2>4 DEF AmoPhase
  <1>9. CASE lock.type = "AMO_LR" /\ l2_amo_store(in)
    <2>1. amo /\ ~amo'
      BY <1>2, <1>9
    <2>2. ~InS1 /\ ~InS2 /\ ~InS3 /\ ~InMshr /\ lock # NoReq
      BY <2>1, <1>9, <1>1 DEF AmoPhase, InMshr
    <2>3. ~InS1' /\ ~InS2' /\ ~InS3' /\ ~InMshr'
      BY <2>2, <1>3, <1>4, <1>5, <1>6 DEF InMshr
    <2>4. \A m \in Ids : mshr'[m].type # "AMO_LR"
      BY <2>3 DEF InMshr
    <2> QED BY <2>1, <2>3, <2>4 DEF AmoPhase
  <1>10. CASE lock.type = "AMO_LR" /\ ~l2_amo_store(in)
    <2>1. lock' = lock /\ lock # NoReq /\ entering(in) = NoReq
      BY <1>10, <1>1 DEF entering
    <2>2. (s1' = s1 /\ ~s2_ready(in)) \/ s1' = Empty
      BY <2>1, PipeMoves
    <2>3. Alone => Alone' /\ ~mshr_we(in)
      BY <2>2, PipeMoves, MissLeaves DEF Alone, Empty
    <2>4. ASSUME InS2, s3_ready(in) PROVE Alone'
      <3>1. ~s1.valid
        BY <2>4 DEF AmoPhase
      <3> QED BY <3>1, <2>2, <2>4, PipeMoves DEF Alone, Empty
    <2>5. ~mshr_we(in) /\ ~same_index_mshr(lock.idx) => ~same_index_mshr(lock.idx)'
      BY <2>1, MshrMoves DEF same_index_mshr, valid_mshrs, Empty
    <2>6. InS1' => s1'.idx = lock'.idx /\ ~InS2' /\ ~InS3' /\ ~InMshr' /\ ~amo'
      <3> SUFFICES ASSUME InS1' PROVE s1'.idx = lock'.idx /\ ~InS2' /\ ~InS3' /\ ~InMshr' /\ ~amo'
        OBVIOUS
      <3>1. InS1 /\ s1' = s1 /\ ~s2_ready(in)
        BY <1>4, <2>1
      <3>2. s1.idx = lock.idx /\ ~InS2 /\ ~InS3 /\ ~InMshr /\ ~amo
        BY <3>1 DEF AmoPhase
      <3> QED BY <3>1, <3>2, <2>1, <1>3, <1>5, <1>6, <1>7 DEF InMshr
    <2>7. InS2' => s2'.idx = lock'.idx /\ ~s1'.valid /\ ~InS3' /\ ~InMshr' /\ ~amo'
      <3> SUFFICES ASSUME InS2'
                   PROVE  s2'.idx = lock'.idx /\ ~s1'.valid /\ ~InS3' /\ ~InMshr' /\ ~amo'
        OBVIOUS
      <3>1. CASE InS2 /\ s2' = s2
        <4>1. s2.idx = lock.idx /\ ~s1.valid /\ ~InS3 /\ ~InMshr /\ ~amo
          BY <3>1 DEF AmoPhase
        <4>2. ~s3_ready(in)
          BY <3>1, <2>4 DEF Alone, InS2
        <4> QED BY <3>1, <4>1, <4>2, <2>1, <2>2, <1>3, <1>6, <1>7 DEF InMshr, Empty
      <3>2. CASE InS1 /\ s2_ready(in) /\ s2'.idx = s1.idx
        <4>1. s1.idx = lock.idx /\ ~InS2 /\ ~InS3 /\ ~InMshr /\ ~amo
          BY <3>2 DEF AmoPhase
        <4> QED BY <3>2, <4>1, <2>1, <2>2, <1>3, <1>6, <1>7 DEF InMshr, Empty
      <3> QED BY <3>1, <3>2, <1>5
    <2>8. InS3' => Alone' /\ ~same_index_mshr(lock.idx)' /\ ~InMshr' /\ ~amo'
      <3> SUFFICES ASSUME InS3'
                   PROVE  Alone' /\ ~same_index_mshr(lock.idx)' /\ ~InMshr' /\ ~amo'
        OBVIOUS
      <3>1. CASE InS3 /\ ~in.rdy
        <4>1. Alone /\ ~same_index_mshr(lock.idx) /\ ~InS2 /\ ~InMshr /\ ~amo
          BY <3>1 DEF AmoPhase
        <4> QED BY <3>1, <4>1, <2>3, <2>5, <1>3, <1>7 DEF InMshr
      <3>2. CASE InS2 /\ hit /\ s3_ready(in)
        <4>1. s2.idx = lock.idx /\ ~InS3 /\ ~InMshr /\ ~amo
          BY <3>2 DEF AmoPhase
        <4>2. ~same_index_mshr(lock.idx)
          BY <3>2, <4>1 DEF IndexExclusive, InS2
        <4>3. ~mshr_we(in)
          BY <3>2 DEF mshr_we, InS2, FlushTypes
        <4> QED BY <3>2, <4>1, <4>2, <4>3, <2>4, <2>5, <1>3, <1>7 DEF InMshr
      <3> QED BY <3>1, <3>2, <1>6
    <2>9. ASSUME NEW m \in Ids, mshr'[m].type = "AMO_LR"
          PROVE  mshr'[m].idx = lock'.idx /\ Alone' /\ ~amo'
      <3>1. CASE mshr[m].type = "AMO_LR" /\ mshr'[m] = mshr[m] /\ m \notin retired(in)
        <4>1. mshr[m].idx = lock.idx /\ Alone /\ ~amo /\ ~InS3
          BY <3>1 DEF AmoPhase, InMshr
        <4>2. ASSUME in.r \in Ids, mshr[in.r].type = "AMO_LR" PROVE in.r = m
          <5>1. mshr[in.r].idx = lock.idx
            BY <4>2 DEF AmoPhase
          <5>2. in.r \in valid_mshrs /\ m \in valid_mshrs
            BY <3>1, <4>2 DEF Shapes, Empty, valid_mshrs
          <5> QED BY <4>1, <5>1, <5>2 DEF IndexExclusive
        <4> QED BY <3>1, <4>1, <4>2, <2>1, <2>3, <1>7
      <3>2. CASE InS2 /\ ~hit /\ s3_ready(in) /\ mshr'[m].idx = s2.idx
        <4>1. s2.idx = lock.idx /\ ~InS3 /\ ~InMshr /\ ~amo
          BY <3>2 DEF AmoPhase
        <4> QED BY <3>2, <4>1, <2>1, <2>4, <1>7 DEF InMshr
      <3> QED BY <3>1, <3>2, <2>9, <1>3
    <2>10. amo' => Alone' /\ ~same_index_mshr(lock.idx)'
      <3>1. CASE amo \/ InS3
        BY <3>1, <2>3, <2>5 DEF AmoPhase
      <3>2. CASE in.r \in Ids /\ mshr[in.r].type = "AMO_LR" /\ in.r \in retired(in)
        <4>1. mshr[in.r].idx = lock.idx /\ Alone
          BY <3>2 DEF AmoPhase
        <4>2. in.r \in valid_mshrs
          BY <3>2 DEF Shapes, Empty, valid_mshrs
        <4>3. ASSUME NEW m \in valid_mshrs' PROVE m \in valid_mshrs /\ mshr'[m] = mshr[m] /\ m # in.r
          BY <4>1, <4>3, <3>2, <2>3, MshrMoves DEF valid_mshrs, Empty
        <4>4. ~same_index_mshr(lock.idx)'
          BY <4>1, <4>2, <4>3, <2>1 DEF same_index_mshr, IndexExclusive
        <4> QED BY <4>1, <4>4, <2>3
      <3> QED BY <3>1, <3>2, <1>7
    <2> QED BY <2>1, <2>6, <2>7, <2>8, <2>9, <2>10, <1>10 DEF AmoPhase
  <1> QED BY <1>8, <1>9, <1>10

\* A nonempty set of naturals has a least element.
LEMMA LeastNat ==
  ASSUME NEW T, T \subseteq Nat, T # {}
  PROVE  \E x \in T : \A y \in T : x <= y
  <1>1. PICK x \in T : \A y \in T : ~(<<y, x>> \in OpToRel(<, Nat))
    BY WFMin, NatLessThanWellFounded
  <1>2. ASSUME NEW y \in T PROVE x <= y
    <2>1. ~(y < x)
      BY <1>1, <1>2 DEF OpToRel
    <2> QED BY <2>1, <1>2
  <1> QED BY <1>2

\* alloc_free_mshr returns a free MSHR when there is one.
LEMMA FreeMshr ==
  ASSUME has_free_mshr
  PROVE  new_mshr_id \in Ids \ valid_mshrs
  <1>1. Ids \ valid_mshrs # {} /\ Ids \ valid_mshrs \subseteq Nat
    BY L2Assumption DEF has_free_mshr, valid_mshrs, Ids
  <1>2. \E m \in Ids \ valid_mshrs : \A n \in Ids \ valid_mshrs : m <= n
    BY <1>1, LeastNat
  <1> QED BY <1>2 DEF new_mshr_id

\* A write that misses gets an MSHR and one that hits is performed: it is never
\* dropped between s2 and the MSHRs.
LEMMA WriteLeaves ==
  ASSUME NEW in, s2.valid, PendingWrite(s2), s3_ready(in)
  PROVE  mshr_we(in) \/ s3_done(in)
  <1>1. ~s3_stall(in) /\ s2.type \notin FlushTypes \cup {"BARRIER_SYNC"}
    BY DEF s3_ready, PendingWrite, WriteType, FlushTypes
  <1>2. CASE hit
    BY <1>1, <1>2 DEF s3_done, writes, PendingWrite, WriteType
  <1>3. CASE ~hit
    BY <1>1, <1>3 DEF mshr_we, s3_stall, PendingWrite
  <1> QED BY <1>2, <1>3

\* The write of an MSHR is performed when the MSHR is freed.
LEMMA WriteRetires ==
  ASSUME NEW in, NEW m \in retired(in), WriteType(mshr[m])
  PROVE  line(mshr[m]) \in performed(in)
  <1>1. ~flush(mshr[m]) /\ rw(mshr[m])
    BY DEF WriteType, flush, rw, FlushTypes, ReadTypes
  <1>2. last_burst_accepted(in) /\ m = in.r
    BY <1>1 DEF retired, flush_req, head
  <1> QED BY <1>1, <1>2 DEF performed

\* Every write that is owed has an owner in s1, in s2 or in an MSHR.
LEMMA AccountedStep ==
  ASSUME IInv, NEW in \in Inputs, Clk(in)
  PROVE  Accounted'
  <1> USE DEF IInv, Clk
  <1> SUFFICES ASSUME NEW a \in owed'
               PROVE  \/ PendingWrite(s1') /\ line(s1') = a
                      \/ PendingWrite(s2') /\ line(s2') = a
                      \/ \E m \in valid_mshrs' : WriteType(mshr'[m]) /\ line(mshr'[m]) = a
    BY DEF Accounted
  <1>1. \/ is_write(in) /\ a = line(entering(in))
        \/ a \in owed /\ a \notin performed(in)
    BY DEF Data
  <1>2. CASE is_write(in) /\ a = line(entering(in))
    <2>1. /\ entering(in).type \in {"WRITE", "AMO_SC", "SC"}
          /\ entering(in).type = "SC" => sc(in) = "OK"
      BY <1>2 DEF is_write, sc_succeed, sc
    <2>2. entering(in) # NoReq /\ s2_ready(in)
      BY <2>1 DEF entering, accepts, NoReq
    <2> QED BY <1>2, <2>1, <2>2, PipeMoves DEF PendingWrite, WriteType, line
  <1>3. CASE a \in owed /\ a \notin performed(in)
    <2>1. CASE PendingWrite(s1) /\ line(s1) = a
      BY <2>1, PipeMoves DEF PendingWrite, WriteType, line, s2_ready
    <2>2. CASE PendingWrite(s2) /\ line(s2) = a
      <3>1. CASE ~s3_ready(in)
        BY <2>2, <3>1, PipeMoves
      <3>2. CASE s3_ready(in)
        <4>1. ~s3_done(in)
          BY <1>3, <2>2 DEF performed
        <4>2. mshr_we(in)
          BY <2>2, <3>2, <4>1, WriteLeaves DEF PendingWrite
        <4>3. new_mshr_id \in Ids
          BY <4>2, FreeMshr DEF mshr_we
        <4>4. mshr'[new_mshr_id] = new_mshr
          BY <4>2, <4>3 DEF Miss
        <4> QED BY <2>2, <4>3, <4>4 DEF new_mshr, valid_mshrs, PendingWrite, WriteType, line
      <3> QED BY <3>1, <3>2
    <2>3. CASE \E m \in valid_mshrs : WriteType(mshr[m]) /\ line(mshr[m]) = a
      <3>1. PICK m \in valid_mshrs : WriteType(mshr[m]) /\ line(mshr[m]) = a
        BY <2>3
      <3>2. m \notin retired(in) /\ m \in Ids
        BY <1>3, <3>1, WriteRetires DEF valid_mshrs
      <3>3. mshr_we(in) => m # new_mshr_id
        BY <3>1, FreeMshr DEF mshr_we
      <3>4. mshr'[m] = mshr[m]
        BY <3>2, <3>3, MshrMoves
      <3> QED BY <3>1, <3>2, <3>4 DEF valid_mshrs
    <2> QED BY <1>3, <2>1, <2>2, <2>3 DEF Accounted
  <1> QED BY <1>1, <1>2, <1>3

-----------------------------------------------------------------------------
\* The inductive invariant holds in every reachable state.
THEOREM Inductive == Spec => []IInv
  <1>1. Init => IInv
    <2> SUFFICES ASSUME Init PROVE IInv
      OBVIOUS
    <2> USE DEF Init, Empty
    <2>1. \A m \in Ids : mshr[m] = Empty
      OBVIOUS
    <2>2. valid_mshrs = {}
      BY <2>1 DEF valid_mshrs
    <2>3. Shapes
      BY <2>1 DEF Shapes, NoReq
    <2>4. IndexExclusive
      BY <2>2 DEF IndexExclusive
    <2>5. AmoPhase
      BY <2>1 DEF AmoPhase, InS1, InS2, InS3, InMshr
    <2>6. Accounted
      BY DEF Accounted
    <2> QED BY <2>3, <2>4, <2>5, <2>6 DEF IInv
  <1>2. IInv /\ [Next]_vars => IInv'
    <2> SUFFICES ASSUME IInv, [Next]_vars PROVE IInv'
      OBVIOUS
    <2>1. CASE Next
      <3>1. PICK in \in Inputs : Clk(in)
        BY <2>1 DEF Next
      <3>2. IndexExclusive'
        BY <3>1, ExclusiveStep DEF Clk
      <3> QED BY <3>1, <3>2, ShapesStep, AmoPhaseStep, AccountedStep DEF IInv
    <2>2. CASE UNCHANGED vars
      BY <2>2 DEF vars, pipe_vars, mshr_vars, data_vars, IInv, Shapes, IndexExclusive, AmoPhase,
         Accounted, InS1, InS2, InS3, InMshr, Alone, same_index_mshr, valid_mshrs
    <2> QED BY <2>1, <2>2
  <1> QED BY <1>1, <1>2, PTL DEF Spec

\* One transaction per bank_index, in the pipeline and in the MSHRs: the checks
\* of stages 1 and 2 of cache_bank, and the isolation of atomics where stage 1
\* does not check, suffice for every geometry and every mix of requests.
THEOREM IndexIsExclusive == Spec => []IndexExclusive
  <1>1. IInv => IndexExclusive
    BY DEF IInv
  <1> QED BY <1>1, Inductive, PTL

\* While the core holds an atomic between its load and its store, the lock is
\* the atomic's, the pipeline is empty and its line has no MSHR and no pending
\* write.
THEOREM AmoIsIsolated == Spec => []AmoIsolated
  <1>1. IInv => AmoIsolated
    <2> SUFFICES ASSUME IInv, amo PROVE AmoIsolated
      BY DEF AmoIsolated
    <2>1. lock.type = "AMO_LR" /\ Alone /\ ~same_index_mshr(lock.idx)
      BY DEF IInv, AmoPhase
    <2>2. line(lock) \notin owed
      BY <2>1 DEF IInv, Accounted, PendingWrite, Alone, same_index_mshr, line
    <2> QED BY <2>1, <2>2 DEF AmoIsolated, Alone
  <1> QED BY <1>1, Inductive, PTL
-----------------------------------------------------------------------------
(***************************************************************************)
(* The bookkeeping of the MSHRs.  From its allocation on an MSHR is in one *)
(* place: in req_ff, in one of the two FIFOs, with the memory for a write- *)
(* back or for a read.  BookIInv says so without counting, and that the    *)
(* bursts that are being collected belong to a read.                       *)
(***************************************************************************)
Queued(f, m) == \E k \in DOMAIN f : f[k] = m
NoRepeat(f) == \A j, k \in DOMAIN f : f[j] = f[k] => j = k

Asked(m) == req_ff.valid /\ req_ff.id = m
Writing(m) == written[m] # "NONE"

BookShapes ==
  /\ ar_fifo \in Seq(Ids) /\ NoRepeat(ar_fifo)
  /\ w_fifo \in Seq(Ids) /\ NoRepeat(w_fifo)
  /\ reading \subseteq Ids
  /\ req_ff = Empty \/ (req_ff.valid /\ req_ff.id \in Ids)

OnePlace ==
  \A m \in Ids :
    /\ mshr[m].valid <=> \/ Asked(m) \/ Queued(ar_fifo, m) \/ Queued(w_fifo, m)
                         \/ Writing(m) \/ m \in reading
    /\ Asked(m) => /\ ~Queued(ar_fifo, m) /\ ~Queued(w_fifo, m)
                   /\ ~Writing(m) /\ m \notin reading
    /\ Queued(ar_fifo, m) => ~Queued(w_fifo, m) /\ ~Writing(m) /\ m \notin reading
    /\ Queued(w_fifo, m) => ~Writing(m) /\ m \notin reading
    /\ Writing(m) => m \notin reading

Collecting ==
  /\ coll.n \in 0 .. Last
  /\ coll.id \in reading \cup {NoId}
  /\ coll.n = 0 <=> coll.id = NoId

BookIInv == BookShapes /\ OnePlace /\ Collecting

\* A FIFO that loses its head and takes in what it does not hold, twice at most.
LEMMA QueueTail ==
  ASSUME NEW S, NEW f \in Seq(S), f # <<>>, NoRepeat(f)
  PROVE  /\ Tail(f) \in Seq(S) /\ NoRepeat(Tail(f))
         /\ Head(f) \in S /\ Queued(f, Head(f))
         /\ \A m : Queued(Tail(f), m) <=> Queued(f, m) /\ m # Head(f)
<1>1. Len(f) \in Nat \ {0} /\ DOMAIN f = 1 .. Len(f)
  BY EmptySeq, LenProperties
<1>2. /\ Head(f) \in S /\ Head(f) = f[1] /\ Tail(f) \in Seq(S)
      /\ DOMAIN Tail(f) = 1 .. Len(f) - 1
      /\ \A k \in 1 .. Len(f) - 1 : Tail(f)[k] = f[k + 1]
  BY <1>1, HeadTailProperties, LenProperties
<1>3. Queued(f, Head(f))
  BY <1>1, <1>2 DEF Queued
<1>4. NoRepeat(Tail(f))
  BY <1>1, <1>2 DEF NoRepeat
<1>5. ASSUME NEW m, Queued(Tail(f), m) PROVE Queued(f, m) /\ m # Head(f)
  BY <1>1, <1>2, <1>5 DEF Queued, NoRepeat
<1>6. ASSUME NEW m, Queued(f, m), m # Head(f) PROVE Queued(Tail(f), m)
  <2>1. PICK k \in 1 .. Len(f) : f[k] = m
    BY <1>1, <1>6 DEF Queued
  <2>2. k - 1 \in 1 .. Len(f) - 1 /\ k - 1 + 1 = k
    BY <2>1, <1>1, <1>2, <1>6
  <2>3. Tail(f)[k - 1] = m
    BY <2>1, <2>2, <1>2
  <2> QED BY <2>2, <2>3, <1>2 DEF Queued
<1> QED BY <1>2, <1>3, <1>4, <1>5, <1>6

LEMMA QueueOpt ==
  ASSUME NEW S, NEW f \in Seq(S), NoRepeat(f), NEW c \in BOOLEAN, NEW x,
         c => x \in S /\ ~Queued(f, x)
  PROVE  /\ f \o Opt(c, x) \in Seq(S) /\ NoRepeat(f \o Opt(c, x))
         /\ \A m : Queued(f \o Opt(c, x), m) <=> Queued(f, m) \/ (c /\ m = x)
<1>1. CASE ~c
  <2>1. f \o Opt(c, x) = f
    BY <1>1, ConcatEmptySeq DEF Opt
  <2> QED BY <1>1, <2>1
<1>2. CASE c
  <2> DEFINE g == Append(f, x)
  <2>1. f \o Opt(c, x) = g
    BY <1>2, AppendIsConcat DEF Opt
  <2>2. Len(f) \in Nat /\ DOMAIN f = 1 .. Len(f)
    BY LenProperties
  <2>3. /\ g \in Seq(S) /\ DOMAIN g = 1 .. Len(f) + 1
        /\ \A k \in 1 .. Len(f) : g[k] = f[k]
        /\ g[Len(f) + 1] = x
    BY <1>2, AppendProperties, LenProperties
  <2> HIDE DEF g
  <2>4. NoRepeat(g)
    <3> SUFFICES ASSUME NEW j \in 1 .. Len(f) + 1, NEW k \in 1 .. Len(f) + 1, g[j] = g[k]
                 PROVE  j = k
      BY <2>3 DEF NoRepeat
    <3>1. (j \in 1 .. Len(f) \/ j = Len(f) + 1) /\ (k \in 1 .. Len(f) \/ k = Len(f) + 1)
      BY <2>2
    <3> QED BY <3>1, <2>2, <2>3, <1>2 DEF NoRepeat, Queued
  <2>5. ASSUME NEW m PROVE Queued(g, m) <=> Queued(f, m) \/ m = x
    <3>1. \A k : k \in 1 .. Len(f) + 1 <=> k \in 1 .. Len(f) \/ k = Len(f) + 1
      BY <2>2
    <3> QED BY <3>1, <2>2, <2>3 DEF Queued
  <2> QED BY <1>2, <2>1, <2>3, <2>4, <2>5
<1> QED BY <1>1, <1>2

\* The wires of the memory: bursts of a read, answers to a write.
LEMMA MemoryWires ==
  ASSUME BookIInv, NEW in \in Inputs
  PROVE  /\ NoId \notin Ids
         /\ in.r # NoId => in.r \in Ids /\ in.r \in reading /\ (coll.id = NoId \/ coll.id = in.r)
         /\ in.b # NoId => in.b \in Ids /\ Writing(in.b)
         /\ in.b \in Ids => Writing(in.b)
         /\ in.w \in BOOLEAN /\ (in.w => w_fifo # <<>>)
         /\ in.ardy \in BOOLEAN /\ (in.ardy => arvalid)
<1>1. NoId \notin Ids
  BY L2Assumption DEF Ids, NoId
<1>2. in.r # NoId => in.r \in Ids /\ in.r \in reading /\ (coll.id = NoId \/ coll.id = in.r)
  <2>1. in.r \in Bursts
    BY DEF Inputs, Wires
  <2> QED BY <2>1 DEF Bursts, BookIInv, BookShapes, Collecting
<1>3. in.b \in {m \in Ids : written[m] # "NONE"} \cup {NoId}
  BY DEF Inputs, Wires
<1>4. in.w \in Choice(w_fifo # <<>>) /\ in.ardy \in Choice(arvalid)
  BY DEF Inputs, Wires
<1> QED BY <1>1, <1>2, <1>3, <1>4 DEF Writing, Choice

\* A refill does not end while a flush retires.
LEMMA RefillAlone ==
  ASSUME NEW in, last_burst_accepted(in)
  PROVE  ~flush_req /\ coll.n = Last /\ in.r # NoId
  BY DEF last_burst_accepted, rdata_coll_valid, rvalid, rready, flush_req

\* Where each MSHR goes in a clock edge.
LEMMA PlaceMoves ==
  ASSUME IInv, BookIInv, NEW in \in Inputs, Miss(in), Data(in)
  PROVE  /\ BookShapes'
         /\ \A m \in Ids :
              /\ Asked(m)' <=> mshr_we(in) /\ m = new_mshr_id
              /\ Queued(ar_fifo', m) <=>
                   \/ Queued(ar_fifo, m) /\ ~(((arvalid /\ in.ardy) \/ flush_req) /\ m = Head(ar_fifo))
                   \/ Asked(m) /\ ~req_ff.dirty /\ ~flush(mshr[m])
                   \/ m = in.b
              /\ Queued(w_fifo', m) <=> \/ Queued(w_fifo, m) /\ ~(in.w /\ m = Head(w_fifo))
                                        \/ Asked(m) /\ req_ff.dirty
              /\ Writing(m)' <=> m # in.b /\ (Writing(m) \/ (in.w /\ m = Head(w_fifo)))
              /\ m \in reading' <=> /\ m \in reading \/ (arvalid /\ in.ardy /\ m = Head(ar_fifo))
                                    /\ ~(last_burst_accepted(in) /\ m = in.r)
<1> DEFINE pop == (arvalid /\ in.ardy) \/ flush_req
           ar1 == IF pop THEN Tail(ar_fifo) ELSE ar_fifo
           c1 == req_ff.valid /\ ~req_ff.dirty /\ ~flush(mshr[req_ff.id])
           ar2 == ar1 \o Opt(c1, req_ff.id)
           c2 == in.b # NoId
           w1 == IF in.w THEN Tail(w_fifo) ELSE w_fifo
           c3 == req_ff.valid /\ req_ff.dirty
<1>1. /\ ar_fifo' = ar2 \o Opt(c2, in.b)
      /\ w_fifo' = w1 \o Opt(c3, req_ff.id)
  BY DEF Miss
<1>2. /\ ar_fifo \in Seq(Ids) /\ NoRepeat(ar_fifo) /\ w_fifo \in Seq(Ids) /\ NoRepeat(w_fifo)
      /\ reading \subseteq Ids
      /\ req_ff.valid => req_ff.id \in Ids
  BY DEF BookIInv, BookShapes, Empty
<1>3. pop => ar_fifo # <<>>
  BY DEF arvalid, flush_req
<1>4. /\ ar1 \in Seq(Ids) /\ NoRepeat(ar1)
      /\ \A m : Queued(ar1, m) <=> Queued(ar_fifo, m) /\ ~(pop /\ m = Head(ar_fifo))
  <2> HIDE DEF pop
  <2> QED BY <1>2, <1>3, QueueTail
<1>5. c1 \in BOOLEAN /\ c2 \in BOOLEAN /\ c3 \in BOOLEAN
  OBVIOUS
<1>6. /\ c1 \/ c3 => Asked(req_ff.id) /\ req_ff.id \in Ids
      /\ c1 => ~Queued(ar_fifo, req_ff.id)
      /\ c3 => ~Queued(w_fifo, req_ff.id)
  BY <1>2 DEF BookIInv, OnePlace, Asked
<1>7. /\ c2 => in.b \in Ids /\ Writing(in.b) /\ ~Queued(ar_fifo, in.b) /\ ~Asked(in.b)
  BY MemoryWires DEF BookIInv, OnePlace
<1>8. c1 => ~Queued(ar1, req_ff.id)
  BY <1>4, <1>6
<1>9. c2 => ~Queued(ar1, in.b)
  BY <1>4, <1>7
<1>a. \A m : Asked(m) => m = req_ff.id
  BY DEF Asked
<1>b. \A m : Asked(m) => (c1 <=> ~req_ff.dirty /\ ~flush(mshr[m])) /\ (c3 <=> req_ff.dirty)
  BY DEF Asked
<1> HIDE DEF pop, ar1, c1, c2, c3, ar2, w1
<1>10. /\ ar2 \in Seq(Ids) /\ NoRepeat(ar2)
       /\ \A m : Queued(ar2, m) <=> Queued(ar1, m) \/ (c1 /\ m = req_ff.id)
  BY <1>4, <1>5, <1>6, <1>8, QueueOpt DEF ar2
<1>11. c2 => in.b \in Ids /\ ~Queued(ar2, in.b)
  BY <1>6, <1>7, <1>9, <1>10
<1>12. /\ ar_fifo' \in Seq(Ids) /\ NoRepeat(ar_fifo')
       /\ \A m : Queued(ar_fifo', m) <=> Queued(ar2, m) \/ (c2 /\ m = in.b)
  <2>1. /\ ar2 \o Opt(c2, in.b) \in Seq(Ids) /\ NoRepeat(ar2 \o Opt(c2, in.b))
        /\ \A m : Queued(ar2 \o Opt(c2, in.b), m) <=> Queued(ar2, m) \/ (c2 /\ m = in.b)
    BY <1>5, <1>10, <1>11, QueueOpt
  <2> QED BY <2>1, <1>1
<1>13. /\ w1 \in Seq(Ids) /\ NoRepeat(w1)
       /\ \A m : Queued(w1, m) <=> Queued(w_fifo, m) /\ ~(in.w /\ m = Head(w_fifo))
  BY <1>2, MemoryWires, QueueTail DEF w1
<1>14. /\ w_fifo' \in Seq(Ids) /\ NoRepeat(w_fifo')
       /\ \A m : Queued(w_fifo', m) <=> Queued(w1, m) \/ (c3 /\ m = req_ff.id)
  <2>1. c3 => req_ff.id \in Ids /\ ~Queued(w1, req_ff.id)
    BY <1>6, <1>13
  <2>2. /\ w1 \o Opt(c3, req_ff.id) \in Seq(Ids) /\ NoRepeat(w1 \o Opt(c3, req_ff.id))
        /\ \A m : Queued(w1 \o Opt(c3, req_ff.id), m) <=> Queued(w1, m) \/ (c3 /\ m = req_ff.id)
    BY <1>5, <1>13, <2>1, QueueOpt
  <2> QED BY <2>2, <1>1
<1>15. /\ ar_fifo # <<>> => Head(ar_fifo) \in Ids
       /\ w_fifo # <<>> => Head(w_fifo) \in Ids
  BY <1>2, QueueTail
<1>16. /\ reading' = (reading \cup (IF arvalid /\ in.ardy THEN {Head(ar_fifo)} ELSE {}))
                     \ (IF last_burst_accepted(in) THEN {in.r} ELSE {})
       /\ req_ff' = IF mshr_we(in)
                    THEN [valid |-> TRUE, id |-> new_mshr_id, dirty |-> victim_dirty]
                    ELSE Empty
  BY DEF Miss
<1>17. reading' \subseteq Ids
  BY <1>2, <1>15, <1>16 DEF arvalid
<1>18. req_ff' = Empty \/ (req_ff'.valid /\ req_ff'.id \in Ids)
  BY <1>16, FreeMshr DEF mshr_we
<1>19. BookShapes'
  BY <1>12, <1>14, <1>17, <1>18 DEF BookShapes
<1>20. ASSUME NEW m \in Ids
       PROVE  /\ Asked(m)' <=> mshr_we(in) /\ m = new_mshr_id
              /\ Queued(ar_fifo', m) <=>
                   \/ Queued(ar_fifo, m) /\ ~(pop /\ m = Head(ar_fifo))
                   \/ Asked(m) /\ ~req_ff.dirty /\ ~flush(mshr[m])
                   \/ m = in.b
              /\ Queued(w_fifo', m) <=> \/ Queued(w_fifo, m) /\ ~(in.w /\ m = Head(w_fifo))
                                        \/ Asked(m) /\ req_ff.dirty
  <2>1. Asked(m)' <=> mshr_we(in) /\ m = new_mshr_id
    BY <1>16 DEF Asked, Empty
  <2>2. c1 /\ m = req_ff.id <=> Asked(m) /\ ~req_ff.dirty /\ ~flush(mshr[m])
    BY <1>6, <1>a, <1>b
  <2>3. c3 /\ m = req_ff.id <=> Asked(m) /\ req_ff.dirty
    BY <1>6, <1>a, <1>b
  <2>4. c2 /\ m = in.b <=> m = in.b
    BY MemoryWires DEF c2
  <2> QED BY <2>1, <2>2, <2>3, <2>4, <1>4, <1>10, <1>12, <1>13, <1>14
<1>21. ASSUME NEW m \in Ids
       PROVE  Writing(m)' <=> m # in.b /\ (Writing(m) \/ (in.w /\ m = Head(w_fifo)))
  <2>1. written'[m] = IF m = in.b THEN "NONE"
                      ELSE IF in.w /\ m = Head(w_fifo) THEN victim(m)
                      ELSE IF written[m] # "NONE" /\ victim_line(m) \in performed(in)
                      THEN "STALE" ELSE written[m]
    BY DEF Data
  <2>2. victim(m) # "NONE"
    BY DEF victim
  <2> QED BY <2>1, <2>2 DEF Writing
<1> QED BY <1>16, <1>19, <1>20, <1>21 DEF pop

\* An MSHR that is freed was at the end of its way, and a new one comes from
\* nowhere: each of the others is again in one place.
LEMMA OnePlaceStep ==
  ASSUME IInv, BookIInv, NEW in \in Inputs, Miss(in), Data(in)
  PROVE  OnePlace'
<1> SUFFICES ASSUME NEW m \in Ids
             PROVE  /\ mshr'[m].valid <=> \/ Asked(m)' \/ Queued(ar_fifo', m) \/ Queued(w_fifo', m)
                                          \/ Writing(m)' \/ m \in reading'
                    /\ Asked(m)' => /\ ~Queued(ar_fifo', m) /\ ~Queued(w_fifo', m)
                                    /\ ~Writing(m)' /\ m \notin reading'
                    /\ Queued(ar_fifo', m) => ~Queued(w_fifo', m) /\ ~Writing(m)' /\ m \notin reading'
                    /\ Queued(w_fifo', m) => ~Writing(m)' /\ m \notin reading'
                    /\ Writing(m)' => m \notin reading'
  BY DEF OnePlace, Asked, Writing
<1> DEFINE pop == (arvalid /\ in.ardy) \/ flush_req
           refilled == last_burst_accepted(in) /\ m = in.r
           arhead == m = Head(ar_fifo)
           whead == in.w /\ m = Head(w_fifo)
           new == mshr_we(in) /\ m = new_mshr_id
           isflush == flush(mshr[m])
\* Where it was.
<1>1. /\ mshr[m].valid <=> \/ Asked(m) \/ Queued(ar_fifo, m) \/ Queued(w_fifo, m)
                           \/ Writing(m) \/ m \in reading
      /\ Asked(m) => /\ ~Queued(ar_fifo, m) /\ ~Queued(w_fifo, m)
                     /\ ~Writing(m) /\ m \notin reading
      /\ Queued(ar_fifo, m) => ~Queued(w_fifo, m) /\ ~Writing(m) /\ m \notin reading
      /\ Queued(w_fifo, m) => ~Writing(m) /\ m \notin reading
      /\ Writing(m) => m \notin reading
  BY DEF BookIInv, OnePlace
\* Where it goes.
<1>2. /\ Asked(m)' <=> new
      /\ Queued(ar_fifo', m) <=> \/ Queued(ar_fifo, m) /\ ~(pop /\ arhead)
                                 \/ Asked(m) /\ ~req_ff.dirty /\ ~isflush
                                 \/ m = in.b
      /\ Queued(w_fifo', m) <=> (Queued(w_fifo, m) /\ ~whead) \/ (Asked(m) /\ req_ff.dirty)
      /\ Writing(m)' <=> m # in.b /\ (Writing(m) \/ whead)
      /\ m \in reading' <=> (m \in reading \/ (arvalid /\ in.ardy /\ arhead)) /\ ~refilled
  BY PlaceMoves
<1>3. new => ~mshr[m].valid
  BY FreeMshr DEF mshr_we, valid_mshrs
<1>4. /\ m = in.b => Writing(m)
      /\ whead => Queued(w_fifo, m)
      /\ pop /\ arhead => Queued(ar_fifo, m)
      /\ refilled => m \in reading
  <2>1. m = in.b => Writing(m)
    BY MemoryWires
  <2>2. whead => Queued(w_fifo, m)
    BY MemoryWires, QueueTail DEF BookIInv, BookShapes
  <2>3. pop /\ arhead => Queued(ar_fifo, m)
    BY QueueTail DEF BookIInv, BookShapes, arvalid, flush_req
  <2>4. refilled => m \in reading
    BY RefillAlone, MemoryWires
  <2> QED BY <2>1, <2>2, <2>3, <2>4
<1>5. /\ arvalid => ~flush_req /\ (arhead => ~isflush)
      /\ flush_req => (arhead => isflush)
  BY DEF arvalid, flush_req, head
<1>6. m \in retired(in) <=> \/ Asked(m) /\ ~req_ff.dirty /\ isflush
                            \/ flush_req /\ arhead
                            \/ refilled
  <2>1. m \in retired(in) <=> \/ Asked(m) /\ ~req_ff.dirty /\ isflush
                              \/ flush_req /\ arhead
                              \/ ~flush_req /\ refilled
    BY DEF retired, Asked
  <2> QED BY <2>1, RefillAlone
<1>7. mshr'[m].valid <=> new \/ (mshr[m].valid /\ m \notin retired(in))
  <2>1. mshr'[m] = IF new THEN new_mshr ELSE IF m \in retired(in) THEN Empty ELSE mshr[m]
    BY DEF Miss
  <2>2. new_mshr.valid /\ ~Empty.valid
    BY DEF new_mshr, Empty
  <2> QED BY <2>1, <2>2
<1>8. pop <=> (arvalid /\ in.ardy) \/ flush_req
  OBVIOUS
<1>9. refilled => ~flush_req
  BY RefillAlone
<1> HIDE DEF pop, refilled, arhead, whead, new, isflush
<1> QED BY <1>1, <1>2, <1>3, <1>4, <1>5, <1>6, <1>7, <1>8, <1>9

\* The counter belongs to one read until its last burst is taken.
LEMMA CollectingStep ==
  ASSUME IInv, BookIInv, NEW in \in Inputs, Miss(in), Data(in)
  PROVE  Collecting'
<1>1. /\ coll.n \in 0 .. Last /\ Last \in Nat /\ Last >= 2
      /\ coll.id \in reading \cup {NoId} /\ (coll.n = 0 <=> coll.id = NoId)
      /\ NoId \notin reading
  BY MemoryWires, L2Assumption DEF BookIInv, BookShapes, Collecting
<1>2. coll' = IF ~rvalid(in) \/ ~rready(in) THEN coll
              ELSE IF coll.n = Last THEN [n |-> 0, id |-> NoId]
              ELSE [n |-> coll.n + 1, id |-> in.r]
  BY DEF Miss
<1>3. \A m \in Ids : m \in reading => m \in reading' \/ (last_burst_accepted(in) /\ m = in.r)
  BY PlaceMoves
<1>4. CASE ~rvalid(in) \/ ~rready(in)
  <2>1. ~last_burst_accepted(in) /\ coll' = coll
    BY <1>2, <1>4 DEF last_burst_accepted, rdata_coll_valid
  <2> QED BY <1>1, <1>3, <2>1 DEF Collecting, BookIInv, BookShapes
<1>5. CASE rvalid(in) /\ rready(in) /\ coll.n = Last
  BY <1>1, <1>2, <1>5 DEF Collecting
<1>6. CASE rvalid(in) /\ rready(in) /\ coll.n # Last
  <2>1. in.r \in Ids /\ in.r \in reading /\ in.r # NoId
    BY <1>6, MemoryWires DEF rvalid
  <2>2. ~last_burst_accepted(in)
    BY <1>6 DEF last_burst_accepted, rdata_coll_valid
  <2>3. coll'.n = coll.n + 1 /\ coll'.id = in.r /\ in.r \in reading'
    BY <1>2, <1>3, <1>6, <2>1, <2>2
  <2> QED BY <1>1, <1>6, <2>1, <2>3 DEF Collecting
<1> QED BY <1>4, <1>5, <1>6

LEMMA BookInductive == Spec => []BookIInv
<1>1. Init => BookIInv
  <2> SUFFICES ASSUME Init PROVE BookIInv
    OBVIOUS
  <2>1. BookShapes
    <3>1. <<>> \in Seq(Ids) /\ NoRepeat(<<>>)
      BY DEF NoRepeat
    <3> QED BY <3>1 DEF Init, BookShapes
  <2>2. OnePlace
    BY DEF Init, OnePlace, Empty, Asked, Queued, Writing
  <2>3. Collecting
    BY L2Assumption DEF Init, Collecting
  <2> QED BY <2>1, <2>2, <2>3 DEF BookIInv
<1>2. IInv /\ BookIInv /\ [Next]_vars => BookIInv'
  <2> SUFFICES ASSUME IInv, BookIInv, [Next]_vars PROVE BookIInv'
    OBVIOUS
  <2>1. CASE Next
    <3>1. PICK in \in Inputs : Clk(in)
      BY <2>1 DEF Next
    <3> QED BY <3>1, PlaceMoves, OnePlaceStep, CollectingStep DEF Clk, BookIInv
  <2>2. CASE UNCHANGED vars
    BY <2>2 DEF vars, mshr_vars, BookIInv, BookShapes, OnePlace, Collecting, Asked, Writing
  <2> QED BY <2>1, <2>2
<1> QED BY <1>1, <1>2, Inductive, PTL DEF Spec

\* Every MSHR is accounted for: a burst finds its MSHR, a refill never ends in the
\* cycle in which a flush retires, and an allocated MSHR is in exactly one of the
\* places it can wait in.
THEOREM BookkeepingIsExact == Spec => []MissBookkeeping
<1>1. IInv /\ BookIInv => MissBookkeeping
  <2> SUFFICES ASSUME IInv, BookIInv PROVE MissBookkeeping
    OBVIOUS
  <2>1. reading \subseteq valid_mshrs
    BY DEF BookIInv, BookShapes, OnePlace, valid_mshrs
  <2>2. flush_req => \A in \in Inputs : ~last_burst_accepted(in)
    BY RefillAlone
  <2>3. ASSUME NEW m \in Ids
        PROVE  LET places == {p \in {<<"ar", k>> : k \in DOMAIN ar_fifo}
                                      \cup {<<"w", k>> : k \in DOMAIN w_fifo} :
                                m = IF p[1] = "ar" THEN ar_fifo[p[2]] ELSE w_fifo[p[2]]}
               IN  Cardinality(places) + (IF written[m] # "NONE" THEN 1 ELSE 0)
                     + (IF m \in reading THEN 1 ELSE 0)
                     + (IF req_ff.valid /\ req_ff.id = m THEN 1 ELSE 0)
                   = IF mshr[m].valid THEN 1 ELSE 0
    <3> DEFINE places == {p \in {<<"ar", k>> : k \in DOMAIN ar_fifo}
                                  \cup {<<"w", k>> : k \in DOMAIN w_fifo} :
                            m = IF p[1] = "ar" THEN ar_fifo[p[2]] ELSE w_fifo[p[2]]}
    <3>1. NoRepeat(ar_fifo) /\ NoRepeat(w_fifo) /\ ~(Queued(ar_fifo, m) /\ Queued(w_fifo, m))
      BY DEF BookIInv, BookShapes, OnePlace
    <3>2. CASE Queued(ar_fifo, m)
      <4>1. PICK k \in DOMAIN ar_fifo : ar_fifo[k] = m
        BY <3>2 DEF Queued
      <4>2. places = {<<"ar", k>>}
        BY <3>1, <3>2, <4>1 DEF NoRepeat, Queued
      <4>3. Cardinality(places) = 1
        BY <4>2, FS_Singleton
      <4>4. /\ mshr[m].valid /\ written[m] = "NONE" /\ m \notin reading
            /\ ~(req_ff.valid /\ req_ff.id = m)
        BY <3>2 DEF BookIInv, OnePlace, Asked, Writing
      <4> QED BY <4>3, <4>4
    <3>3. CASE Queued(w_fifo, m)
      <4>1. PICK k \in DOMAIN w_fifo : w_fifo[k] = m
        BY <3>3 DEF Queued
      <4>2. places = {<<"w", k>>}
        BY <3>1, <3>3, <4>1 DEF NoRepeat, Queued
      <4>3. Cardinality(places) = 1
        BY <4>2, FS_Singleton
      <4>4. /\ mshr[m].valid /\ written[m] = "NONE" /\ m \notin reading
            /\ ~(req_ff.valid /\ req_ff.id = m)
        BY <3>3 DEF BookIInv, OnePlace, Asked, Writing
      <4> QED BY <4>3, <4>4
    <3>4. CASE ~Queued(ar_fifo, m) /\ ~Queued(w_fifo, m)
      <4>1. places = {}
        BY <3>4 DEF Queued
      <4>2. Cardinality(places) = 0
        BY <4>1, FS_EmptySet
      <4>3. /\ mshr[m].valid <=> Asked(m) \/ Writing(m) \/ m \in reading
            /\ Asked(m) => ~Writing(m) /\ m \notin reading
            /\ Writing(m) => m \notin reading
        BY <3>4 DEF BookIInv, OnePlace
      <4> QED BY <4>2, <4>3 DEF Asked, Writing
    <3> QED BY <3>2, <3>3, <3>4
  <2> QED BY <2>1, <2>2, <2>3 DEF MissBookkeeping
<1> QED BY <1>1, Inductive, BookInductive, PTL

-----------------------------------------------------------------------------
(***************************************************************************)
(* Stage 4 and the refills.  A hit may only answer in the cycle before the *)
(* last burst of a read comes, never from then on: cache_read_hit_back-    *)
(* pressure stalls stage 3 one burst ahead, and that burst is taken only   *)
(* in a cycle that empties stage 4.                                        *)
(***************************************************************************)
Apart == coll.n = Last /\ ~rw(mshr[coll.id]) => ~s4_resp

\* Under back pressure only a write leaves stage 3, and it leaves no answer.
LEMMA NoAnswerUnderPressure ==
  ASSUME NEW in, Pipeline(in), cache_read_hit_backpressure(in), in.rdy
  PROVE  ~s4_resp'
<1>1. CASE s3_valid(in)
  <2>1. s3' = [valid |-> TRUE, type |-> s2.type, hit |-> hit]
    BY <1>1 DEF Pipeline
  <2>2. s2.type \in {"WRITE", "AMO_SC"}
    BY <1>1 DEF s3_valid, s3_stall, pre_s3_stall
  <2>3. ~hit
    BY <1>1, <2>2 DEF s3_valid, s3_done, writes
  <2> QED BY <2>1, <2>2, <2>3 DEF s4_resp, FlushTypes
<1>2. CASE ~s3_valid(in)
  BY <1>2 DEF Pipeline, s4_resp, Empty
<1> QED BY <1>1, <1>2

LEMMA ApartStep ==
  ASSUME IInv, BookIInv, BookIInv', Apart, NEW in \in Inputs, Clk(in)
  PROVE  Apart'
<1> USE DEF Clk
<1> SUFFICES ASSUME coll'.n = Last, ~rw(mshr'[coll'.id]) PROVE ~s4_resp'
  BY DEF Apart, rw
<1>1. /\ Last \in Nat /\ Last >= 2 /\ coll.n \in 0 .. Last
      /\ coll.id \in reading \cup {NoId} /\ (coll.n = 0 <=> coll.id = NoId)
      /\ reading \subseteq Ids
      /\ coll'.n = 0 <=> coll'.id = NoId
  BY L2Assumption DEF BookIInv, BookShapes, Collecting
<1>2. \/ coll' = coll /\ ~last_burst_accepted(in)
      \/ rvalid(in) /\ rready(in) /\ coll.n = Last - 1 /\ coll'.id = in.r
  <2>1. CASE ~rvalid(in) \/ ~rready(in)
    BY <2>1 DEF Miss, last_burst_accepted, rdata_coll_valid
  <2>2. CASE rvalid(in) /\ rready(in)
    BY <2>2, <1>1 DEF Miss
  <2> QED BY <2>1, <2>2
<1>3. coll'.id \in reading /\ coll'.id \in Ids
  BY <1>1, <1>2, MemoryWires DEF rvalid
<1>4. ~rw(mshr[coll'.id])
  <2> DEFINE m == coll'.id
  <2>1. mshr[m].valid
    BY <1>3 DEF BookIInv, OnePlace
  <2>2. ~(mshr_we(in) /\ m = new_mshr_id)
    BY <2>1, <1>3, FreeMshr DEF mshr_we, valid_mshrs
  <2>3. mshr'[m] # Empty
    BY DEF rw, Empty, ReadTypes
  <2> QED BY <2>2, <2>3, <1>3, MshrMoves
<1>5. CASE coll' = coll /\ ~last_burst_accepted(in)
  <2>1. ~s4_resp /\ cache_read_hit_backpressure(in)
    BY <1>4, <1>5 DEF Apart, cache_read_hit_backpressure, mshr_resp_valid
  <2>2. CASE in.rdy
    BY <2>1, <2>2, NoAnswerUnderPressure
  <2>3. CASE ~in.rdy
    BY <2>1, <2>3 DEF Pipeline, s4_resp
  <2> QED BY <2>2, <2>3
<1>6. CASE rvalid(in) /\ rready(in) /\ coll.n = Last - 1 /\ coll'.id = in.r
  <2>1. in.rdy
    BY <1>4, <1>6 DEF rready
  <2> QED BY <1>6, <2>1, NoAnswerUnderPressure DEF cache_read_hit_backpressure
<1> QED BY <1>2, <1>5, <1>6

\* The answer of a refill never takes the port of stage 4 from a hit.
THEOREM AnswersStayApart == Spec => []ResponsesDoNotCollide
<1>1. Init => Apart
  BY L2Assumption DEF Init, Apart
<1>2. IInv /\ BookIInv /\ BookIInv' /\ Apart /\ [Next]_vars => Apart'
  <2> SUFFICES ASSUME IInv, BookIInv, BookIInv', Apart, [Next]_vars PROVE Apart'
    OBVIOUS
  <2>1. CASE Next
    BY <2>1, ApartStep DEF Next
  <2>2. CASE UNCHANGED vars
    BY <2>2 DEF vars, mshr_vars, pipe_vars, Apart, s4_resp
  <2> QED BY <2>1, <2>2
<1>3. BookIInv /\ Apart => ResponsesDoNotCollide
  <2> SUFFICES ASSUME BookIInv, Apart, NEW in \in Inputs, mshr_resp_valid(in) PROVE ~s4_resp
    BY DEF ResponsesDoNotCollide
  <2>1. coll.n = Last /\ in.r # NoId /\ ~rw(mshr[in.r])
    BY RefillAlone DEF mshr_resp_valid
  <2>2. coll.id = in.r
    BY <2>1, MemoryWires, L2Assumption DEF BookIInv, Collecting
  <2> QED BY <2>1, <2>2 DEF Apart
<1> QED BY <1>1, <1>2, <1>3, Inductive, BookInductive, PTL DEF Spec
-----------------------------------------------------------------------------
(***************************************************************************)
(* Lookup and data, for request sets without atomics.  The store half of an*)
(* atomic takes old valid bits when a refill has the valid RAM in the cycle*)
(* in which it enters, so nothing below holds with atomics.                *)
(*                                                                         *)
(* With one transaction per index, what a request has read of the RAM is   *)
(* still true when stage 3 decides (Snapshot), and no burst arrives for its*)
(* index (NoForward); so a miss is a miss until its refill ends (Missing), *)
(* and two ways never hold one line.                                       *)
(***************************************************************************)
NoAtomics == \A r \in Reqs : r.type # "AMO_LR"

RamRec == [v : BOOLEAN, d : BOOLEAN, tag : Tag \cup {"NONE"}, fresh : BOOLEAN]

RamTypeOK == ram \in [Idx -> [Way -> RamRec]] /\ mem \in [Idx \X Tag -> BOOLEAN]

Named(x) == x.idx \in Idx /\ x.tag \in Tag /\ x.way \in Way

LookupTypeOK ==
  /\ RamTypeOK
  /\ s1.valid => Named(s1)
  /\ s2.valid => Named(s2) /\ s2.lru \in Way
  /\ \A m \in valid_mshrs : Named(mshr[m])

\* No burst arrives for the index of a request in the pipeline.
NoForward ==
  /\ s1.valid => ~mc_resp_index(s1)
  /\ s2.valid => ~mc_resp_index(s2) /\ ~s2.mc_hit

ValidAt(i) == {w \in Way : ram[i][w].v}
Holds(i, w, t) == ram[i][w].v /\ ram[i][w].tag = t

\* What was read of the valid and tag RAMs is what they hold.
Snapshot ==
  /\ s1.valid /\ s1.type # "BARRIER_SYNC" => valid_dout = ValidAt(s1.idx)
  /\ s2.valid /\ s2.type # "BARRIER_SYNC" =>
       /\ s2.way_valid = ValidAt(s2.idx)
       /\ \A w \in Way : s2.tags[w] = ram[s2.idx][w].tag

\* No way holds a line that an MSHR waits for, and only these are read.
Missing ==
  /\ \A m \in valid_mshrs : ~flush(mshr[m]) =>
       \A w \in Way : ~Holds(mshr[m].idx, w, mshr[m].tag)
  /\ \A m \in reading : ~flush(mshr[m])

LookupIInv == /\ lock.type # "AMO_LR"
              /\ LookupTypeOK /\ NoForward /\ Snapshot /\ Missing /\ OneWayPerLine

(***************************************************************************)
(* The data.  Every valid way is fresh, and a line that memory does not    *)
(* have is dirty in some way: a victim stays in its way, dirty, until its  *)
(* write-back is answered, and only then the way is cleaned or filled.     *)
(***************************************************************************)
WaysFresh == \A i \in Idx, w \in Way : ram[i][w].v => ram[i][w].fresh

\* The victim of m is in its way until the write-back is answered; afterwards,
\* or if it was clean, memory has it.
InPlace(m) == Holds(mshr[m].idx, mshr[m].way, mshr[m].old_tag)

Saved(m) == \A t \in Tag : /\ Holds(mshr[m].idx, mshr[m].way, t)
                           /\ ram[mshr[m].idx][mshr[m].way].d
                           => mem[<<mshr[m].idx, t>>]

ToWrite(m) == Queued(w_fifo, m) \/ (Asked(m) /\ req_ff.dirty)
ToRead(m) == \/ Queued(ar_fifo, m)
             \/ m \in reading
             \/ Asked(m) /\ ~req_ff.dirty /\ ~flush(mshr[m])

VictimSafe == \A m \in Ids : /\ ToWrite(m) => InPlace(m)
                             /\ Writing(m) => InPlace(m) /\ written[m] = "FRESH"
                             /\ ToRead(m) => Saved(m)

DataIInv == WaysFresh /\ CleanMeansInMemory /\ VictimSafe

\* Without atomics the core never owes a store, and what enters s1 is a request
\* of the NoC that passed the checks of stage 1 while the valid RAM was free.
LEMMA PlainEntry ==
  ASSUME IInv, LookupIInv, NoAtomics, NEW in \in Inputs
  PROVE  /\ ~amo /\ ~l2_amo_store(in)
         /\ lock'.type # "AMO_LR" \/ ~Pipeline(in)
         /\ entering(in) # NoReq => /\ entering(in) = in.req /\ in.req \in Reqs
                                    /\ ~valid_ram_we(in) /\ s2_ready(in)
                                    /\ ~same_index_mshr(in.req.idx)
<1>1. ~amo /\ ~l2_amo_store(in)
  BY InputFacts DEF IInv, AmoPhase, LookupIInv, l2_amo_store
<1>2. entering(in) # NoReq => /\ entering(in) = in.req /\ accepts(in) /\ in.req \in Reqs
                              /\ ~s1_stall(in.req)
  BY <1>1, EnterFacts DEF IInv
<1>3. Pipeline(in) => lock'.type # "AMO_LR"
  BY InputFacts DEF Pipeline, accepts, NoAtomics, NoReq, LookupIInv
<1> QED BY <1>1, <1>2, <1>3 DEF accepts, s1_stall

\* The burst that ends a refill belongs to a miss that is being read.
LEMMA Refiller ==
  ASSUME BookIInv, LookupIInv, NEW in \in Inputs, last_burst_accepted(in)
  PROVE  /\ in.r \in reading /\ in.r \in Ids /\ in.r \in valid_mshrs /\ in.r \in retired(in)
         /\ ~flush(mshr[in.r]) /\ Named(mshr[in.r]) /\ ~flush_req
<1>1. in.r \in reading /\ in.r \in Ids /\ in.r \in retired(in) /\ ~flush_req
  BY RefillFrees, RefillAlone, MemoryWires
<1>2. in.r \in valid_mshrs
  BY <1>1 DEF BookIInv, OnePlace, valid_mshrs
<1> QED BY <1>1, <1>2 DEF LookupIInv, LookupTypeOK, Missing

\* A way takes a refilled line or keeps its own; then only its dirty bit and its
\* freshness can change.
LEMMA RamMoves ==
  ASSUME BookIInv, LookupIInv, NEW in \in Inputs, Data(in), NEW i \in Idx, NEW w \in Way
  PROVE  /\ ram'[i][w] \in RamRec
         /\ \/ /\ refills(in, i, w)
               /\ ram'[i][w].v /\ ram'[i][w].tag = mshr[in.r].tag
               /\ ram'[i][w].d = rw(mshr[in.r])
               /\ ram'[i][w].fresh = mem[line(mshr[in.r])]
            \/ /\ ~refills(in, i, w)
               /\ ram'[i][w].v = ram[i][w].v /\ ram'[i][w].tag = ram[i][w].tag
               /\ ram'[i][w].d = (~flushes(i, w) /\ (ram[i][w].d \/ hit_writes(in, i, w)))
               /\ ram'[i][w].fresh = (ram[i][w].fresh /\
                    IF hit_writes(in, i, w) THEN ram[i][w].tag = s2.tag
                    ELSE <<i, ram[i][w].tag>> \notin performed(in))
<1>1. ram'[i][w] = ram_next(in, i, w)
  BY DEF Data
<1>2. ram[i][w] \in RamRec
  BY DEF LookupIInv, LookupTypeOK, RamTypeOK
<1>3. CASE refills(in, i, w)
  <2>1. mshr[in.r].tag \in Tag /\ mem[line(mshr[in.r])] \in BOOLEAN
    BY <1>3, Refiller DEF refills, Named, line, LookupIInv, LookupTypeOK, RamTypeOK
  <2>2. rw(mshr[in.r]) \in BOOLEAN
    BY DEF rw
  <2>3. ram'[i][w] = [v |-> TRUE, d |-> rw(mshr[in.r]), tag |-> mshr[in.r].tag,
                      fresh |-> mem[line(mshr[in.r])]]
    BY <1>1, <1>3 DEF ram_next
  <2> QED BY <1>3, <2>1, <2>2, <2>3 DEF RamRec
<1>4. CASE ~refills(in, i, w)
  <2> DEFINE d == ~flushes(i, w) /\ (ram[i][w].d \/ hit_writes(in, i, w))
             fr == ram[i][w].fresh /\ IF hit_writes(in, i, w) THEN ram[i][w].tag = s2.tag
                                      ELSE <<i, ram[i][w].tag>> \notin performed(in)
  <2>1. d \in BOOLEAN /\ fr \in BOOLEAN
    OBVIOUS
  <2>2. (IF flushes(i, w) THEN FALSE ELSE ram[i][w].d \/ hit_writes(in, i, w)) = d
    BY DEF flushes, hit_writes
  <2>3. ram'[i][w] = [ram[i][w] EXCEPT !.d = d, !.fresh = fr]
    BY <1>1, <1>4, <2>2 DEF ram_next
  <2> HIDE DEF d, fr
  <2>4. /\ ram'[i][w] \in RamRec
        /\ ram'[i][w].v = ram[i][w].v /\ ram'[i][w].tag = ram[i][w].tag
        /\ ram'[i][w].d = d /\ ram'[i][w].fresh = fr
    BY <1>2, <2>1, <2>3 DEF RamRec
  <2> QED BY <1>4, <2>4 DEF d, fr
<1> QED BY <1>3, <1>4

\* An index without an MSHR keeps its lines.
LEMMA IndexKept ==
  ASSUME BookIInv, LookupIInv, NEW in \in Inputs, Data(in),
         NEW i \in Idx, ~same_index_mshr(i)
  PROVE  /\ \A w \in Way : ram'[i][w].v = ram[i][w].v /\ ram'[i][w].tag = ram[i][w].tag
         /\ ValidAt(i)' = ValidAt(i)
<1>1. ASSUME NEW w \in Way PROVE ~refills(in, i, w)
  BY Refiller DEF refills, same_index_mshr
<1>2. \A w \in Way : ram'[i][w].v = ram[i][w].v /\ ram'[i][w].tag = ram[i][w].tag
  BY <1>1, RamMoves
<1> QED BY <1>2 DEF ValidAt

\* The way to replace is a way, and the empty one that was found is empty.
LEMMA Replaced ==
  ASSUME LookupIInv, s2.valid
  PROVE  replace_way_id \in Way
<1>1. s2.way \in Way /\ s2.lru \in Way
  BY DEF LookupIInv, LookupTypeOK, Named
<1>2. CASE ~(Way \subseteq s2.way_valid)
  <2>1. Way \ s2.way_valid # {} /\ Way \ s2.way_valid \subseteq Nat
    BY <1>2, L2Assumption DEF Way
  <2>2. \E w \in Way \ s2.way_valid : \A x \in Way \ s2.way_valid : w <= x
    BY <2>1, LeastNat
  <2>3. get_replace_way_id \in Way
    BY <1>2, <2>2 DEF get_replace_way_id
  <2> QED BY <1>1, <2>3 DEF replace_way_id
<1> QED BY <1>1, <1>2 DEF replace_way_id, get_replace_way_id

\* Stage 3 decides on what the RAM holds now: a hit finds the way of the line, a
\* miss means that no way has it.
LEMMA Decision ==
  ASSUME IInv, LookupIInv, s2.valid, s2.type # "BARRIER_SYNC"
  PROVE  /\ ~is_dirty_forward
         /\ ~hit => way_id = replace_way_id
         /\ ~hit /\ s2.type # "FLUSH_IDX" => \A w \in Way : ~Holds(s2.idx, w, s2.tag)
         /\ hit /\ s2.type # "FLUSH_IDX" => way_id \in Way /\ Holds(s2.idx, way_id, s2.tag)
<1>1. ~mc_resp_index(s2) /\ ~s2.mc_hit /\ ~forwarded
  BY DEF LookupIInv, NoForward, forwarded, mc_resp_hit
<1>2. hit <=> way_tag_hit # {}
  BY <1>1 DEF hit
<1>3. ~hit => way_id = replace_way_id
  BY DEF way_id
<1>4. /\ s2.way_valid = ValidAt(s2.idx)
      /\ \A w \in Way : s2.tags[w] = ram[s2.idx][w].tag
  BY DEF LookupIInv, Snapshot
<1>5. s2.type # "FLUSH_IDX" => way_tag_hit = {w \in Way : Holds(s2.idx, w, s2.tag)}
  BY <1>4 DEF way_tag_hit, ValidAt, Holds
<1>6. ASSUME hit, s2.type # "FLUSH_IDX"
      PROVE  way_id \in Way /\ Holds(s2.idx, way_id, s2.tag)
  <2>1. PICK w \in Way : Holds(s2.idx, w, s2.tag)
    BY <1>2, <1>5, <1>6
  <2>2. s2.idx \in Idx
    BY DEF LookupIInv, LookupTypeOK, Named
  <2>3. \A x \in Way : Holds(s2.idx, x, s2.tag) => x = w
    BY <2>1, <2>2 DEF LookupIInv, OneWayPerLine, Holds
  <2>4. way_tag_hit = {w}
    BY <1>5, <1>6, <2>1, <2>3
  <2>5. way_id = CHOOSE x \in way_tag_hit : \A y \in way_tag_hit : y <= x
    BY <1>1, <1>6 DEF way_id
  <2>6. w <= w
    BY L2Assumption DEF Way
  <2>7. way_id = w
    BY <2>4, <2>5, <2>6
  <2> QED BY <2>1, <2>7
<1> QED BY <1>1, <1>2, <1>3, <1>5, <1>6 DEF is_dirty_forward

\* A new MSHR is a flush that hit or a miss.
LEMMA NewMshr ==
  ASSUME IInv, LookupIInv, NEW in \in Inputs, Miss(in), mshr_we(in)
  PROVE  /\ s2.valid /\ s2.type # "BARRIER_SYNC" /\ new_mshr_id \in Ids \ valid_mshrs
         /\ mshr'[new_mshr_id] = new_mshr
         /\ ~flush(s2) <=> ~hit
         /\ ~same_index_mshr(s2.idx)
<1>1. s2.valid /\ (hit => flush(s2)) /\ (~hit => ~flush(s2)) /\ s2.type # "BARRIER_SYNC"
  BY DEF mshr_we, flush, FlushTypes
<1>2. new_mshr_id \in Ids \ valid_mshrs
  BY FreeMshr DEF mshr_we
<1>3. mshr'[new_mshr_id] = new_mshr
  BY <1>2 DEF Miss
<1> QED BY <1>1, <1>2, <1>3 DEF IInv, IndexExclusive

\* What an MSHR is after an edge: as it was, freed, or new.
LEMMA MshrAfter ==
  ASSUME IInv, LookupIInv, NEW in \in Inputs, Miss(in), NEW m \in Ids
  PROVE  \/ mshr_we(in) /\ m = new_mshr_id /\ mshr'[m] = new_mshr
         \/ ~(mshr_we(in) /\ m = new_mshr_id) /\ mshr'[m] = Empty /\ m \in retired(in)
         \/ /\ ~(mshr_we(in) /\ m = new_mshr_id)
            /\ mshr'[m] = mshr[m] /\ m \notin retired(in)
  BY DEF Miss

\* The registers stay in their ranges.
LEMMA LookupTypeStep ==
  ASSUME IInv, BookIInv, LookupIInv, NoAtomics, NEW in \in Inputs, Clk(in)
  PROVE  LookupTypeOK'
<1> USE DEF Clk
<1>1. RamTypeOK'
  <2>1. ram' = [i \in Idx |-> [w \in Way |-> ram_next(in, i, w)]]
    BY DEF Data
  <2>2. \A i \in Idx, w \in Way : ram_next(in, i, w) \in RamRec
    <3> SUFFICES ASSUME NEW i \in Idx, NEW w \in Way PROVE ram_next(in, i, w) \in RamRec
      OBVIOUS
    <3>1. ram'[i][w] \in RamRec
      BY RamMoves
    <3> QED BY <2>1, <3>1
  <2>3. ram' \in [Idx -> [Way -> RamRec]]
    BY <2>1, <2>2
  <2>4. \A a \in Idx \X Tag : mem[a] \in BOOLEAN
    BY DEF LookupIInv, LookupTypeOK, RamTypeOK
  <2>5. mem' \in [Idx \X Tag -> BOOLEAN]
    BY <2>4 DEF Data
  <2> QED BY <2>3, <2>5 DEF RamTypeOK
<1>2. /\ s1.valid => Named(s1)
      /\ s2.valid => Named(s2) /\ s2.lru \in Way
      /\ \A m \in valid_mshrs : Named(mshr[m])
  BY DEF LookupIInv, LookupTypeOK
<1>3. s1'.valid => Named(s1')
  <2>1. CASE s1' = s1
    BY <1>2, <2>1
  <2>2. CASE entering(in) # NoReq /\ s1' = [valid |-> TRUE, type |-> entering(in).type,
                 idx |-> entering(in).idx, tag |-> entering(in).tag,
                 way |-> entering(in).way, sc |-> sc(in)]
    <3>1. entering(in) \in Request
      BY <2>2, PlainEntry, L2Assumption
    <3> QED BY <2>2, <3>1 DEF Named, Request
  <2> QED BY <2>1, <2>2 DEF Pipeline, Empty
<1>4. s2'.valid => Named(s2') /\ s2'.lru \in Way
  <2>1. CASE s2' = s2
    BY <1>2, <2>1
  <2>2. CASE s1.valid /\ s2'.idx = s1.idx /\ s2'.tag = s1.tag /\ s2'.way = s1.way
             /\ s2'.lru = in.lru
    <3>1. in.lru \in Way
      BY <2>2 DEF Inputs, Wires
    <3> QED BY <1>2, <2>2, <3>1 DEF Named
  <2> QED BY <2>1, <2>2 DEF Pipeline, Empty
<1>5. ASSUME NEW m \in valid_mshrs' PROVE Named(mshr'[m])
  <2>1. m \in Ids /\ mshr'[m].valid
    BY DEF valid_mshrs
  <2>2. CASE mshr_we(in) /\ mshr'[m] = new_mshr
    <3>1. s2.valid /\ replace_way_id \in Way
      BY <2>2, NewMshr, Replaced
    <3> QED BY <1>2, <2>2, <3>1 DEF new_mshr, Named
  <2>3. CASE mshr'[m] = mshr[m]
    BY <1>2, <2>1, <2>3 DEF valid_mshrs
  <2> QED BY <2>1, <2>2, <2>3, MshrAfter DEF Empty
<1> QED BY <1>1, <1>3, <1>4, <1>5 DEF LookupTypeOK, Named

\* A burst comes for an index that neither stage holds: the request would not
\* have entered.
LEMMA NoForwardStep ==
  ASSUME IInv, BookIInv, LookupIInv, NoAtomics, NEW in \in Inputs, Clk(in)
  PROVE  NoForward'
<1> USE DEF Clk
<1>1. mc_resp'.valid => \E m \in valid_mshrs : mc_resp'.idx = mshr[m].idx
  <2> SUFFICES ASSUME mc_resp'.valid PROVE \E m \in valid_mshrs : mc_resp'.idx = mshr[m].idx
    OBVIOUS
  <2>1. rvalid(in) /\ mc_resp'.idx = mshr[in.r].idx
    BY DEF Miss, Empty
  <2>2. in.r \in valid_mshrs
    BY <2>1, MemoryWires DEF rvalid, BookIInv, OnePlace, valid_mshrs
  <2> QED BY <2>1, <2>2
<1>2. s1'.valid => ~same_index_mshr(s1'.idx)
  <2>1. CASE s1' = s1
    BY <2>1 DEF IInv, IndexExclusive
  <2>2. CASE entering(in) # NoReq /\ s1'.idx = entering(in).idx
    BY <2>2, PlainEntry
  <2> QED BY <2>1, <2>2, PipeMoves DEF Empty
<1>3. s2'.valid => ~same_index_mshr(s2'.idx)
  <2>1. CASE s2' = s2
    BY <2>1 DEF IInv, IndexExclusive
  <2>2. CASE s1.valid /\ s2'.idx = s1.idx
    BY <2>2 DEF IInv, IndexExclusive
  <2> QED BY <2>1, <2>2, PipeMoves DEF Empty
<1>4. s2'.valid => ~s2'.mc_hit
  <2>1. CASE s2' = s2
    BY <2>1 DEF LookupIInv, NoForward
  <2>2. CASE s1.valid /\ s2'.mc_hit = mc_resp_hit(s1)
    BY <2>2 DEF LookupIInv, NoForward, mc_resp_hit
  <2> QED BY <2>1, <2>2 DEF Pipeline, Empty
<1> QED BY <1>1, <1>2, <1>3, <1>4 DEF NoForward, mc_resp_index, same_index_mshr

\* What was read stays true: the index has no MSHR until the request leaves.
LEMMA SnapshotStep ==
  ASSUME IInv, BookIInv, LookupIInv, NoAtomics, NEW in \in Inputs, Clk(in)
  PROVE  Snapshot'
<1> USE DEF Clk
<1>1. /\ s1.valid => s1.idx \in Idx /\ ~same_index_mshr(s1.idx)
      /\ s2.valid => s2.idx \in Idx /\ ~same_index_mshr(s2.idx)
  BY DEF LookupIInv, LookupTypeOK, Named, IInv, IndexExclusive
<1>2. /\ s1.valid /\ s1.type # "BARRIER_SYNC" => valid_dout = ValidAt(s1.idx)
      /\ s2.valid /\ s2.type # "BARRIER_SYNC" =>
           /\ s2.way_valid = ValidAt(s2.idx)
           /\ \A w \in Way : s2.tags[w] = ram[s2.idx][w].tag
  BY DEF LookupIInv, Snapshot
<1>3. ASSUME s1'.valid, s1'.type # "BARRIER_SYNC" PROVE valid_dout' = ValidAt(s1.idx)'
  <2>1. CASE s1' = s1 /\ ~s2_ready(in)
    <3>1. valid_dout' = valid_dout
      BY <2>1 DEF Pipeline, valid_ram_read
    <3>2. \A w \in Way : ram'[s1.idx][w].v = ram[s1.idx][w].v
      BY <2>1, <1>3, <1>1, IndexKept
    <3> QED BY <2>1, <3>1, <3>2, <1>2, <1>3 DEF ValidAt
  <2>2. CASE entering(in) # NoReq /\ s1'.idx = entering(in).idx
    <3>1. /\ entering(in) = in.req /\ in.req \in Reqs /\ ~valid_ram_we(in) /\ s2_ready(in)
          /\ ~same_index_mshr(in.req.idx) /\ ~l2_amo_store(in)
      BY <2>2, PlainEntry
    <3>2. in.req.idx \in Idx /\ in.req # NoReq
      BY <3>1, <2>2, L2Assumption DEF Request
    <3>3. valid_dout' = ValidAt(in.req.idx)
      BY <3>1, <3>2 DEF Pipeline, valid_ram_read, ValidAt
    <3>4. \A w \in Way : ram'[in.req.idx][w].v = ram[in.req.idx][w].v
      BY <3>1, <3>2, IndexKept
    <3> QED BY <2>2, <3>1, <3>3, <3>4 DEF ValidAt
  <2> QED BY <1>3, <2>1, <2>2, PipeMoves DEF Empty
<1>4. ASSUME s2'.valid, s2'.type # "BARRIER_SYNC"
      PROVE  /\ s2'.way_valid = ValidAt(s2.idx)'
             /\ \A w \in Way : s2'.tags[w] = ram'[s2'.idx][w].tag
  <2>1. CASE s2' = s2
    <3>1. \A w \in Way : ram'[s2.idx][w].v = ram[s2.idx][w].v /\ ram'[s2.idx][w].tag = ram[s2.idx][w].tag
      BY <2>1, <1>4, <1>1, IndexKept
    <3> QED BY <3>1, <2>1, <1>2, <1>4 DEF ValidAt
  <2>2. CASE /\ s1.valid /\ s2'.type = s1.type /\ s2'.idx = s1.idx
             /\ s2'.way_valid = s2_way_valid
             /\ s2'.tags = [w \in Way |-> ram[s1.idx][w].tag]
    <3>1. \A w \in Way : ram'[s1.idx][w].v = ram[s1.idx][w].v /\ ram'[s1.idx][w].tag = ram[s1.idx][w].tag
      BY <2>2, <1>1, IndexKept
    <3>2. s2_way_valid = ValidAt(s1.idx)
      BY <2>2, <1>2, <1>4 DEF s2_way_valid, LookupIInv, NoForward
    <3> QED BY <3>1, <3>2, <2>2 DEF ValidAt
  <2> QED BY <1>4, <2>1, <2>2 DEF Pipeline, Empty
<1> QED BY <1>3, <1>4 DEF Snapshot, ValidAt

\* A miss stays a miss: only the refill of its own MSHR writes its index.
LEMMA MissingStep ==
  ASSUME IInv, BookIInv, LookupIInv, NoAtomics, NEW in \in Inputs, Clk(in)
  PROVE  Missing'
<1> USE DEF Clk
<1>1. ASSUME NEW m \in valid_mshrs', ~flush(mshr'[m]), NEW w \in Way
      PROVE  ~Holds(mshr[m].idx, w, mshr[m].tag)'
  <2>1. m \in Ids /\ mshr'[m].valid
    BY <1>1 DEF valid_mshrs
  <2>2. CASE mshr_we(in) /\ mshr'[m] = new_mshr
    <3>1. mshr'[m].idx = s2.idx /\ mshr'[m].tag = s2.tag /\ ~flush(s2)
      BY <1>1, <2>2 DEF new_mshr, flush
    <3>2. s2.valid /\ s2.type # "BARRIER_SYNC" /\ ~hit /\ ~same_index_mshr(s2.idx)
      BY <2>2, <3>1, NewMshr
    <3>3. ~Holds(s2.idx, w, s2.tag) /\ s2.idx \in Idx
      BY <3>1, <3>2, Decision DEF flush, FlushTypes, LookupIInv, LookupTypeOK, Named
    <3> QED BY <3>1, <3>2, <3>3, IndexKept DEF Holds
  <2>3. CASE mshr'[m] = mshr[m] /\ m \notin retired(in)
    <3>1. m \in valid_mshrs /\ Named(mshr[m])
      BY <2>1, <2>3 DEF valid_mshrs, LookupIInv, LookupTypeOK
    <3>2. ~Holds(mshr[m].idx, w, mshr[m].tag)
      BY <1>1, <2>3, <3>1 DEF LookupIInv, Missing
    <3>3. ~refills(in, mshr[m].idx, w)
      BY <2>3, <3>1, Refiller DEF refills, IInv, IndexExclusive
    <3>4. ram'[mshr[m].idx][w].v = ram[mshr[m].idx][w].v /\ ram'[mshr[m].idx][w].tag = ram[mshr[m].idx][w].tag
      BY <3>1, <3>3, RamMoves DEF Named
    <3> QED BY <2>3, <3>2, <3>4 DEF Holds
  <2> QED BY <2>1, <2>2, <2>3, MshrAfter DEF Empty
<1>2. ASSUME NEW m \in reading' PROVE ~flush(mshr'[m])
  <2>1. m \in Ids
    BY <1>2, PlaceMoves DEF BookShapes
  <2>2. m \in reading \/ (arvalid /\ m = Head(ar_fifo))
    BY <1>2, <2>1, PlaceMoves
  <2>3. ~flush(mshr[m])
    BY <2>2 DEF LookupIInv, Missing, arvalid, head
  <2>4. m \in valid_mshrs
    BY <2>1, <2>2, QueueTail DEF BookIInv, BookShapes, OnePlace, arvalid, valid_mshrs
  <2>5. ~(mshr_we(in) /\ m = new_mshr_id)
    BY <2>4, FreeMshr DEF mshr_we
  <2>6. ~flush(Empty)
    BY DEF flush, Empty, FlushTypes
  <2> QED BY <2>1, <2>3, <2>5, <2>6, MshrAfter
<1> QED BY <1>1, <1>2 DEF Missing, Holds, flush

\* A refill brings a line that no way of its index holds.
LEMMA OneWayStep ==
  ASSUME IInv, BookIInv, LookupIInv, NEW in \in Inputs, Data(in)
  PROVE  OneWayPerLine'
<1> SUFFICES ASSUME NEW i \in Idx, NEW v \in Way, NEW w \in Way,
                    ram'[i][v].v, ram'[i][w].v, ram'[i][v].tag = ram'[i][w].tag
             PROVE  v = w
  BY DEF OneWayPerLine
<1>1. CASE ~refills(in, i, v) /\ ~refills(in, i, w)
  <2>1. /\ ram'[i][v].v = ram[i][v].v /\ ram'[i][v].tag = ram[i][v].tag
        /\ ram'[i][w].v = ram[i][w].v /\ ram'[i][w].tag = ram[i][w].tag
    BY <1>1, RamMoves
  <2>2. OneWayPerLine
    BY DEF LookupIInv
  <2> QED BY <2>1, <2>2 DEF OneWayPerLine
<1>2. CASE refills(in, i, v) /\ refills(in, i, w)
  BY <1>2 DEF refills
<1>3. ASSUME NEW x \in Way, NEW y \in Way, refills(in, i, x), ~refills(in, i, y), ram'[i][y].v
      PROVE  ram'[i][x].tag # ram'[i][y].tag
  <2>1. in.r \in valid_mshrs /\ ~flush(mshr[in.r]) /\ mshr[in.r].idx = i
    BY <1>3, Refiller DEF refills
  <2>2. ~Holds(i, y, mshr[in.r].tag)
    BY <2>1 DEF LookupIInv, Missing
  <2> QED BY <1>3, <2>2, RamMoves DEF Holds
<1> QED BY <1>1, <1>2, <1>3

LEMMA LookupStep ==
  ASSUME NoAtomics, IInv, BookIInv, LookupIInv, [Next]_vars
  PROVE  LookupIInv'
<1>1. CASE Next
  <2>1. PICK in \in Inputs : Clk(in)
    BY <1>1 DEF Next
  <2>2. lock'.type # "AMO_LR"
    BY <2>1, PlainEntry DEF Clk
  <2>3. OneWayPerLine'
    BY <2>1, OneWayStep DEF Clk
  <2> QED BY <2>1, <2>2, <2>3, LookupTypeStep, NoForwardStep, SnapshotStep, MissingStep
          DEF LookupIInv
<1>2. CASE UNCHANGED vars
  BY <1>2 DEF vars, pipe_vars, mshr_vars, data_vars, LookupIInv, LookupTypeOK, RamTypeOK,
     NoForward, Snapshot, Missing, OneWayPerLine, mc_resp_index, ValidAt, Holds, valid_mshrs
<1> QED BY <1>1, <1>2

LEMMA LookupInit == ASSUME Init PROVE LookupIInv
<1> USE DEF Init, Empty
<1>1. RamTypeOK
  BY DEF RamTypeOK, RamRec
<1>2. valid_mshrs = {}
  BY DEF valid_mshrs
<1>3. LookupTypeOK
  BY <1>1, <1>2 DEF LookupTypeOK
<1>4. OneWayPerLine
  BY DEF OneWayPerLine
<1>5. NoForward /\ Snapshot /\ Missing /\ lock.type # "AMO_LR"
  BY <1>2 DEF NoForward, Snapshot, Missing, NoReq
<1> QED BY <1>3, <1>4, <1>5 DEF LookupIInv

LEMMA LookupInductive == ASSUME NoAtomics PROVE Spec => []LookupIInv
<1>1. Init => LookupIInv
  BY LookupInit
<1>2. IInv /\ BookIInv /\ LookupIInv /\ [Next]_vars => LookupIInv'
  BY LookupStep
<1> QED BY <1>1, <1>2, Inductive, BookInductive, PTL DEF Spec

\* "tag hit must have one hit at most": without atomics no line is ever in two
\* ways, for every geometry, whatever is flushed, missed or refilled.
THEOREM NoLineTwice == ASSUME NoAtomics PROVE Spec => []OneWayPerLine
<1>1. LookupIInv => OneWayPerLine
  BY DEF LookupIInv
<1> QED BY <1>1, LookupInductive, PTL

-----------------------------------------------------------------------------
(* The data: what a clock edge does to memory and to the way of an MSHR. *)

\* A line is written in the way that holds it, or by the refill that brings it.
LEMMA Written ==
  ASSUME IInv, BookIInv, LookupIInv, NEW in \in Inputs, NEW i, NEW t, <<i, t>> \in performed(in)
  PROVE  i \in Idx /\ \/ /\ ~same_index_mshr(i) /\ way_id \in Way
                         /\ hit_writes(in, i, way_id) /\ Holds(i, way_id, t)
                      \/ /\ last_burst_accepted(in) /\ rw(mshr[in.r])
                         /\ mshr[in.r].idx = i /\ mshr[in.r].tag = t /\ mshr[in.r].way \in Way
                         /\ refills(in, i, mshr[in.r].way) /\ \A w \in Way : ~Holds(i, w, t)
<1>1. CASE s3_done(in) /\ <<i, t>> = line(s2)
  <2>1. s2.valid /\ hit /\ s2.type \notin {"BARRIER_SYNC", "FLUSH_IDX"} /\ i = s2.idx /\ t = s2.tag
    BY <1>1 DEF s3_done, writes, line
  <2>2. way_id \in Way /\ Holds(i, way_id, t)
    BY <2>1, Decision
  <2>3. i \in Idx /\ ~same_index_mshr(i)
    BY <2>1 DEF LookupIInv, LookupTypeOK, Named, IInv, IndexExclusive
  <2> QED BY <1>1, <2>1, <2>2, <2>3 DEF hit_writes
<1>2. CASE last_burst_accepted(in) /\ rw(mshr[in.r]) /\ <<i, t>> = line(mshr[in.r])
  <2>1. in.r \in valid_mshrs /\ ~flush(mshr[in.r]) /\ Named(mshr[in.r])
    BY <1>2, Refiller
  <2>2. i = mshr[in.r].idx /\ t = mshr[in.r].tag
    BY <1>2 DEF line
  <2> QED BY <1>2, <2>1, <2>2 DEF refills, Named, LookupIInv, Missing
<1> QED BY <1>1, <1>2 DEF performed

LEMMA MemMoves ==
  ASSUME NEW in, Data(in), NEW i \in Idx, NEW t \in Tag
  PROVE  mem'[<<i, t>>] = IF <<i, t>> \in performed(in) THEN FALSE
                      ELSE IF in.b # NoId /\ <<i, t>> = victim_line(in.b)
                      THEN written[in.b] = "FRESH" ELSE mem[<<i, t>>]
  BY DEF Data

\* What a refill takes from memory is fresh: no way holds the line.
LEMMA RefillFresh ==
  ASSUME BookIInv, LookupIInv, DataIInv, NEW in \in Inputs, last_burst_accepted(in)
  PROVE  mem[line(mshr[in.r])]
<1>1. in.r \in valid_mshrs /\ ~flush(mshr[in.r]) /\ Named(mshr[in.r])
  BY Refiller
<1>2. \A w \in Way : ~Holds(mshr[in.r].idx, w, mshr[in.r].tag)
  BY <1>1 DEF LookupIInv, Missing
<1> QED BY <1>1, <1>2 DEF DataIInv, CleanMeansInMemory, Named, line, Holds

\* A valid way has every write performed so far.
LEMMA FreshStep ==
  ASSUME IInv, BookIInv, LookupIInv, DataIInv, NEW in \in Inputs, Data(in)
  PROVE  WaysFresh'
<1> SUFFICES ASSUME NEW i \in Idx, NEW w \in Way, ram'[i][w].v PROVE ram'[i][w].fresh
  BY DEF WaysFresh
<1>1. CASE refills(in, i, w)
  <2>1. mem[line(mshr[in.r])]
    BY <1>1, RefillFresh DEF refills
  <2> QED BY <1>1, <2>1, RamMoves
<1>2. CASE ~refills(in, i, w)
  <2> DEFINE t == ram[i][w].tag
  <2>1. ram[i][w].v /\ ram[i][w].fresh /\ Holds(i, w, t)
    <3>1. ram[i][w].v
      BY <1>2, RamMoves
    <3> QED BY <3>1 DEF DataIInv, WaysFresh, Holds
  <2>2. hit_writes(in, i, w) => t = s2.tag
    <3> SUFFICES ASSUME hit_writes(in, i, w) PROVE t = s2.tag
      OBVIOUS
    <3>1. s2.valid /\ hit /\ s2.type \notin {"BARRIER_SYNC", "FLUSH_IDX"} /\ i = s2.idx /\ w = way_id
      BY DEF hit_writes, s3_done, writes
    <3> QED BY <3>1, Decision DEF Holds
  <2>3. ~hit_writes(in, i, w) => <<i, t>> \notin performed(in)
    <3> SUFFICES ASSUME <<i, t>> \in performed(in) PROVE hit_writes(in, i, w)
      OBVIOUS
    <3>1. way_id \in Way /\ hit_writes(in, i, way_id) /\ Holds(i, way_id, t)
      BY <2>1, Written
    <3>2. way_id = w
      BY <2>1, <3>1 DEF LookupIInv, OneWayPerLine, Holds
    <3> QED BY <3>1, <3>2
  <2> QED BY <1>2, <2>1, <2>2, <2>3, RamMoves
<1> QED BY <1>1, <1>2

\* The flush at the head of the AR FIFO retires in the cycle in which it cleans.
LEMMA Flusher ==
  ASSUME BookIInv, NEW i, NEW w, flushes(i, w), NEW in
  PROVE  \E m \in valid_mshrs : /\ Queued(ar_fifo, m) /\ m \in retired(in)
                                /\ mshr[m].idx = i /\ mshr[m].way = w
<1> DEFINE m == Head(ar_fifo)
<1>1. ar_fifo # <<>> /\ flush_req /\ mshr[m].idx = i /\ mshr[m].way = w
  BY DEF flushes, flush_req, head
<1>2. Queued(ar_fifo, m) /\ m \in Ids
  BY <1>1, QueueTail DEF BookIInv, BookShapes
<1>3. m \in valid_mshrs
  BY <1>2 DEF BookIInv, OnePlace, valid_mshrs
<1>4. m \in retired(in)
  BY <1>1 DEF retired
<1> QED BY <1>1, <1>2, <1>3, <1>4

\* Memory loses a line only to a way that becomes dirty; a way is cleaned or
\* filled only when memory has what was dirty in it.
LEMMA CleanStep ==
  ASSUME IInv, BookIInv, LookupIInv, DataIInv, NEW in \in Inputs, Data(in)
  PROVE  CleanMeansInMemory'
<1> SUFFICES ASSUME NEW i \in Idx, NEW t \in Tag, ~mem'[<<i, t>>]
             PROVE  \E w \in Way : ram'[i][w].v /\ ram'[i][w].tag = t /\ ram'[i][w].d
  BY DEF CleanMeansInMemory
<1>1. CASE <<i, t>> \in performed(in)
  <2>1. CASE /\ ~same_index_mshr(i) /\ way_id \in Way
             /\ hit_writes(in, i, way_id) /\ Holds(i, way_id, t)
    <3>1. ~refills(in, i, way_id)
      BY <2>1, Refiller DEF refills, same_index_mshr
    <3>2. ~flushes(i, way_id)
      BY <2>1, Flusher DEF same_index_mshr
    <3> QED BY <2>1, <3>1, <3>2, RamMoves DEF Holds
  <2>2. CASE /\ rw(mshr[in.r]) /\ mshr[in.r].tag = t /\ mshr[in.r].way \in Way
             /\ refills(in, i, mshr[in.r].way)
    BY <2>2, RamMoves
  <2> QED BY <1>1, <2>1, <2>2, Written
<1>2. CASE <<i, t>> \notin performed(in)
  <2>1. in.b # NoId => Writing(in.b) /\ written[in.b] = "FRESH"
    BY MemoryWires DEF DataIInv, VictimSafe
  <2>2. ~mem[<<i, t>>]
    BY <1>2, <2>1, MemMoves
  <2>3. PICK w \in Way : Holds(i, w, t) /\ ram[i][w].d
    BY <2>2 DEF DataIInv, CleanMeansInMemory, Holds
  <2>4. ~refills(in, i, w)
    <3> SUFFICES ASSUME refills(in, i, w) PROVE FALSE
      OBVIOUS
    <3>1. in.r \in reading /\ in.r \in Ids /\ mshr[in.r].idx = i /\ mshr[in.r].way = w
      BY Refiller DEF refills
    <3>2. Saved(in.r)
      BY <3>1 DEF DataIInv, VictimSafe, ToRead
    <3> QED BY <3>1, <3>2, <2>2, <2>3 DEF Saved
  <2>5. ~flushes(i, w)
    <3> SUFFICES ASSUME flushes(i, w) PROVE FALSE
      OBVIOUS
    <3>1. PICK m \in valid_mshrs : Queued(ar_fifo, m) /\ mshr[m].idx = i /\ mshr[m].way = w
      BY Flusher
    <3>2. Saved(m)
      BY <3>1 DEF DataIInv, VictimSafe, ToRead, valid_mshrs
    <3> QED BY <3>1, <3>2, <2>2, <2>3 DEF Saved
  <2> QED BY <2>3, <2>4, <2>5, RamMoves DEF Holds
<1> QED BY <1>1, <1>2

\* While an MSHR waits, its way and the victim's line change only by its own
\* write-back.
LEMMA SlotKept ==
  ASSUME IInv, BookIInv, LookupIInv, NEW in \in Inputs, Data(in),
         NEW m \in valid_mshrs, m \notin retired(in)
  PROVE  LET i == mshr[m].idx
             w == mshr[m].way
         IN  /\ ram'[i][w].v = ram[i][w].v /\ ram'[i][w].tag = ram[i][w].tag
             /\ ram'[i][w].d = ram[i][w].d
             /\ \A t : <<i, t>> \notin performed(in)
             /\ \A t \in Tag : mem'[<<i, t>>] = IF in.b = m /\ t = mshr[m].old_tag
                                                THEN written[m] = "FRESH" ELSE mem[<<i, t>>]
<1> DEFINE i == mshr[m].idx
           w == mshr[m].way
<1>1. i \in Idx /\ w \in Way /\ m \in Ids
  BY DEF LookupIInv, LookupTypeOK, Named, valid_mshrs
<1>2. same_index_mshr(i) /\ ~(s2.valid /\ s2.idx = i)
      /\ (\A n \in valid_mshrs : mshr[n].idx = i => n = m)
  BY DEF IInv, IndexExclusive, same_index_mshr
<1>3. ~hit_writes(in, i, w)
  BY <1>2 DEF hit_writes, s3_done
<1>4. ~flushes(i, w)
  BY <1>2, Flusher
<1>5. ~(last_burst_accepted(in) /\ mshr[in.r].idx = i)
  BY <1>2, Refiller
<1>6. \A t : <<i, t>> \notin performed(in)
  BY <1>2, <1>5, Written
<1>7. ~refills(in, i, w)
  BY <1>5 DEF refills
<1>8. ASSUME NEW t \in Tag
      PROVE  mem'[<<i, t>>] = IF in.b = m /\ t = mshr[m].old_tag
                              THEN written[m] = "FRESH" ELSE mem[<<i, t>>]
  <2>1. in.b # NoId => in.b \in valid_mshrs
    BY MemoryWires DEF BookIInv, OnePlace, valid_mshrs
  <2>2. m # NoId
    BY <1>1, MemoryWires
  <2>3. in.b # NoId /\ <<i, t>> = victim_line(in.b) <=> in.b = m /\ t = mshr[m].old_tag
    BY <1>2, <2>1, <2>2 DEF victim_line
  <2>4. mem'[<<i, t>>] = IF <<i, t>> \in performed(in) THEN FALSE
                         ELSE IF in.b # NoId /\ <<i, t>> = victim_line(in.b)
                         THEN written[in.b] = "FRESH" ELSE mem[<<i, t>>]
    BY <1>1, MemMoves
  <2> QED BY <1>6, <2>3, <2>4
<1>9. ram'[i][w].d = ram[i][w].d
  <2>1. ram[i][w].d \in BOOLEAN
    BY <1>1 DEF LookupIInv, LookupTypeOK, RamTypeOK, RamRec
  <2> QED BY <1>1, <1>3, <1>4, <1>7, <2>1, RamMoves
<1> QED BY <1>1, <1>6, <1>7, <1>8, <1>9, RamMoves

\* The victim of an MSHR that goes on its way.
LEMMA VictimKept ==
  ASSUME IInv, BookIInv, BookIInv', LookupIInv, DataIInv, NEW in \in Inputs, Clk(in),
         NEW m \in valid_mshrs, m \notin retired(in)
  PROVE  /\ mshr'[m] = mshr[m]
         /\ ToWrite(m)' => InPlace(m)'
         /\ Writing(m)' => InPlace(m)' /\ written'[m] = "FRESH"
         /\ ToRead(m)' => Saved(m)'
<1> USE DEF Clk
<1>1. m \in Ids /\ ~(mshr_we(in) /\ m = new_mshr_id) /\ mshr[m].valid
  BY FreeMshr DEF mshr_we, valid_mshrs
<1>2. mshr'[m] = mshr[m]
  BY <1>1, MshrAfter
<1>3. InPlace(m)' <=> InPlace(m)
  BY <1>2, SlotKept DEF InPlace, Holds
<1>4. /\ ToWrite(m) => InPlace(m)
      /\ Writing(m) => InPlace(m) /\ written[m] = "FRESH"
      /\ ToRead(m) => Saved(m)
  BY <1>1 DEF DataIInv, VictimSafe
<1>5. /\ arvalid /\ m = Head(ar_fifo) => Queued(ar_fifo, m)
      /\ in.w /\ m = Head(w_fifo) => Queued(w_fifo, m)
  BY MemoryWires, QueueTail DEF BookIInv, BookShapes, arvalid
<1>6. /\ ToWrite(m)' => ToWrite(m)
      /\ Writing(m)' => m # in.b /\ (Writing(m) \/ (in.w /\ m = Head(w_fifo)))
      /\ ToRead(m)' => ToRead(m) \/ m = in.b
  <2>1. ~Asked(m)'
    BY <1>1, PlaceMoves
  <2>2. Queued(w_fifo', m) => ToWrite(m)
    BY <1>1, PlaceMoves DEF ToWrite
  <2>3. Queued(ar_fifo', m) \/ m \in reading' => ToRead(m) \/ m = in.b
    BY <1>1, <1>5, PlaceMoves DEF ToRead
  <2>4. Writing(m)' => m # in.b /\ (Writing(m) \/ (in.w /\ m = Head(w_fifo)))
    BY <1>1, PlaceMoves
  <2> QED BY <2>1, <2>2, <2>3, <2>4 DEF ToWrite, ToRead
<1>7. ASSUME Writing(m)' PROVE InPlace(m)' /\ written'[m] = "FRESH"
  <2>1. InPlace(m)
    BY <1>4, <1>5, <1>6, <1>7 DEF ToWrite
  <2>2. victim(m) = "FRESH"
    <3>1. mshr[m].idx \in Idx /\ mshr[m].way \in Way
      BY DEF LookupIInv, LookupTypeOK, Named
    <3> QED BY <2>1, <3>1 DEF victim, InPlace, Holds, DataIInv, WaysFresh
  <2>3. victim_line(m) \notin performed(in)
    BY SlotKept DEF victim_line
  <2>4. written'[m] = IF m = in.b THEN "NONE"
                      ELSE IF in.w /\ m = Head(w_fifo) THEN victim(m)
                      ELSE IF written[m] # "NONE" /\ victim_line(m) \in performed(in)
                      THEN "STALE" ELSE written[m]
    BY <1>1 DEF Data
  <2>5. m # in.b /\ ((in.w /\ m = Head(w_fifo)) \/ written[m] = "FRESH")
    BY <1>4, <1>6, <1>7
  <2> QED BY <1>3, <2>1, <2>2, <2>3, <2>4, <2>5
<1>8. ASSUME Saved(m), m # in.b PROVE Saved(m)'
  BY <1>2, <1>8, SlotKept DEF Saved, Holds
<1>9. ASSUME m = in.b PROVE Saved(m)'
  <2>1. InPlace(m) /\ written[m] = "FRESH"
    BY <1>1, <1>4, <1>9, MemoryWires
  <2>2. ASSUME NEW t \in Tag, Holds(mshr[m].idx, mshr[m].way, t)' PROVE mem'[<<mshr[m].idx, t>>]
    <3>1. t = mshr[m].old_tag
      <4>1. ram'[mshr[m].idx][mshr[m].way].tag = ram[mshr[m].idx][mshr[m].way].tag
        BY SlotKept
      <4>2. mshr'[m].idx = mshr[m].idx /\ mshr'[m].way = mshr[m].way
        BY <1>2
      <4> QED BY <2>1, <2>2, <4>1, <4>2 DEF InPlace, Holds
    <3> QED BY <1>9, <2>1, <3>1, SlotKept
  <2> QED BY <1>2, <2>2 DEF Saved, Holds
<1> QED BY <1>2, <1>3, <1>4, <1>6, <1>7, <1>8, <1>9

\* The victim of a new MSHR: dirty and in its way, or nothing that memory lacks.
LEMMA VictimNew ==
  ASSUME IInv, BookIInv, LookupIInv, NEW in \in Inputs, Clk(in), mshr_we(in),
         NEW m, m = new_mshr_id
  PROVE  /\ ToWrite(m)' => InPlace(m)'
         /\ ~Writing(m)'
         /\ ToRead(m)' => Saved(m)'
<1> USE DEF Clk
<1>1. /\ s2.valid /\ s2.type # "BARRIER_SYNC" /\ m \in Ids \ valid_mshrs
      /\ mshr'[m] = new_mshr /\ (~flush(s2) <=> ~hit) /\ ~same_index_mshr(s2.idx)
  BY NewMshr
<1>2. ~Queued(w_fifo, m) /\ ~Writing(m) /\ ~Queued(ar_fifo, m) /\ m \notin reading /\ ~Asked(m)
  BY <1>1 DEF BookIInv, OnePlace, valid_mshrs
<1>3. /\ (arvalid \/ flush_req) /\ m = Head(ar_fifo) => Queued(ar_fifo, m)
      /\ in.w /\ m = Head(w_fifo) => Queued(w_fifo, m)
      /\ m = in.b => Writing(m)
  BY <1>1, MemoryWires, QueueTail DEF BookIInv, BookShapes, arvalid, flush_req
<1>4. ~Queued(w_fifo', m) /\ ~Writing(m)' /\ ~Queued(ar_fifo', m) /\ m \notin reading'
  BY <1>1, <1>2, <1>3, PlaceMoves
<1>5. /\ replace_way_id \in Way /\ s2.idx \in Idx /\ ~is_dirty_forward
      /\ s2.way_valid = ValidAt(s2.idx)
      /\ \A w \in Way : s2.tags[w] = ram[s2.idx][w].tag
      /\ ~hit => way_id = replace_way_id
  BY <1>1, Replaced, Decision DEF LookupIInv, LookupTypeOK, Named, Snapshot
<1>6. /\ mshr'[m].idx = s2.idx /\ mshr'[m].way = replace_way_id
      /\ mshr'[m].old_tag = ram[s2.idx][replace_way_id].tag
      /\ flush(mshr'[m]) <=> flush(s2)
  BY <1>1, <1>5 DEF new_mshr, flush
<1>7. req_ff'.dirty = victim_dirty
  BY DEF Miss
<1>8. /\ ram'[s2.idx][replace_way_id].v = ram[s2.idx][replace_way_id].v
      /\ ram'[s2.idx][replace_way_id].tag = ram[s2.idx][replace_way_id].tag
  BY <1>1, <1>5, IndexKept
<1>9. ASSUME victim_dirty PROVE InPlace(m)'
  BY <1>5, <1>6, <1>8, <1>9 DEF victim_dirty, ValidAt, InPlace, Holds
<1>10. ASSUME ~victim_dirty, ~hit PROVE Saved(m)'
  <2>1. ~(ram[s2.idx][replace_way_id].d /\ ram[s2.idx][replace_way_id].v)
    BY <1>5, <1>10 DEF victim_dirty, ValidAt
  <2>2. ~hit_writes(in, s2.idx, replace_way_id) /\ ~refills(in, s2.idx, replace_way_id)
    BY <1>1, <1>10, Refiller DEF hit_writes, s3_done, refills, same_index_mshr
  <2>3. ~(ram'[s2.idx][replace_way_id].d /\ ram'[s2.idx][replace_way_id].v)
    BY <1>5, <2>1, <2>2, RamMoves
  <2> QED BY <1>6, <2>3 DEF Saved, Holds
<1> QED BY <1>1, <1>4, <1>6, <1>7, <1>9, <1>10 DEF ToWrite, ToRead

LEMMA VictimStep ==
  ASSUME IInv, BookIInv, BookIInv', LookupIInv, DataIInv, NEW in \in Inputs, Clk(in)
  PROVE  VictimSafe'
<1> SUFFICES ASSUME NEW m \in Ids
             PROVE  /\ ToWrite(m)' => InPlace(m)'
                    /\ Writing(m)' => InPlace(m)' /\ written'[m] = "FRESH"
                    /\ ToRead(m)' => Saved(m)'
  BY DEF VictimSafe
<1>1. CASE mshr_we(in) /\ m = new_mshr_id
  BY <1>1, VictimNew
<1>2. CASE m \in valid_mshrs /\ m \notin retired(in)
  BY <1>2, VictimKept
<1>3. CASE ~mshr'[m].valid
  BY <1>3 DEF BookIInv, OnePlace, ToWrite, ToRead
<1>4. \/ mshr_we(in) /\ m = new_mshr_id
      \/ ~mshr'[m].valid
      \/ mshr'[m] = mshr[m] /\ m \notin retired(in)
  BY MshrAfter DEF Clk, Empty
<1> QED BY <1>1, <1>2, <1>3, <1>4 DEF valid_mshrs

LEMMA DataInductive == ASSUME NoAtomics PROVE Spec => []DataIInv
<1>1. Init => DataIInv
  <2> SUFFICES ASSUME Init PROVE DataIInv
    OBVIOUS
  <2>1. WaysFresh
    BY DEF Init, WaysFresh
  <2>2. CleanMeansInMemory
    BY DEF Init, CleanMeansInMemory
  <2>3. VictimSafe
    BY DEF Init, VictimSafe, ToWrite, ToRead, Asked, Writing, Queued, Empty
  <2> QED BY <2>1, <2>2, <2>3 DEF DataIInv
<1>2. IInv /\ BookIInv /\ BookIInv' /\ LookupIInv /\ DataIInv /\ [Next]_vars => DataIInv'
  <2> SUFFICES ASSUME IInv, BookIInv, BookIInv', LookupIInv, DataIInv, [Next]_vars
               PROVE  DataIInv'
    OBVIOUS
  <2>1. CASE Next
    <3>1. PICK in \in Inputs : Clk(in)
      BY <2>1 DEF Next
    <3> QED BY <3>1, FreshStep, CleanStep, VictimStep DEF Clk, DataIInv
  <2>2. CASE UNCHANGED vars
    BY <2>2, SMTT(30) DEF vars, mshr_vars, data_vars, DataIInv, WaysFresh, CleanMeansInMemory,
       VictimSafe, ToWrite, ToRead, InPlace, Saved, Holds, Asked, Writing
  <2> QED BY <2>1, <2>2
<1> QED BY <1>1, <1>2, Inductive, BookInductive, LookupInductive, PTL DEF Spec

\* Without atomics no line is lost: what memory does not have is dirty in a way,
\* through every eviction, write-back and flush, also where FLUSH_ADDR writes back
\* another way than the one that hit.
THEOREM CleanIsInMemory == ASSUME NoAtomics PROVE Spec => []CleanMeansInMemory
<1>1. DataIInv => CleanMeansInMemory
  BY DEF DataIInv
<1> QED BY <1>1, DataInductive, PTL

\* A read whose index is its own finds no write of its line that is still owed.
LEMMA NothingOwed ==
  ASSUME IInv
  PROVE  /\ s2.valid /\ s2.type \in ReadTypes => line(s2) \notin owed
         /\ \A m \in valid_mshrs : ~rw(mshr[m]) => line(mshr[m]) \notin owed
<1>1. \A x : x.type \in ReadTypes => ~WriteType(x)
  BY DEF ReadTypes, WriteType
<1>2. ASSUME s2.valid, s2.type \in ReadTypes, line(s2) \in owed PROVE FALSE
  <2>1. ~PendingWrite(s2)
    BY <1>1, <1>2 DEF PendingWrite
  <2>2. ~(PendingWrite(s1) /\ line(s1) = line(s2))
    BY <1>2 DEF IInv, IndexExclusive, PendingWrite, line
  <2>3. ~\E m \in valid_mshrs : line(mshr[m]) = line(s2)
    BY <1>2 DEF IInv, IndexExclusive, same_index_mshr, line
  <2> QED BY <1>2, <2>1, <2>2, <2>3 DEF IInv, Accounted
<1>3. ASSUME NEW m \in valid_mshrs, ~rw(mshr[m]), line(mshr[m]) \in owed PROVE FALSE
  <2>1. ~WriteType(mshr[m])
    BY <1>1, <1>3 DEF rw
  <2>2. ~(PendingWrite(s1) /\ line(s1) = line(mshr[m])) /\ ~(PendingWrite(s2) /\ line(s2) = line(mshr[m]))
    BY DEF IInv, IndexExclusive, same_index_mshr, PendingWrite, line
  <2>3. \A n \in valid_mshrs : line(mshr[n]) = line(mshr[m]) => n = m
    BY DEF IInv, IndexExclusive, line
  <2> QED BY <1>3, <2>1, <2>2, <2>3 DEF IInv, Accounted
<1> QED BY <1>2, <1>3

\* Without atomics every read returns the latest data of its line, and no read
\* passes a write accepted before it, for every geometry and every mix of reads,
\* writes, LR, SC, flushes and barriers.
THEOREM ReadsAreCoherent == ASSUME NoAtomics PROVE Spec => []ReadsCoherent
<1>1. Init => ReadsCoherent
  BY DEF Init, ReadsCoherent
<1>2. IInv /\ BookIInv /\ LookupIInv /\ DataIInv /\ ReadsCoherent /\ [Next]_vars => ReadsCoherent'
  <2> SUFFICES ASSUME IInv, BookIInv, LookupIInv, DataIInv, ReadsCoherent, [Next]_vars
               PROVE  ReadsCoherent'
    OBVIOUS
  <2>1. CASE Next
    <3>1. PICK in \in Inputs : Clk(in)
      BY <2>1 DEF Next
    <3>2. ASSUME s3_valid(in), hit, s2.type \in ReadTypes
          PROVE  ram[s2.idx][way_id].fresh /\ ram[s2.idx][way_id].tag = s2.tag /\ line(s2) \notin owed
      <4>1. s2.valid /\ s2.type \notin {"BARRIER_SYNC", "FLUSH_IDX"}
        BY <3>2 DEF s3_valid, ReadTypes
      <4>2. way_id \in Way /\ Holds(s2.idx, way_id, s2.tag) /\ s2.idx \in Idx
        BY <3>2, <4>1, Decision DEF LookupIInv, LookupTypeOK, Named
      <4> QED BY <3>2, <4>1, <4>2, NothingOwed DEF DataIInv, WaysFresh, Holds
    <3>3. ASSUME mshr_resp_valid(in)
          PROVE  mem[line(mshr[in.r])] /\ line(mshr[in.r]) \notin owed
      <4>1. last_burst_accepted(in) /\ ~rw(mshr[in.r])
        BY <3>3 DEF mshr_resp_valid
      <4> QED BY <4>1, Refiller, RefillFresh, NothingOwed
    <3>4. ~reads_stale(in)
      BY <3>2, <3>3 DEF reads_stale
    <3> QED BY <3>1, <3>4 DEF Clk, Data, ReadsCoherent
  <2>2. CASE UNCHANGED vars
    BY <2>2 DEF vars, data_vars, ReadsCoherent
  <2> QED BY <2>1, <2>2
<1> QED BY <1>1, <1>2, Inductive, BookInductive, LookupInductive, DataInductive, PTL DEF Spec
=============================================================================
