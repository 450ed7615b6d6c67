---------------------------- MODULE RrArb_proofs ----------------------------
(***************************************************************************)
(* Proofs about RrArb, for every number of inputs: the grant is sound, a   *)
(* frozen grant does not move, and no input is bypassed more than N times. *)
(***************************************************************************)
EXTENDS RrArb, WellFoundedInduction, TLAPS

\* A non-empty set of naturals has a least element.
LEMMA LeastNatural ==
  ASSUME NEW S \in SUBSET Nat, S # {}
  PROVE  \E m \in S : \A n \in S : m <= n
<1>1. \E m \in S : \A n \in S : ~(<<n, m>> \in OpToRel(<, Nat))
  BY NatLessThanWellFounded, WFMin
<1>2. PICK m \in S : \A n \in S : ~(<<n, m>> \in OpToRel(<, Nat))
  BY <1>1
<1>3. \A n \in S : ~(n < m)
  BY <1>2 DEF OpToRel
<1> QED BY <1>3

\* The distances are a permutation of 0 .. N-1: each input has its own.
LEMMA DistFacts ==
  ASSUME TypeOK
  PROVE  /\ \A i \in Inputs : Dist(i) \in 0 .. N - 1
         /\ \A i, j \in Inputs : Dist(i) = Dist(j) => i = j
  BY NAssumption DEF TypeOK, Inputs, Dist

\* The rotation finds exactly one winner whenever anything is requested.
LEMMA NextGrtWinner ==
  ASSUME TypeOK, vld # {}
  PROVE  \E w \in vld : /\ next_grt = {w}
                        /\ grt_id = w
                        /\ \A j \in vld : Dist(w) <= Dist(j)
<1>1. vld \subseteq Inputs
  BY DEF TypeOK
<1> DEFINE S == {Dist(i) : i \in vld}
<1>2. S \in SUBSET Nat /\ S # {}
  BY <1>1, DistFacts, NAssumption
<1>3. \E m \in S : \A n \in S : m <= n
  <2> HIDE DEF S
  <2> QED BY <1>2, LeastNatural
<1>4. PICK w \in vld : \A j \in vld : Dist(w) <= Dist(j)
  BY <1>3
<1>5. \A i \in vld : (\A j \in vld : Dist(i) <= Dist(j)) => i = w
  <2> SUFFICES ASSUME NEW i \in vld, \A j \in vld : Dist(i) <= Dist(j)
               PROVE  i = w
    OBVIOUS
  <2>1. Dist(i) \in 0 .. N - 1 /\ Dist(w) \in 0 .. N - 1
    BY <1>1, DistFacts
  <2>2. Dist(i) = Dist(w)
    BY <2>1, <1>4, NAssumption
  <2> QED BY <2>2, <1>1, DistFacts
<1>6. next_grt = {w}
  BY <1>4, <1>5 DEF next_grt
<1>7. grt_id = w
  BY <1>6 DEF grt_id
<1> QED BY <1>4, <1>6, <1>7

-----------------------------------------------------------------------------
(***************************************************************************)
(* The inductive invariant.  The frozen grant is one requesting input, and *)
(* an input that would now win against it has arrived during the hold, so  *)
(* no transfer has passed it yet.  passed[i] and the distance of i share   *)
(* the budget N: a transfer that is not i's brings i closer by at least    *)
(* one, except in the cycle in which the rotation jumps over i itself.     *)
(***************************************************************************)
HeldGrant ==
  rff_state = "ST_HOLD" =>
    \E g \in vld : /\ rff_grt = {g}
                   /\ \A i \in vld : Dist(i) < Dist(g) => passed[i] = 0

Budget == \A i \in Inputs : passed[i] + Dist(i) <= N

IInv == TypeOK /\ HeldGrant /\ Budget

\* Under the invariant the grant is one requesting input, and the rotation
\* always has a winner to restart from.
LEMMA GrantFacts ==
  ASSUME IInv, vld # {}
  PROVE  \E w, g \in vld :
           /\ grt_id = w
           /\ grt = {g}
           /\ \A j \in vld : Dist(w) <= Dist(j)
           /\ rff_state # "ST_HOLD" => w = g
           /\ w # g => passed[w] = 0
<1>1. PICK w \in vld : /\ next_grt = {w}
                       /\ grt_id = w
                       /\ \A j \in vld : Dist(w) <= Dist(j)
  BY NextGrtWinner DEF IInv
<1>2. CASE rff_state = "ST_HOLD"
  <2>1. PICK g \in vld : /\ rff_grt = {g}
                         /\ \A i \in vld : Dist(i) < Dist(g) => passed[i] = 0
    BY <1>2 DEF IInv, HeldGrant
  <2>2. grt = {g}
    BY <1>2, <2>1 DEF grt
  <2>3. ASSUME w # g PROVE passed[w] = 0
    <3>1. Dist(w) # Dist(g) /\ Dist(w) \in 0 .. N - 1 /\ Dist(g) \in 0 .. N - 1
      BY <2>3, DistFacts DEF IInv, TypeOK
    <3>2. Dist(w) < Dist(g)
      BY <3>1, <1>1, NAssumption
    <3> QED BY <3>2, <2>1
  <2> QED BY <1>1, <1>2, <2>2, <2>3
<1>3. CASE rff_state # "ST_HOLD"
  BY <1>1, <1>3 DEF grt
<1> QED BY <1>2, <1>3

\* Without a request nothing is granted.
LEMMA NoRequestNoGrant ==
  ASSUME IInv, vld = {}
  PROVE  grt = {}
  BY DEF IInv, HeldGrant, grt, next_grt

-----------------------------------------------------------------------------
\* A clock edge keeps the ranges of the registers.
LEMMA TypeStep == ASSUME IInv, Clk PROVE TypeOK'
<1>1. vld' \in SUBSET Inputs
  BY DEF IInv, TypeOK, Clk, Requests
<1>2. rff_state' \in {"ST_PASS_THROUGH", "ST_HOLD"}
  BY DEF Clk, next_state
<1>3. grt \subseteq vld
  BY GrantFacts, NoRequestNoGrant
<1>4. rff_last_grt_id' \in Inputs
  <2>1. CASE transfer
    <3>1. vld # {}
      BY <2>1, <1>3 DEF transfer
    <3>2. grt_id \in vld
      BY <3>1, GrantFacts
    <3> QED BY <2>1, <3>2 DEF Clk, IInv, TypeOK
  <2>2. CASE ~transfer
    BY <2>2 DEF Clk, IInv, TypeOK
  <2> QED BY <2>1, <2>2
<1>5. rff_grt' \in SUBSET Inputs
  BY <1>3 DEF Clk, IInv, TypeOK
<1>6. passed' \in [Inputs -> Nat]
  BY DEF Clk, Waited, IInv, TypeOK
<1>7. rdy' \in BOOLEAN
  BY DEF Clk
<1> QED BY <1>1, <1>2, <1>4, <1>5, <1>6, <1>7 DEF TypeOK

\* What a clock edge does to the distances: nothing without a transfer; with
\* one the winner moves to the end and what is behind it moves up.
LEMMA DistStep ==
  ASSUME IInv, TypeOK', Clk
  PROVE  /\ \A i \in Inputs : Dist(i)' \in 0 .. N - 1
         /\ ~transfer => \A i \in Inputs : Dist(i)' = Dist(i)
         /\ transfer => \A i \in Inputs : Dist(grt_id) < Dist(i) =>
                          Dist(i)' = Dist(i) - Dist(grt_id) - 1
<1>1. ASSUME NEW i \in Inputs PROVE Dist(i)' \in 0 .. N - 1
  <2>1. rff_last_grt_id' \in 0 .. N - 1 /\ i \in 0 .. N - 1
    BY DEF TypeOK, Inputs
  <2>2. PICK l \in 0 .. N - 1 : l = rff_last_grt_id'
    BY <2>1
  <2>3. Dist(i)' = IF i > l THEN i - l - 1 ELSE N - l - 1 + i
    BY <2>2 DEF Dist
  <2> QED BY <2>1, <2>3, NAssumption
<1>2. ASSUME ~transfer PROVE \A i \in Inputs : Dist(i)' = Dist(i)
  BY <1>2 DEF Clk, Dist
<1>3. ASSUME transfer, NEW i \in Inputs, Dist(grt_id) < Dist(i)
      PROVE  Dist(i)' = Dist(i) - Dist(grt_id) - 1
  <2>1. rff_last_grt_id' = grt_id
    BY <1>3 DEF Clk
  <2>2. grt_id \in 0 .. N - 1 /\ rff_last_grt_id \in 0 .. N - 1 /\ i \in 0 .. N - 1
    BY <2>1 DEF IInv, TypeOK, Inputs
  <2> QED BY <1>3, <2>1, <2>2, NAssumption DEF Dist
<1> QED BY <1>1, <1>2, <1>3

\* A clock edge keeps the budget: the one input that the rotation jumps over
\* while another grant is frozen had not been passed before.
LEMMA BudgetStep == ASSUME IInv, TypeOK', Clk PROVE Budget'
<1> SUFFICES ASSUME NEW i \in Inputs PROVE passed'[i] + Dist(i)' <= N
  BY DEF Budget
<1>1. /\ Dist(i) \in 0 .. N - 1
      /\ Dist(i)' \in 0 .. N - 1
      /\ passed[i] \in Nat
      /\ passed[i] + Dist(i) <= N
  BY DistFacts, DistStep DEF IInv, TypeOK, Budget
<1>2. CASE passed'[i] = 0
  BY <1>1, <1>2, NAssumption
<1>3. CASE passed'[i] # 0 /\ ~transfer
  <2>1. passed'[i] = passed[i]
    BY <1>3 DEF Clk, Waited
  <2> QED BY <1>1, <1>3, <2>1, DistStep
<1>4. CASE passed'[i] # 0 /\ transfer
  <2>1. i \in vld /\ i \notin grt /\ passed'[i] = passed[i] + 1
    BY <1>4 DEF Clk, Waited
  <2>2. PICK w, g \in vld : /\ grt_id = w
                            /\ grt = {g}
                            /\ \A j \in vld : Dist(w) <= Dist(j)
                            /\ w # g => passed[w] = 0
    BY <2>1, GrantFacts
  <2>3. CASE i = w
    BY <2>1, <2>2, <2>3, <1>1, NAssumption
  <2>4. CASE i # w
    <3>1. Dist(w) \in 0 .. N - 1 /\ Dist(w) # Dist(i)
      BY <2>4, DistFacts DEF IInv, TypeOK
    <3>2. Dist(w) < Dist(i)
      BY <3>1, <2>1, <2>2, <1>1, NAssumption
    <3>3. Dist(i)' = Dist(i) - Dist(w) - 1
      BY <3>2, <1>4, <2>2, DistStep
    <3> QED BY <1>1, <2>1, <3>1, <3>3, NAssumption
  <2> QED BY <2>3, <2>4
<1> QED BY <1>2, <1>3, <1>4

\* A clock edge keeps what is known of the frozen grant: it was the nearest
\* request when it was frozen, so whatever is nearer came later.
LEMMA HeldStep == ASSUME IInv, TypeOK', Clk PROVE HeldGrant'
<1> SUFFICES ASSUME rff_state' = "ST_HOLD"
             PROVE  \E g \in vld' : /\ rff_grt' = {g}
                                    /\ \A i \in vld' : Dist(i)' < Dist(g)' => passed'[i] = 0
  BY DEF HeldGrant
<1>1. ~rdy /\ ~transfer
  BY DEF Clk, next_state, transfer
<1>2. vld \subseteq vld' /\ vld' \subseteq Inputs
  BY <1>1 DEF Clk, Requests, TypeOK
<1>3. \A i \in vld' : i \notin vld => passed'[i] = 0
  BY <1>2 DEF Clk, Waited
<1>4. \A i \in vld : passed'[i] = passed[i]
  BY <1>1, <1>2 DEF Clk, Waited
<1>5. \E g \in vld : /\ rff_grt' = {g}
                      /\ \A i \in vld : Dist(i) < Dist(g) => passed[i] = 0
  <2>1. CASE rff_state = "ST_HOLD"
    BY <2>1 DEF IInv, HeldGrant, Clk, do_save_grt
  <2>2. CASE rff_state # "ST_HOLD"
    <3>1. grt # {} /\ rff_grt' = grt
      BY <2>2, <1>1 DEF Clk, do_save_grt, next_state
    <3>2. vld # {}
      BY <3>1, NoRequestNoGrant
    <3>3. PICK g \in vld : grt = {g} /\ \A j \in vld : Dist(g) <= Dist(j)
      BY <3>2, <2>2, GrantFacts
    <3>4. \A i \in vld : Dist(i) \in 0 .. N - 1
      BY DistFacts DEF IInv, TypeOK
    <3>5. \A i \in vld : ~(Dist(i) < Dist(g))
      BY <3>3, <3>4, NAssumption
    <3> QED BY <3>1, <3>3, <3>5
  <2> QED BY <2>1, <2>2
<1> QED BY <1>1, <1>2, <1>3, <1>4, <1>5, DistStep

LEMMA InitInv == ASSUME Init PROVE IInv
<1>1. TypeOK
  BY NAssumption DEF Init, TypeOK, Inputs
<1>2. HeldGrant
  BY DEF Init, HeldGrant
<1>3. Budget
  <2> SUFFICES ASSUME NEW i \in Inputs PROVE passed[i] + Dist(i) <= N
    BY DEF Budget
  <2>1. Dist(i) \in 0 .. N - 1 /\ passed[i] = 0
    BY <1>1, DistFacts DEF Init
  <2> QED BY <2>1, NAssumption
<1> QED BY <1>1, <1>2, <1>3 DEF IInv

\* The budget bounds the bypass.
LEMMA BudgetBounds == ASSUME IInv PROVE BoundedBypass
<1> SUFFICES ASSUME NEW i \in vld PROVE passed[i] <= N
  BY DEF BoundedBypass
<1>1. i \in Inputs /\ passed[i] \in Nat /\ Dist(i) \in 0 .. N - 1
  BY DistFacts DEF IInv, TypeOK
<1>2. passed[i] + Dist(i) <= N
  BY <1>1 DEF IInv, Budget
<1> QED BY <1>1, <1>2, NAssumption

\* An edge without rdy freezes the grant, or keeps it frozen.
LEMMA FrozenStays == ASSUME Clk, grt # {}, ~rdy PROVE grt' = grt
<1>1. rff_state' = "ST_HOLD"
  BY DEF Clk, next_state
<1>2. rff_grt' = grt
  BY DEF Clk, do_save_grt, grt
<1> QED BY <1>1, <1>2 DEF grt

\* The inductive invariant holds in every state.
LEMMA Inductive == Spec => []IInv
<1>1. Init => IInv
  BY InitInv
<1>2. IInv /\ [Next]_vars => IInv'
  <2> SUFFICES ASSUME IInv, [Next]_vars PROVE IInv'
    OBVIOUS
  <2>1. CASE Clk
    BY <2>1, TypeStep, HeldStep, BudgetStep DEF IInv
  <2>2. CASE UNCHANGED vars
    BY <2>2 DEF vars, IInv, TypeOK, HeldGrant, Budget, Dist
  <2> QED BY <2>1, <2>2 DEF Next
<1> QED BY <1>1, <1>2, PTL DEF Spec

-----------------------------------------------------------------------------
\* Type correctness of the arbiter's registers.
THEOREM TypeCorrect == Spec => []TypeOK
<1>1. IInv => TypeOK
  BY DEF IInv
<1> QED BY <1>1, Inductive, PTL

\* Exactly one requesting input is granted whenever anything is requested,
\* also while a grant is frozen.
THEOREM GrantIsSound == Spec => []GrantSound
<1>1. IInv => GrantSound
  <2> SUFFICES ASSUME IInv PROVE GrantSound
    OBVIOUS
  <2>1. CASE vld = {}
    BY <2>1, NoRequestNoGrant DEF GrantSound
  <2>2. CASE vld # {}
    BY <2>2, GrantFacts DEF GrantSound
  <2> QED BY <2>1, <2>2
<1> QED BY <1>1, Inductive, PTL

\* No requesting input sees more than N transfers of others, for every N and
\* every pattern of requests and of back pressure.
THEOREM BypassIsBounded == Spec => []BoundedBypass
<1>1. IInv => BoundedBypass
  BY BudgetBounds
<1> QED BY <1>1, Inductive, PTL

\* A grant that is not accepted stays where it is.
THEOREM GrantIsStable == Spec => GrantStable
<1>1. IInv /\ [Next]_vars => [grt # {} /\ ~rdy => grt' = grt]_vars
  BY FrozenStays DEF Next
<1> QED BY <1>1, Inductive, PTL DEF Spec, GrantStable
=============================================================================
