-------------------------------- MODULE RrArb --------------------------------
(***************************************************************************)
(* ours_vld_rdy_rr_arb: the round-robin arbiter of every many-to-one       *)
(* channel (orv64_cache_noc, cpu_noc, mem_noc, the DMA crossbar).  A grant *)
(* that is not accepted at once is frozen in rff_grt until rdy.            *)
(*                                                                         *)
(* The input wires vld and rdy are variables: a state is one clock cycle,  *)
(* a step is the clock edge that ends it and picks the wires of the next.  *)
(* The masters follow the valid/ready rule of ours_vld_rdy_buf: a request  *)
(* stays up until it is accepted.                                          *)
(***************************************************************************)
EXTENDS Integers, FiniteSets

CONSTANT N     \* N_INPUT; N_INPUT = 1 is a wire and has no state

ASSUME NAssumption == N \in Nat /\ N >= 2

Inputs == 0 .. N - 1

VARIABLES
  vld,               \* the inputs that request in this cycle
  rdy,               \* the output is accepted in this cycle
  rff_state,         \* ST_PASS_THROUGH or ST_HOLD
  rff_last_grt_id,   \* where the priority order starts
  rff_grt,           \* the frozen grant, as a set of inputs
  passed             \* history: transfers of others since input i asked

vars == <<vld, rdy, rff_state, rff_last_grt_id, rff_grt, passed>>

Init == /\ vld \in SUBSET Inputs
        /\ rdy \in BOOLEAN
        /\ rff_state = "ST_PASS_THROUGH"
        /\ rff_last_grt_id = N - 1
        /\ rff_grt = {}
        /\ passed = [i \in Inputs |-> 0]

-----------------------------------------------------------------------------
(***************************************************************************)
(* The combinational part.  vld_with_priority rotates the requests so that *)
(* the input after rff_last_grt_id comes first, grt_with_priority keeps the*)
(* first one, next_grt rotates it back: the request at the least distance. *)
(***************************************************************************)
Dist(i) == IF i > rff_last_grt_id THEN i - rff_last_grt_id - 1
                                  ELSE N - rff_last_grt_id - 1 + i

\* Mutant: the order never rotates (fixed priority).
NextGrtFixed == {i \in vld : \A j \in vld : i <= j}

next_grt == {i \in vld : \A j \in vld : Dist(i) <= Dist(j)}

\* Mutant: the frozen grant is ignored.
GrtUnheld == next_grt

grt == IF rff_state = "ST_HOLD" THEN rff_grt ELSE next_grt

\* The encoder that feeds rff_last_grt_id looks at next_grt, not at grt.
grt_id == IF next_grt # {} THEN CHOOSE i \in next_grt : TRUE
          ELSE rff_last_grt_id + 1

transfer == grt # {} /\ rdy

-----------------------------------------------------------------------------
\* The hold lasts from the cycle of a grant without rdy to the next rdy.
next_state == IF rff_state = "ST_HOLD"
              THEN IF rdy THEN "ST_PASS_THROUGH" ELSE "ST_HOLD"
              ELSE IF grt # {} /\ ~rdy THEN "ST_HOLD" ELSE "ST_PASS_THROUGH"

do_save_grt == rff_state # "ST_HOLD" /\ grt # {} /\ ~rdy

\* The requests of the next cycle: what was not accepted stays, and any input
\* may raise a new request.
Requests == vld' \in {w \in SUBSET Inputs : (IF transfer THEN vld \ grt ELSE vld) \subseteq w}

Waited == passed' = [i \in Inputs |->
                       IF i \notin vld \/ (transfer /\ i \in grt) THEN 0
                       ELSE IF transfer THEN passed[i] + 1 ELSE passed[i]]

Clk == /\ rff_grt' = IF do_save_grt THEN grt ELSE rff_grt
       /\ rff_last_grt_id' = IF transfer THEN grt_id ELSE rff_last_grt_id
       /\ rff_state' = next_state
       /\ Requests
       /\ rdy' \in BOOLEAN
       /\ Waited

Next == Clk

\* The clock does not stop.
Spec == Init /\ [][Next]_vars /\ WF_vars(Next)

-----------------------------------------------------------------------------
\* Every register keeps its range: rff_last_grt_id names an input although the
\* encoder's default is one past the last.
TypeOK == /\ vld \in SUBSET Inputs
          /\ rdy \in BOOLEAN
          /\ rff_state \in {"ST_PASS_THROUGH", "ST_HOLD"}
          /\ rff_last_grt_id \in Inputs
          /\ rff_grt \in SUBSET Inputs
          /\ passed \in [Inputs -> Nat]

\* Exactly one requesting input is granted whenever any input requests, also
\* while the grant is frozen and the requests around it change.
GrantSound == /\ grt \subseteq vld
              /\ \A i, j \in grt : i = j
              /\ vld # {} => grt # {}

\* A grant that is not accepted is not withdrawn and not moved to an input of
\* higher priority that arrives meanwhile: the downstream payload is stable.
GrantStable == [][grt # {} /\ ~rdy => grt' = grt]_vars

\* Bounded bypass.  rff_last_grt_id is taken from next_grt even when the frozen
\* grant is the one accepted, so the rotation can skip a request that arrived
\* during the hold; still no input sees more than N transfers of others.
BoundedBypass == \A i \in vld : passed[i] <= N
=============================================================================
