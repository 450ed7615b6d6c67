------------------------------- MODULE ArbBuf -------------------------------
(***************************************************************************)
(* ours_vld_rdy_rr_arb_buf: a buffer at each input, the round-robin        *)
(* arbiter of RrArb between them and the output buffer, the ring of        *)
(* OursFifo, all on one gated clock.  The input buffers are queues, what   *)
(* RefinesQueue shows a ring to be.  A step is a clock edge.               *)
(***************************************************************************)
EXTENDS OursFifo, RrArb

CONSTANT InDepth     \* BUF_IN_DEPTH

\* An item carries its input and a number modulo 2: a loss, a repetition or a
\* swap of two items of one input changes the parity somewhere.
Items == [from : Inputs, n : {0, 1}]

ASSUME BufAssumption == InDepth \in Nat \ {0} /\ Items \subseteq Data

VARIABLES inq,     \* the input buffers' contents
          sent,    \* history: the number of the next item of an input
          got      \* history: the number of an input's item the output gives next

buf_vars == <<fifo_vars, vars, inq, sent, got>>

BufInit == /\ FifoInit /\ Init
           /\ vld = {} /\ rdy
           /\ inq = [i \in Inputs |-> <<>>]
           /\ sent = [i \in Inputs |-> 0]
           /\ got = [i \in Inputs |-> 0]

-----------------------------------------------------------------------------
\* slave_info_buf_o_grt, ored: the head of the input that is granted.
master_info_buf_i == Head(inq[CHOOSE i \in grt : TRUE])

\* Mutant: the output buffer does not ask for the clock.
ClkEnInputs(slave_valid) == slave_valid # {} \/ vld # {}

\* The clock runs while an input or a buffer has something.
clk_en(slave_valid) == slave_valid # {} \/ vld # {} \/ grt # {} \/ ~rff_empty

\* Mutant: a request is popped when it is granted, accepted or not.
SlaveReadyGrt == grt

\* slave_ready_buf_o
slave_ready_buf_o == IF rdy THEN grt ELSE {}

\* Input buffers: pop what the arbiter passes, push what fits.
Pushed(slave_valid) == {i \in slave_valid : Len(inq[i]) < InDepth}

BufIn(slave_valid) ==
  inq' = [i \in Inputs |->
            (IF i \in slave_ready_buf_o THEN Tail(inq[i]) ELSE inq[i]) \o
            (IF i \in Pushed(slave_valid) THEN <<[from |-> i, n |-> sent[i]]>> ELSE <<>>)]

\* One edge of the gated clock.  The arbiter's wires are the buffers' flags.
BufStep(slave_valid, master_ready) ==
  /\ clk_en(slave_valid)
  /\ BufIn(slave_valid)
  /\ BufClk(grt # {}, IF grt # {} THEN master_info_buf_i ELSE dff_fifo_ram[0], master_ready)
  /\ vld' = {i \in Inputs : inq'[i] # <<>>}
  /\ rdy' = ~rff_full'
  /\ Clk
  /\ sent' = [i \in Inputs |-> IF i \in Pushed(slave_valid) THEN 1 - sent[i] ELSE sent[i]]
  /\ got' = IF master_ready /\ ~rff_empty
            THEN [got EXCEPT ![dff_fifo_ram[rff_head].from] = 1 - @]
            ELSE got

BufNext == \E slave_valid \in SUBSET Inputs, master_ready \in BOOLEAN :
             BufStep(slave_valid, master_ready)

\* The clock ticks where the buffers themselves ask for it, and the channel behind
\* the output buffer accepts again and again; the inputs need not offer anything.
Accepted == clk_en({}) /\ \E slave_valid \in SUBSET Inputs : BufStep(slave_valid, TRUE)

BufSpec == BufInit /\ [][BufNext]_buf_vars /\ WF_buf_vars(Accepted)

-----------------------------------------------------------------------------
\* What is under way from input i, the oldest first.
InFlight(i) == SelectSeq(Content, LAMBDA e : e.from = i) \o inq[i]

\* The items of input i in s are numbered in turn, from a on; b is the next number.
Alternates(s, i, a, b) ==
  \E num \in [1 .. Len(s) + 1 -> {0, 1}] :
    /\ num[1] = a /\ num[Len(s) + 1] = b
    /\ \A k \in 1 .. Len(s) : IF s[k].from = i THEN s[k].n = num[k] /\ num[k + 1] = 1 - num[k]
                                            ELSE num[k + 1] = num[k]

\* From end to end no item of an input is lost, repeated or overtaken by a later
\* one of the same input, through two buffers and an arbiter that may hold a
\* grant while other requests come and go.
InOrder == \A i \in Inputs : Alternates(Content \o inq[i], i, got[i], sent[i])

\* While an item of an input is under way the output gets to it: the arbiter
\* passes no input over for ever and the clock gate does not stop with an item
\* inside.
Delivered ==
  \A i \in Inputs, b \in {0, 1} :
    (InFlight(i) # <<>> /\ got[i] = b) ~> got[i] = 1 - b
=============================================================================
