------------------------------ MODULE OursFifo ------------------------------
(***************************************************************************)
(* ours_vld_rdy_buf (DEPTH > 0) around ours_fifo: the ring buffer that     *)
(* decouples every valid/ready channel of the chip.  One step is one rising*)
(* edge of clk with the inputs slave_valid, slave_info and master_ready.   *)
(* ours_fifo's DEPTH == 1 variant is the ring of one slot: head and tail   *)
(* stay 0 and the two flags behave as below.                               *)
(***************************************************************************)
EXTENDS Integers, Sequences

CONSTANTS Data,     \* what slave_info ranges over
          Depth     \* DEPTH

ASSUME DepthAssumption == Depth \in Nat \ {0}

VARIABLES dff_fifo_ram, rff_head, rff_tail, rff_empty, rff_full,
          edge      \* history: the inputs of the last clock edge

fifo_vars == <<dff_fifo_ram, rff_head, rff_tail, rff_empty, rff_full, edge>>

Slots == 0 .. Depth - 1

\* rff_head + 1 and rff_tail + 1 in a register of $clog2(DEPTH) bits; the code
\* asserts that DEPTH is a power of two, so this is where the register wraps.
Inc(p) == IF p = Depth - 1 THEN 0 ELSE p + 1

\* dff_fifo_ram has no reset (RSTN_EN = 0): it starts with any content.
FifoInit == /\ dff_fifo_ram \in [Slots -> Data]
            /\ rff_head = 0
            /\ rff_tail = 0
            /\ rff_empty = TRUE
            /\ rff_full = FALSE
            /\ edge = [rstn |-> FALSE, offer |-> <<>>, take |-> FALSE]

-----------------------------------------------------------------------------
\* Mutant: the full flag is never set, so a full ring wraps and looks empty.
FlagsNeverFull(we, re) ==
  /\ rff_empty' = IF we /\ ~re THEN FALSE
                  ELSE IF re /\ ~we THEN Inc(rff_head) = rff_tail ELSE rff_empty
  /\ rff_full' = FALSE

\* unique case ({we, re}): the flags move only when exactly one side does.
Flags(we, re) ==
  /\ rff_empty' = IF we /\ ~re THEN FALSE
                  ELSE IF re /\ ~we THEN Inc(rff_head) = rff_tail ELSE rff_empty
  /\ rff_full' = IF we /\ ~re THEN Inc(rff_tail) = rff_head
                 ELSE IF re /\ ~we THEN FALSE ELSE rff_full

\* One clock edge of the FIFO with its write and read enables.
FifoEdge(we, re, din) ==
  /\ dff_fifo_ram' = IF we THEN [dff_fifo_ram EXCEPT ![rff_tail] = din]
                           ELSE dff_fifo_ram
  /\ rff_tail' = IF we THEN Inc(rff_tail) ELSE rff_tail
  /\ rff_head' = IF re THEN Inc(rff_head) ELSE rff_head
  /\ Flags(we, re)

\* The buffer accepts when it is not full and offers when it is not empty.
BufClk(slave_valid, slave_info, master_ready) ==
  /\ FifoEdge(slave_valid /\ ~rff_full, master_ready /\ ~rff_empty, slave_info)
  /\ edge' = [rstn |-> TRUE, take |-> master_ready,
              offer |-> IF slave_valid THEN <<slave_info>> ELSE <<>>]

\* rstn low at a clock edge: pointers and flags only.
FifoReset == /\ rff_head' = 0
             /\ rff_tail' = 0
             /\ rff_empty' = TRUE
             /\ rff_full' = FALSE
             /\ UNCHANGED dff_fifo_ram
             /\ edge' = [rstn |-> FALSE, offer |-> <<>>, take |-> FALSE]

FifoNext == \/ \E v, r \in BOOLEAN, d \in Data : BufClk(v, d, r)
            \/ FifoReset

FifoSpec == FifoInit /\ [][FifoNext]_fifo_vars

-----------------------------------------------------------------------------
Count == IF rff_full THEN Depth
         ELSE IF rff_tail >= rff_head THEN rff_tail - rff_head
         ELSE rff_tail - rff_head + Depth

Slot(i) == IF rff_head + i < Depth THEN rff_head + i ELSE rff_head + i - Depth

\* The queue the ring stands for, oldest item first.
Content == [i \in 1 .. Count |-> dff_fifo_ram[Slot(i - 1)]]

\* Every register keeps its range.
FifoTypeOK == /\ dff_fifo_ram \in [Slots -> Data]
              /\ rff_head \in Slots
              /\ rff_tail \in Slots
              /\ rff_empty \in BOOLEAN
              /\ rff_full \in BOOLEAN

\* The two registered flags, which are updated from the old pointers and never
\* recomputed, always say what the pointers mean: pointers meet exactly when
\* the ring is empty or full, and it is never both.
FlagsAgree == /\ rff_head = rff_tail <=> rff_empty \/ rff_full
              /\ ~(rff_empty /\ rff_full)

\* slave_ready and master_valid with master_info, as the flags give them.
BQ == INSTANCE BoundedQueue WITH
        q <- Content,
        slave_ready <- ~rff_full,
        master_out <- IF rff_empty THEN <<>> ELSE <<dff_fifo_ram[rff_head]>>

\* The ring with its registered flags implements a bounded queue, for every
\* pattern of valid and ready: an item that is offered while slave_ready is up is
\* appended, the oldest item is the one shown and taken, slave_ready is up exactly
\* while there is room, and only a clock edge with rstn low drops anything.
RefinesQueue == BQ!Spec
=============================================================================
