---------------------------- MODULE BoundedQueue ----------------------------
(***************************************************************************)
(* What a valid/ready buffer promises: a queue of at most Depth items.  An *)
(* item offered while slave_ready is up is appended, the item shown at the *)
(* output is taken when the consumer is ready, in the same cycle or not,   *)
(* and nothing else changes the queue but a clock edge with rstn low.      *)
(***************************************************************************)
EXTENDS Naturals, Sequences

CONSTANTS Data, Depth

VARIABLES q,
          slave_ready,   \* to the producer
          master_out,    \* to the consumer: <<item>> when valid, <<>> when not
          edge           \* the inputs of the last clock edge

bq_vars == <<q, slave_ready, master_out, edge>>

\* <<item>> when the producer is valid, <<>> when it is not.
Offers == {<<>>} \cup {<<d>> : d \in Data}

\* The outputs: there is room, and the oldest item.
Shown == /\ slave_ready = (Len(q) < Depth)
         /\ master_out = IF q = <<>> THEN <<>> ELSE <<Head(q)>>

Init == q = <<>> /\ Shown /\ ~edge.rstn

Cycle == /\ edge' \in [rstn : {TRUE}, offer : Offers, take : BOOLEAN]
         /\ q' = (IF edge'.take /\ q # <<>> THEN Tail(q) ELSE q) \o
                 (IF slave_ready THEN edge'.offer ELSE <<>>)

Clear == ~edge'.rstn /\ q' = <<>>

Next == (Cycle \/ Clear) /\ Shown'

Spec == Init /\ [][Next]_bq_vars
=============================================================================
