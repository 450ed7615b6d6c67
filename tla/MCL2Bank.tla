------------------------------ MODULE MCL2Bank ------------------------------
(* The request sets of the runs.  Every request is a model of one line: a tag, *)
(* an index and, for the reservation, the CPU port that sent it.               *)
EXTENDS L2Bank, TLC

CONSTANTS i0, i1, t0, t1, t2

Lines(types) == {[type |-> ty, idx |-> i, tag |-> t, way |-> 0, port |-> 0] :
                   ty \in types, i \in Idx, t \in Tag}

IdxFlushes == {[type |-> "FLUSH_IDX", idx |-> i, tag |-> t0, way |-> w, port |-> 0] :
                 i \in Idx, w \in Way}

\* Port 0 reserves and stores, port 1 only stores, on one line of each index.
LrScs == {[type |-> "LR", idx |-> i, tag |-> t0, way |-> 0, port |-> 0] : i \in Idx}
           \cup {[type |-> "SC", idx |-> i, tag |-> t0, way |-> 0, port |-> p] :
                   i \in Idx, p \in 0 .. 1}

RwReqs == Lines({"READ", "WRITE"})
RwfReqs == RwReqs \cup IdxFlushes

\* Two lines in i0, which evict each other; one line in i1, which is flushed.
CoReqs == {q \in RwReqs : q.idx = i0 \/ q.tag = t0}
            \cup {q \in IdxFlushes : q.idx = i1}

WayReqs == RwfReqs \cup Lines({"FLUSH_ADDR"}) \cup LrScs
LockReqs == Lines({"WRITE", "AMO_LR", "BARRIER_SYNC"}) \cup IdxFlushes
AmoReqs == Lines({"READ", "WRITE", "AMO_LR"})

\* For the runs whose requests do not single out an index (all but CoReqs).
Sym == Permutations(Idx)
=============================================================================
