-------------------------------- MODULE L2Bank --------------------------------
(***************************************************************************)
(* One bank of the L2 cache: the three-stage lookup pipeline of cache_bank *)
(* and the miss handling of cache_mshr, with the memory NoC behind it.     *)
(* A step is one rising clock edge; the wires the bank does not drive are  *)
(* the fields of the parameter "in":                                       *)
(*   req    a request of the CPU NoC, or NoReq                             *)
(*   amo    the core presents the store half of its atomic operation       *)
(*   rdy    cpu_resp_ready (s4_ready)                                      *)
(*   ardy   l2_req_if_arready                                              *)
(*   w      the write-back pipe reads the data RAM for the oldest victim   *)
(*   b, r   the MSHR of a write response / of a read burst, or NoId        *)
(*   lru    the way the LRU bits point to                                  *)
(*   stuck  an empty stage 3 stalls on the leftover of its last request    *)
(*                                                                         *)
(* Data.  A copy of a line (RAM way, memory, burst on its way to memory) is*)
(* "fresh" or not: it holds the bytes of every write performed so far, or  *)
(* it misses one.  A write of some bytes is performed on top of a copy, so *)
(* the result is as fresh as that copy, and every other copy is stale.     *)
(* Not modelled: the debug port, the power states, performance counters,   *)
(* and no_write_alloc, which cache_bank ties to 0.                         *)
(***************************************************************************)
EXTENDS Integers, Sequences, FiniteSets

CONSTANTS
  Idx, Tag,     \* bank_index_t and tag_t
  NWay,         \* N_WAY
  NMshr,        \* N_MSHR
  Last,         \* the last burst of a line: coll_cntr_ff == '1
  Reqs          \* the requests of the CPU NoC

Way == 0 .. NWay - 1
Ids == 0 .. NMshr - 1
NoId == NMshr

ReadTypes == {"READ", "LR", "AMO_LR"}
FlushTypes == {"FLUSH_ADDR", "FLUSH_IDX"}
Types == ReadTypes \cup FlushTypes
           \cup {"WRITE", "SC", "AMO_SC", "BARRIER_SYNC"}

\* paddr is split into tag and bank_index; FLUSH_IDX names a way in the tag bits.
Request == [type : Types, idx : Idx, tag : Tag, way : Way, port : Nat]
NoReq == [type |-> "NONE"]

rw(m) == m.type \notin ReadTypes
flush(m) == m.type \in FlushTypes

ASSUME L2Assumption ==
  /\ NWay \in Nat \ {0}
  /\ NMshr \in Nat \ {0}
  /\ Last \in Nat /\ Last >= 2
  /\ Reqs \subseteq Request

VARIABLES
  ram,        \* valid, dirty, tag and data RAM: index -> way -> [v, d, tag, fresh]
  mem,        \* memory behind the NoC: <<index, tag>> -> fresh
  valid_dout, \* cc_valid_ram_dout: what the last read of the valid RAM returned
  s1, s2, s3, \* the pipeline registers cur.s1, cur.s2, cur.s3 with their valid_ff
  mshr,       \* mshr_bank
  req_ff,     \* the MSHR allocated in the last cycle, and its victim's dirty bit
  ar_fifo, w_fifo,     \* MSHRs waiting for the AR and for the AW/W channels
  written,    \* write-backs on their way: MSHR -> "NONE", "FRESH" or "STALE"
  reading,    \* MSHRs whose AR was taken
  coll,       \* coll_cntr_ff and the MSHR whose bursts are counted
  mc_resp,    \* mshr_mc_resp_ff
  lock,       \* cur_lock_fsm: the request that holds the lock, or NoReq
  noout,      \* rffce_no_outstanding_req
  resv,       \* cur_resv_entry
  amo,        \* the core got the answer of AMO_LR, its store is due
  owed,       \* history: lines with a write accepted and not yet performed
  stale       \* history: some read took data that was not the latest

pipe_vars == <<valid_dout, s1, s2, s3, lock, noout, resv>>
mshr_vars == <<mshr, req_ff, ar_fifo, w_fifo, written, reading, coll, mc_resp>>
data_vars == <<ram, mem, amo, owed, stale>>
vars == <<pipe_vars, mshr_vars, data_vars>>

\* An empty pipeline register or MSHR.
Empty == [valid |-> FALSE, type |-> "NONE"]
valid_mshrs == {m \in Ids : mshr[m].valid}

Init == /\ ram = [i \in Idx |-> [w \in Way |->
                    [v |-> FALSE, d |-> FALSE, tag |-> "NONE", fresh |-> FALSE]]]
        /\ mem = [a \in Idx \X Tag |-> TRUE]
        /\ valid_dout = {}
        /\ s1 = Empty /\ s2 = Empty /\ s3 = Empty
        /\ mshr = [m \in Ids |-> Empty]
        /\ req_ff = Empty
        /\ ar_fifo = <<>> /\ w_fifo = <<>>
        /\ written = [m \in Ids |-> "NONE"]
        /\ reading = {}
        /\ coll = [n |-> 0, id |-> NoId]
        /\ mc_resp = Empty
        /\ lock = NoReq
        /\ noout = FALSE
        /\ resv = NoReq
        /\ amo = FALSE
        /\ owed = {}
        /\ stale = FALSE

-----------------------------------------------------------------------------
(* cache_mshr: bursts from memory and the RAM ports it takes. *)

rvalid(in) == in.r # NoId
head == mshr[Head(ar_fifo)]

\* A flush that reached the head of the AR FIFO (its write-back is done).
flush_req == ar_fifo # <<>> /\ flush(head)

\* Mutant: a burst is taken whatever the flush at the head does.
RreadyNoFlush(in) == rw(mshr[in.r]) \/ in.rdy

\* The final burst of a read waits for the CPU side; no refill ends while a
\* flush retires, and none starts in the way the flush works on.
rready(in) ==
  /\ rw(mshr[in.r]) \/ in.rdy
  /\ \/ ar_fifo = <<>>
     \/ ~flush(head)
     \/ head.way # mshr[in.r].way /\ coll.n # Last

rdata_coll_valid(in) == rvalid(in) /\ coll.n = Last
last_burst_accepted(in) == rdata_coll_valid(in) /\ rready(in)
mshr_resp_valid(in) == last_burst_accepted(in) /\ ~rw(mshr[in.r])

valid_ram_we(in) == last_burst_accepted(in)
dirty_ram_we(in) == flush_req \/ last_burst_accepted(in)
tag_ram_we(in, way) == last_burst_accepted(in) /\ mshr[in.r].way = way
data_ram_en(in, way) ==
  \/ rdata_coll_valid(in) /\ mshr[in.r].way = way
  \/ in.w /\ mshr[Head(w_fifo)].way = way

\* Mutant: hits are held back one cycle too late.
BackpressureLate(in) == coll.n = Last /\ ~mshr_resp_valid(in)

cache_read_hit_backpressure(in) ==
  \/ coll.n = Last - 1
  \/ coll.n = Last /\ ~mshr_resp_valid(in)

-----------------------------------------------------------------------------
(* cache_bank, stage 3: hit or miss of the request in s2. *)

\* What mshr_mc_resp_ff says about a request: a burst of its line came.
mc_resp_index(s) == mc_resp.valid /\ mc_resp.idx = s.idx
mc_resp_hit(s) == mc_resp_index(s) /\ mc_resp.tag = s.tag

\* Mutant: the comparison stops before the last way.
WayTagHitShort == {w \in s2.way_valid \ {NWay - 1} :
                     IF s2.type = "FLUSH_IDX" THEN w = s2.way ELSE s2.tags[w] = s2.tag}

way_tag_hit == {w \in s2.way_valid : IF s2.type = "FLUSH_IDX" THEN w = s2.way
                                                             ELSE s2.tags[w] = s2.tag}

forwarded == s2.type # "FLUSH_IDX" /\ (s2.mc_hit \/ mc_resp_hit(s2))

hit == way_tag_hit # {} \/ forwarded

\* find_empty_way, then the way the LRU bits point to.
get_replace_way_id ==
  IF Way \subseteq s2.way_valid THEN s2.lru
  ELSE CHOOSE w \in Way \ s2.way_valid : \A x \in Way \ s2.way_valid : w <= x

replace_way_id == IF s2.type = "FLUSH_IDX" THEN s2.way ELSE get_replace_way_id

way_id == IF ~hit THEN replace_way_id
          ELSE IF s2.type # "FLUSH_IDX" /\ s2.mc_hit THEN s2.mc_way
          ELSE IF forwarded THEN mc_resp.way
          ELSE CHOOSE w \in way_tag_hit : \A x \in way_tag_hit : x <= w

is_dirty_forward == mc_resp_index(s2) /\ mc_resp.way = way_id

mshr_hit == \E m \in valid_mshrs : /\ mshr[m].idx = s2.idx
                                   /\ hit => mshr[m].way = way_id

has_free_mshr == valid_mshrs # Ids
new_mshr_id == CHOOSE m \in Ids \ valid_mshrs : \A n \in Ids \ valid_mshrs : m <= n

\* The request writes the data RAM if it hits.
writes == s2.type \in {"WRITE", "AMO_SC"} \/ (s2.type = "SC" /\ s2.sc = "OK")

pre_s3_stall(in) ==
  \/ mshr_hit
  \/ cache_read_hit_backpressure(in) /\ s2.type \notin {"WRITE", "AMO_SC"}
  \/ ~in.rdy /\ s2.type = "SC"

\* The test for a free MSHR under a hit names FLUSH_ADDR only.
s3_stall(in) ==
  IF ~s2.valid THEN in.stuck
  ELSE \/ pre_s3_stall(in)
       \/ /\ hit
          /\ \/ s2.type = "FLUSH_ADDR" /\ (has_free_mshr => ~in.rdy)
             \/ s2.type \notin ReadTypes /\ dirty_ram_we(in)
             \/ s2.type \notin FlushTypes /\ data_ram_en(in, way_id)
       \/ ~hit /\ (dirty_ram_we(in) \/ (s2.type \notin FlushTypes /\ ~has_free_mshr))

s3_done(in) == s2.valid /\ ~s3_stall(in) /\ hit /\ writes

mshr_we(in) ==
  /\ s2.valid /\ ~s3_stall(in) /\ has_free_mshr
  /\ IF hit THEN s2.type \in FlushTypes /\ in.rdy
     ELSE /\ s2.type \notin FlushTypes \cup {"BARRIER_SYNC"}
          /\ s2.type = "SC" => s2.sc = "OK"

s3_ready(in) == ~s3_stall(in) /\ (in.rdy \/ ~s2.valid \/ s3_done(in) \/ mshr_we(in))

s3_valid(in) == s2.valid /\ ~s3_stall(in) /\ (~s3_done(in) \/ s2.type = "SC")

-----------------------------------------------------------------------------
(* Stages 1 and 2: same-index exclusion and the lock. *)

same_index_mshr(idx) == \E m \in valid_mshrs : mshr[m].idx = idx

\* Mutant: the request that is in s1 already is not compared.
S1StallBlind(req) ==
  \/ req.type # "BARRIER_SYNC" /\ mc_resp_hit(req)
  \/ same_index_mshr(req.idx)
  \/ s2.valid /\ s2.idx = req.idx

s1_stall(req) ==
  \/ req.type # "BARRIER_SYNC" /\ mc_resp_hit(req)
  \/ same_index_mshr(req.idx)
  \/ s1.valid /\ s1.idx = req.idx
  \/ s2.valid /\ s2.idx = req.idx

\* The response in stage 4 (read hit, flush, SC or barrier).
s4_resp == /\ s3.valid
           /\ \/ s3.type \in {"SC", "BARRIER_SYNC"} \cup FlushTypes
              \/ s3.hit

l2_amo_store(in) == in.amo /\ lock # NoReq

\* Mutant: a barrier never unlocks.
UnlockStoreOnly(in) == l2_amo_store(in)

unlock(in) ==
  \/ l2_amo_store(in)
  \/ /\ lock.type = "BARRIER_SYNC"
     /\ s4_resp /\ in.rdy /\ ~mshr_resp_valid(in) /\ s3.type = "BARRIER_SYNC"

\* The valid bits that the request in s1 read, with the forwarded way.
s2_way_valid ==
  (IF s1.type = "BARRIER_SYNC" THEN {} ELSE valid_dout)
    \cup (IF mc_resp_index(s1) THEN {mc_resp.way} ELSE {})

s2_stall(in) ==
  \/ /\ s1.valid
     /\ \/ s2.valid /\ s2.idx = s1.idx
        \/ same_index_mshr(s1.idx)
        \/ \E w \in s2_way_valid : tag_ram_we(in, w)
  \/ lock # NoReq /\ ~noout /\ ~unlock(in)

s2_ready(in) == (s3_ready(in) \/ ~s1.valid) /\ ~s2_stall(in)

\* Mutant: the lock does not hold back the NoC.
AcceptsLocked(in) == /\ in.req # NoReq
                     /\ ~valid_ram_we(in)
                     /\ ~s1_stall(in.req)
                     /\ s2_ready(in)

\* A request of the NoC enters the pipeline (s1_valid & s1_ready).
accepts(in) == /\ in.req # NoReq
               /\ lock = NoReq
               /\ ~valid_ram_we(in)
               /\ ~s1_stall(in.req)
               /\ s2_ready(in)

\* cpu_req: what enters s1 in this cycle.  The store half of an atomic does not
\* look at the stalls of stage 1.
entering(in) ==
  IF l2_amo_store(in) /\ s2_ready(in)
  THEN [type |-> "AMO_SC", idx |-> lock.idx, tag |-> lock.tag, way |-> lock.way,
        port |-> lock.port]
  ELSE IF accepts(in) THEN in.req ELSE NoReq

sc_succeed(in) == /\ entering(in).type = "SC"
                  /\ resv # NoReq
                  /\ resv.port = in.req.port /\ resv.idx = in.req.idx /\ resv.tag = in.req.tag

sc(in) == IF entering(in).type # "SC" THEN "NONE"
          ELSE IF sc_succeed(in) THEN "OK" ELSE "FAIL"

-----------------------------------------------------------------------------
(* The clock edge, register by register. *)

\* cc_valid_ram_re: also for a request that is presented and not accepted.  The
\* read is lost when the MSHR side writes the RAM in the same cycle.
valid_ram_read(in) ==
  LET q == IF l2_amo_store(in) THEN lock ELSE in.req
  IN  IF q = NoReq \/ ~s2_ready(in) \/ valid_ram_we(in) THEN valid_dout
      ELSE {w \in Way : ram[q.idx][w].v}

\* s1, s2, s3, the lock and the reservation.
Pipeline(in) ==
  /\ s1' = LET q == entering(in)
           IN  IF ~s2_ready(in) THEN s1
               ELSE IF q = NoReq THEN Empty
               ELSE [valid |-> TRUE, type |-> q.type, idx |-> q.idx, tag |-> q.tag,
                     way |-> q.way, sc |-> sc(in)]
  /\ valid_dout' = valid_ram_read(in)
  /\ s2' = IF ~s3_ready(in) THEN s2
           ELSE IF ~s1.valid \/ s2_stall(in) THEN Empty
           ELSE [valid |-> TRUE, type |-> s1.type, idx |-> s1.idx, tag |-> s1.tag,
                 way |-> s1.way, sc |-> s1.sc, way_valid |-> s2_way_valid,
                 tags |-> [w \in Way |-> ram[s1.idx][w].tag], lru |-> in.lru,
                 mc_hit |-> mc_resp_hit(s1),
                 mc_way |-> IF mc_resp.valid THEN mc_resp.way ELSE 0]
  /\ s3' = IF ~in.rdy THEN s3
           ELSE IF s3_valid(in) THEN [valid |-> TRUE, type |-> s2.type, hit |-> hit]
           ELSE Empty
  /\ lock' = IF lock = NoReq
             THEN IF accepts(in) /\ in.req.type \in {"AMO_LR", "BARRIER_SYNC"}
                  THEN in.req ELSE NoReq
             ELSE IF unlock(in) THEN NoReq ELSE lock
  /\ noout' = (~s2.valid /\ ~s3.valid /\ valid_mshrs = {})
  /\ resv' = IF entering(in).type = "LR" THEN in.req
             ELSE IF sc_succeed(in) THEN NoReq ELSE resv

\* Mutant: the victim is written back to the address of the miss.
NewMshrWrongVictim ==
  [valid |-> TRUE, type |-> s2.type, idx |-> s2.idx, way |-> replace_way_id,
   tag |-> s2.tag, old_tag |-> s2.tag]

\* The write-back address is the tag of the way to replace.
new_mshr ==
  [valid |-> TRUE, type |-> s2.type, idx |-> s2.idx, way |-> replace_way_id,
   tag |-> s2.tag,
   old_tag |-> IF is_dirty_forward THEN mc_resp.tag ELSE s2.tags[replace_way_id]]

\* mshr_dirty_in: the dirty bit of way_id, if the way to replace is valid.
victim_dirty == \/ ram[s2.idx][way_id].d /\ replace_way_id \in s2.way_valid
                \/ is_dirty_forward

\* Mutant: the refill of a write does not free its MSHR.
RetiredReads(in) ==
  (IF req_ff.valid /\ ~req_ff.dirty /\ flush(mshr[req_ff.id]) THEN {req_ff.id} ELSE {})
    \cup (IF flush_req THEN {Head(ar_fifo)}
          ELSE IF mshr_resp_valid(in) THEN {in.r} ELSE {})

\* De-allocation: a clean flush, a flush after its write-back, a refill.
retired(in) ==
  (IF req_ff.valid /\ ~req_ff.dirty /\ flush(mshr[req_ff.id]) THEN {req_ff.id} ELSE {})
    \cup (IF flush_req THEN {Head(ar_fifo)}
          ELSE IF last_burst_accepted(in) THEN {in.r} ELSE {})

arvalid == ar_fifo # <<>> /\ ~flush(head)

Opt(c, id) == IF c THEN <<id>> ELSE <<>>

Miss(in) ==
  /\ mshr' = [m \in Ids |-> IF mshr_we(in) /\ m = new_mshr_id THEN new_mshr
                            ELSE IF m \in retired(in) THEN Empty ELSE mshr[m]]
  /\ req_ff' = IF mshr_we(in)
               THEN [valid |-> TRUE, id |-> new_mshr_id, dirty |-> victim_dirty]
               ELSE Empty
  /\ ar_fifo' = (IF (arvalid /\ in.ardy) \/ flush_req THEN Tail(ar_fifo) ELSE ar_fifo)
                \o Opt(req_ff.valid /\ ~req_ff.dirty /\ ~flush(mshr[req_ff.id]), req_ff.id)
                \o Opt(in.b # NoId, in.b)
  /\ w_fifo' = (IF in.w THEN Tail(w_fifo) ELSE w_fifo)
               \o Opt(req_ff.valid /\ req_ff.dirty, req_ff.id)
  /\ reading' = (reading \cup (IF arvalid /\ in.ardy THEN {Head(ar_fifo)} ELSE {}))
                \ (IF last_burst_accepted(in) THEN {in.r} ELSE {})
  /\ coll' = IF ~rvalid(in) \/ ~rready(in) THEN coll
             ELSE IF coll.n = Last THEN [n |-> 0, id |-> NoId]
             ELSE [n |-> coll.n + 1, id |-> in.r]
  /\ mc_resp' = IF ~rvalid(in) THEN Empty
                ELSE [valid |-> TRUE, idx |-> mshr[in.r].idx, way |-> mshr[in.r].way,
                      tag |-> mshr[in.r].tag]

-----------------------------------------------------------------------------
(* The data: RAM, memory, and the history. *)

line(x) == <<x.idx, x.tag>>

\* The lines written in this cycle: a write hit, and a write miss whose refill ends.
performed(in) ==
  (IF s3_done(in) THEN {line(s2)} ELSE {})
    \cup (IF last_burst_accepted(in) /\ rw(mshr[in.r]) THEN {line(mshr[in.r])} ELSE {})

hit_writes(in, i, w) == s3_done(in) /\ s2.idx = i /\ way_id = w
refills(in, i, w) == last_burst_accepted(in) /\ mshr[in.r].idx = i /\ mshr[in.r].way = w
flushes(i, w) == flush_req /\ head.idx = i /\ head.way = w

\* Mutant: the refill of a write leaves the line clean.
RefillClean(in, i, w) ==
  LET old == ram[i][w]
  IN  IF refills(in, i, w)
      THEN [v |-> TRUE, d |-> FALSE, tag |-> mshr[in.r].tag,
            fresh |-> mem[line(mshr[in.r])]]
      ELSE [old EXCEPT
              !.d = IF flushes(i, w) THEN FALSE ELSE old.d \/ hit_writes(in, i, w),
              !.fresh = old.fresh /\ IF hit_writes(in, i, w) THEN old.tag = s2.tag
                                     ELSE <<i, old.tag>> \notin performed(in)]

ram_next(in, i, w) ==
  LET old == ram[i][w]
  IN  IF refills(in, i, w)
      THEN [v |-> TRUE, d |-> rw(mshr[in.r]), tag |-> mshr[in.r].tag,
            fresh |-> mem[line(mshr[in.r])]]
      ELSE [old EXCEPT
              !.d = IF flushes(i, w) THEN FALSE ELSE old.d \/ hit_writes(in, i, w),
              !.fresh = old.fresh /\ IF hit_writes(in, i, w) THEN old.tag = s2.tag
                                     ELSE <<i, old.tag>> \notin performed(in)]

\* The victim's copy, when the write-back pipe reads it.
victim(m) == LET r == ram[mshr[m].idx][mshr[m].way]
             IN  IF r.fresh /\ r.tag = mshr[m].old_tag THEN "FRESH" ELSE "STALE"

victim_line(m) == <<mshr[m].idx, mshr[m].old_tag>>

is_write(in) == entering(in).type \in {"WRITE", "AMO_SC"} \/ sc_succeed(in)

\* A read takes its data: from the RAM on a hit, from memory after a miss.
reads_stale(in) ==
  \/ /\ s3_valid(in) /\ in.rdy /\ hit /\ s2.type \in ReadTypes
     /\ \/ ~ram[s2.idx][way_id].fresh
        \/ ram[s2.idx][way_id].tag # s2.tag
        \/ line(s2) \in owed
  \/ /\ mshr_resp_valid(in)
     /\ ~mem[line(mshr[in.r])] \/ line(mshr[in.r]) \in owed

Data(in) ==
  /\ ram' = [i \in Idx |-> [w \in Way |-> ram_next(in, i, w)]]
  /\ written' = [m \in Ids |->
                   IF m = in.b THEN "NONE"
                   ELSE IF in.w /\ m = Head(w_fifo) THEN victim(m)
                   ELSE IF written[m] # "NONE" /\ victim_line(m) \in performed(in)
                   THEN "STALE" ELSE written[m]]
  /\ mem' = LET now == performed(in)
            IN  [a \in Idx \X Tag |->
                   IF a \in now THEN FALSE
                   ELSE IF in.b # NoId /\ a = victim_line(in.b) THEN written[in.b] = "FRESH"
                   ELSE mem[a]]
  /\ owed' = (owed \ performed(in))
               \cup (IF is_write(in) THEN {line(entering(in))} ELSE {})
  /\ stale' = (stale \/ reads_stale(in))

\* The core: the answer of AMO_LR makes its store due.
Core(in) ==
  amo' = IF l2_amo_store(in) THEN FALSE
         ELSE \/ amo
              \/ mshr_resp_valid(in) /\ mshr[in.r].type = "AMO_LR"
              \/ ~mshr_resp_valid(in) /\ s4_resp /\ in.rdy /\ s3.type = "AMO_LR"

Clk(in) == Pipeline(in) /\ Miss(in) /\ Data(in) /\ Core(in)

-----------------------------------------------------------------------------
(* The surroundings: what the wires can be in a state. *)

Choice(c) == IF c THEN BOOLEAN ELSE {FALSE}

\* A read burst belongs to the line that is being collected: the memory NoC does
\* not interleave the bursts of two lines.
Bursts == {m \in Ids : IF coll.id = NoId THEN m \in reading ELSE m = coll.id} \cup {NoId}

Wires ==
  [req : Reqs \cup {NoReq}, amo : Choice(amo), rdy : BOOLEAN, ardy : Choice(arvalid),
   w : Choice(w_fifo # <<>>), r : Bursts,
   b : {m \in Ids : written[m] # "NONE"} \cup {NoId},
   stuck : Choice(~s2.valid /\ s1.valid), lru : IF s1.valid THEN Way ELSE {0}]

\* An empty stage 3 stalls only for what its leftover request would wait for.
may_be_stuck(in) == \/ cache_read_hit_backpressure(in) \/ ~in.rdy \/ dirty_ram_we(in)
                    \/ \E w \in Way : data_ram_en(in, w)

\* The write-back pipe waits for a refill of the way it wants to read.
Inputs == {in \in Wires :
             /\ in.stuck => may_be_stuck(in)
             /\ in.w => ~(rdata_coll_valid(in) /\ mshr[in.r].way = mshr[Head(w_fifo)].way)}

Next == \E in \in Inputs : Clk(in)

Spec == Init /\ [][Next]_vars

\* The NoC takes responses and memory takes requests again and again; memory
\* answers every write and sends the bursts of every read it took, and holds a
\* burst until the bank takes it (strong fairness of the transfer, which a flush
\* at the head of the AR FIFO can put off); the core ends its atomics.
Cycle(ok(_)) == \E in \in {x \in Inputs : ok(x)} : Clk(in)

Served(in) == in.rdy /\ ~in.stuck /\ in.ardy = arvalid /\ in.amo = amo

Fairness == /\ WF_vars(Cycle(Served))
            /\ WF_vars(Cycle(LAMBDA in : in.w))
            /\ \A m \in Ids : WF_vars(Cycle(LAMBDA in : in.b = m))
            /\ \A m \in Ids : SF_vars(Cycle(LAMBDA in : in.r = m /\ rready(in) /\ Served(in)))

FairSpec == Spec /\ Fairness

-----------------------------------------------------------------------------
\* Everything a read returns is the latest data of its line, whatever misses,
\* write-backs, flushes and refills are under way, and no accepted write is lost.
ReadsCoherent == ~stale

\* One transaction per index: the requests in s1 and s2 and the allocated MSHRs
\* never share a bank_index.  Every hazard check of the pipeline rests on it.
IndexExclusive ==
  /\ s1.valid => ~same_index_mshr(s1.idx) /\ ~(s2.valid /\ s2.idx = s1.idx)
  /\ s2.valid => ~same_index_mshr(s2.idx)
  /\ \A m, n \in valid_mshrs : mshr[m].idx = mshr[n].idx => m = n

\* The answer of a refill never falls on a cycle in which a hit answers: stage 4
\* has one port and the hit would be dropped.
ResponsesDoNotCollide ==
  s4_resp => \A in \in Inputs : ~mshr_resp_valid(in)

\* Every burst belongs to a live MSHR (chk_read_rid), a refill never ends in the
\* cycle in which a flush retires, and each FIFO names each MSHR at most once.
MissBookkeeping ==
  /\ reading \subseteq valid_mshrs
  /\ flush_req => \A in \in Inputs : ~last_burst_accepted(in)
  /\ \A m \in Ids :
       LET places == {p \in {<<"ar", k>> : k \in DOMAIN ar_fifo}
                            \cup {<<"w", k>> : k \in DOMAIN w_fifo} :
                        m = IF p[1] = "ar" THEN ar_fifo[p[2]] ELSE w_fifo[p[2]]}
       IN  Cardinality(places) + (IF written[m] # "NONE" THEN 1 ELSE 0)
             + (IF m \in reading THEN 1 ELSE 0)
             + (IF req_ff.valid /\ req_ff.id = m THEN 1 ELSE 0)
           = IF mshr[m].valid THEN 1 ELSE 0

\* "tag hit must have one hit at most": no two ways of an index hold a line.
OneWayPerLine ==
  \A i \in Idx : \A v, w \in Way :
    ram[i][v].v /\ ram[i][w].v /\ ram[i][v].tag = ram[i][w].tag => v = w

\* Memory is current for every line that no way holds dirty: a clean line may be
\* dropped, and a victim counts as dirty until its write-back is answered.
CleanMeansInMemory ==
  \A i \in Idx, t \in Tag :
    \/ mem[<<i, t>>]
    \/ \E w \in Way : ram[i][w].v /\ ram[i][w].tag = t /\ ram[i][w].d

\* While the core computes, no other request is in the pipeline and none on the
\* line of the atomic is under way.
AmoIsolated ==
  amo => /\ lock.type = "AMO_LR"
         /\ ~s1.valid /\ ~s2.valid
         /\ ~same_index_mshr(lock.idx)
         /\ line(lock) \notin owed

\* The lock is released: the atomic or barrier waits for older requests, which
\* need the pipeline and the MSHRs it shares with them.
LockReleased == (lock # NoReq) ~> (lock = NoReq)

\* Every MSHR retires.
MshrRetires == \A m \in Ids : mshr[m].valid ~> ~mshr[m].valid

\* "treat lr/sc/amo as program order": reads return what atomics stored.
AmoInProgramOrder == ReadsCoherent

\* "treat flush address as a write miss, if hit": a flush that hits leaves
\* stage 3 with an MSHR.
FlushTreatedAsMiss ==
  [][s2.valid /\ s2.type \in FlushTypes /\ hit /\ s2' # s2 => req_ff'.valid]_vars
=============================================================================
