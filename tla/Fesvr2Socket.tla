---------------------------- MODULE Fesvr2Socket ----------------------------
(***************************************************************************)
(* The FPGA bridge: a loop that ticks the dtm and serves its request with  *)
(* register accesses sent over the socket.  Every socket access is answered *)
(* before the loop goes on (sendWaitForAck), so it is part of the step.    *)
(* The target is a map of registers and memory; memory is reached through  *)
(* the DMA's debug port, which moves its address after each access.        *)
(***************************************************************************)
EXTENDS Dtm

CONSTANTS tohost_addr, fromhost_addr,
          BurstCap      \* entries of burst_data

\* What the callers ask for: transfers inside the target, on one side of
\* MemBase.  Below it memif aligns nothing and write_chunk sends whole words
\* only; write_uint64 goes to a register or to one of the two mailboxes.
ASSUME BridgeAssumption ==
  /\ MemBase \in Nat /\ BurstCap \in Nat /\ chunk_max_size \div 2 <= BurstCap
  /\ Unit \subseteq Nat
  /\ \A u \in Unit : Down(u) \in Unit /\ Down(u) + 1 \in Unit
  /\ \A o \in Ops :
       /\ o.kind \in {"read", "write", "write64"}
       /\ o.addr \in Nat /\ o.len \in Nat \ {0} /\ Extent(o) \subseteq Unit
       /\ o.addr >= MemBase \/ o.addr + o.len <= MemBase
       /\ o.kind = "write" /\ o.addr < MemBase => o.len % 2 = 0
       /\ IF o.kind = "write64"
          THEN /\ o.tgt = "L2" /\ o.len = 2
               /\ o.addr < MemBase \/ o.addr \in {tohost_addr, fromhost_addr}
          ELSE o.tgt = "DMA"

VARIABLES mem,          \* the target, by unit
          dbg,          \* external: address register of the DMA debug port
          f,            \* locals of main
          resp,         \* debug_resp_valid, debug_resp_bits_data
          pc            \* "tick" or "serve"

vars == <<dtmVars, mem, dbg, f, resp, pc>>

\* Unwritten locals start at 0; *debug_req_valid is set by the first tick.
Init == /\ DtmInit
        /\ mem = [u \in Unit |-> 0]
        /\ dbg = 0
        /\ f = [state |-> "IDLE", rcvd_addr |-> 0, odd |-> FALSE,
                data |-> [LO |-> 0, HI |-> 0], addr |-> 0, is_incremental |-> FALSE,
                is_burst |-> FALSE, burst |-> <<>>]
        /\ resp = [valid |-> FALSE, data |-> 0]
        /\ pc = "tick"

Addr(d) == d.LO + d.HI

\* The list of low halves names 0xc where DMA_BURST's address low half is 0xe.
IsLowAddr(q) == q.half = "LO" /\ q.tgt # "DMA_BURST"

\* Every state but WR_DATA forgets what the last transfer did.
Clear(g) == [g EXCEPT !.is_incremental = FALSE, !.is_burst = FALSE, !.burst = <<>>]

\* One half of an address; the second half completes it.
TakeAddr(g, q) ==
  LET d == [g.data EXCEPT ![IF IsLowAddr(q) THEN "LO" ELSE "HI"] = q.data]
  IN  IF g.state = "WR_ADDR" /\ g.rcvd_addr = 1
      THEN [g EXCEPT !.data = d, !.addr = Addr(d), !.state = "WR_DATA", !.rcvd_addr = 0]
      ELSE [g EXCEPT !.data = d, !.state = "WR_ADDR", !.rcvd_addr = @ + 1]

StartRead(g, q) == [g EXCEPT !.addr = q.data, !.state = "RD"]

\* debug_resp_bits_data: the half of ret_data that bit 2 of addr selects.
Respond(word, a) == resp' = [valid |-> TRUE, data |-> word[(a % 2) + 1]]

-----------------------------------------------------------------------------
\* External: the aligned word at a, and a store of it.
WordAt(a) == <<mem[Down(a)], mem[Down(a) + 1]>>

StoreWords(a, words) ==
  [u \in Unit |-> IF u \in a .. a + 2 * Len(words) - 1
                  THEN words[((u - a) \div 2) + 1][((u - a) % 2) + 1] ELSE mem[u]]

\* ADDR, REQ_TYPE = 2 and WR_DATA, or WR_DATA alone where the port has moved on.
DmaDebugWrite(a, word, is_incremental) ==
  LET at == IF is_incremental THEN dbg ELSE a
  IN  mem' = StoreWords(at, <<word>>) /\ dbg' = at + 2

\* do_write_burst: the words of the burst, in order, from the first address.
DoWriteBurst(a, words) == mem' = StoreWords(a, words) /\ UNCHANGED dbg

\* The second half of a data word has arrived: write it where it belongs.
WriteWord(g, q, word) ==
  LET special == g.addr \in {tohost_addr, fromhost_addr}
      buffered == g.addr >= MemBase /\ ~special /\ q.tgt = "DMA_BURST"
  IN  /\ \/ /\ g.addr < MemBase
            /\ mem' = StoreWords(g.addr, <<word>>) /\ UNCHANGED dbg
         \/ /\ special
            /\ DmaDebugWrite(g.addr, word, FALSE)
         \/ /\ g.addr >= MemBase /\ ~special /\ q.tgt = "DMA"
            /\ IF g.is_burst THEN DoWriteBurst(g.addr, Append(g.burst, word))
               ELSE DmaDebugWrite(g.addr, word, g.is_incremental)
         \/ buffered /\ UNCHANGED <<mem, dbg>>
      /\ f' = LET burst == buffered \/ (g.is_burst /\ q.tgt # "DMA")
              IN  [g EXCEPT !.is_burst = burst,
                            !.burst = IF buffered THEN Append(@, word)
                                      ELSE IF q.tgt = "DMA" /\ g.addr >= MemBase /\ ~special
                                           THEN <<>> ELSE @,
                            !.addr = IF burst THEN @ ELSE @ + 2,
                            !.is_incremental = TRUE]

-----------------------------------------------------------------------------
ServeIdle(q) ==
  LET g == Clear(f)
  IN  /\ f.state = "IDLE"
      /\ f' = CASE q.op = "write" -> TakeAddr(g, q)
                [] q.op = "read" -> StartRead(g, q)
                [] OTHER -> g
      /\ Respond(<<0, 0>>, 0)
      /\ UNCHANGED <<mem, dbg>>

ServeWrAddr(q) ==
  /\ f.state = "WR_ADDR"
  /\ f' = IF q.op = "write" THEN TakeAddr(Clear(f), q) ELSE Clear(f)
  /\ Respond(<<0, 0>>, 0)
  /\ UNCHANGED <<mem, dbg>>

ServeWrData(q) ==
  /\ f.state = "WR_DATA"
  /\ \/ /\ q.op = "write" /\ q.what = "ADDR"
        /\ f' = TakeAddr(f, q) /\ UNCHANGED <<mem, dbg>>
     \/ /\ q.op = "read"
        /\ f' = StartRead(f, q) /\ UNCHANGED <<mem, dbg>>
     \/ /\ q.op = "write" /\ q.what = "DATA"
        /\ LET d == [f.data EXCEPT ![q.half] = q.data]
               g == [f EXCEPT !.data = d, !.odd = ~@]
           IN  IF f.odd THEN WriteWord(g, q, <<d.LO, d.HI>>)
               ELSE f' = g /\ UNCHANGED <<mem, dbg>>
     \/ /\ q.op = "nop"
        /\ UNCHANGED <<f, mem, dbg>>
  /\ Respond(<<0, 0>>, 0)

\* Registers are read directly, memory through the debug port.
ServeRd(q) ==
  LET a == f.addr + q.data
  IN  /\ f.state = "RD" /\ q.op = "read"
      /\ f' = [Clear(f) EXCEPT !.state = "IDLE", !.addr = a]
      /\ dbg' = IF a < MemBase THEN dbg ELSE Down(a) + 2
      /\ Respond(WordAt(a), a)
      /\ UNCHANGED mem

\* The loop of main: debug_tick, then the request it exported.
LoopTick == /\ pc = "tick" /\ pc' = "serve"
            /\ Tick(resp.valid, resp.data)
            /\ UNCHANGED <<mem, dbg, f, resp>>

\* Mutant: the last response is left standing.
LoopNoRequestStale == /\ pc = "serve" /\ pc' = "tick"
                      /\ ~req_wait
                      /\ UNCHANGED <<dtmVars, mem, dbg, f, resp>>

\* No request: there is no response either.
LoopNoRequest == /\ pc = "serve" /\ pc' = "tick"
                 /\ ~req_wait
                 /\ resp' = [resp EXCEPT !.valid = FALSE]
                 /\ UNCHANGED <<dtmVars, mem, dbg, f>>

LoopServe == /\ pc = "serve" /\ pc' = "tick"
             /\ req_wait
             /\ LET q == Head(host.reqs)
                IN  ServeIdle(q) \/ ServeWrAddr(q) \/ ServeWrData(q) \/ ServeRd(q)
             /\ UNCHANGED dtmVars

Next == LoopTick \/ LoopNoRequest \/ LoopServe

\* main never waits: the loop always takes its next step.
Spec == Init /\ [][Next]_vars /\ WF_vars(Next)

-----------------------------------------------------------------------------
\* Units a transfer under way may still be about to write.
InFlight == IF host.kind \in {"write", "write64"} THEN Extent(host) ELSE {}

\* The target holds what the finished transfers wrote, and a transfer under way
\* never disturbs a unit outside its own range; a read returns what is in the
\* target, unit by unit, whatever its alignment.  The chunks of memif, the
\* requests of dtm and the address arithmetic of the bridge have to agree.
TransfersExact ==
  /\ \A u \in Unit \ InFlight : mem[u] = ref[u]
  /\ done.kind = "read" => \A u \in Extent(done) : done.got[u] = ref[u]

\* assert(resp_wait) in tick: a response only comes while one is awaited, so
\* no request is answered twice and none is skipped.
ResponseAwaited == pc = "tick" /\ resp.valid => req_wait \/ resp_wait

\* burst_data has room for every burst that a chunk can produce.
BurstFits == Len(f.burst) + (IF f.is_burst THEN 1 ELSE 0) <= BurstCap

\* Every transfer returns to its caller.
TransfersEnd == \A k \in 1 .. MaxOps : (host.k = k /\ host.kind # "nop") ~> (done.k = k)
=============================================================================
