-------------------------------- MODULE Dtm --------------------------------
(***************************************************************************)
(* dtm_t: the host thread's chunks become DMI requests, one at a time.     *)
(* The host is a coroutine: it runs until do_command hands a request over  *)
(* and is resumed by tick with the response.  Addresses lie below 4 GiB,   *)
(* so the high half of an address is 0.                                    *)
(***************************************************************************)
EXTENDS Memif

CONSTANTS Ops,      \* the transfers the host may ask for
          MaxOps,   \* bound on the transfers of a behaviour
          Unit      \* the addresses of the target, in units of four bytes

ASSUME DtmAssumption == chunk_align = 2 /\ MaxOps \in Nat

VARIABLES req_wait, resp_wait,
          host,     \* the host thread: its transfer, chunks and requests left
          done,     \* the transfer that ended last
          ref,      \* what the finished transfers leave in the target
          count     \* transfers started

dtmVars == <<req_wait, resp_wait, host, done, ref, count>>

Req(tgt, what, half, op, data) ==
  [tgt |-> tgt, what |-> what, half |-> half, op |-> op, data |-> data]

NopReq == Req("DMA", "DATA", "LO", "nop", 0)

AddrHalf(a, half) == IF half = "LO" THEN a ELSE 0

HalfOf(j) == IF j % 2 = 1 THEN "LO" ELSE "HI"

\* read_chunk: two requests per unit; the second one brings the data.
ReadReqs(c, tgt) ==
  [j \in 1 .. 2 * c.len |->
     Req(tgt, "ADDR", HalfOf(j), "read",
         AddrHalf(c.addr + (j - 1) \div 2, HalfOf(j)))]

\* All words of a DMA transfer but the last are burst words.
WordTarget(tgt, i, words) ==
  IF i < words /\ tgt = "DMA" THEN "DMA_BURST" ELSE tgt

\* write_chunk: the address, then the two halves of each word, high first.
WriteReqs(c, tgt, src) ==
  LET words == c.len \div chunk_align
  IN  << Req(tgt, "ADDR", "LO", "write", AddrHalf(c.addr, "LO")),
         Req(tgt, "ADDR", "HI", "write", AddrHalf(c.addr, "HI")) >>
      \o [j \in 1 .. 2 * words |->
            LET i == (j + 1) \div 2
                u == c.addr + chunk_align * (i - 1)
            IN  IF j % 2 = 1
                THEN Req(WordTarget(tgt, i, words), "DATA", "HI", "write", src[u + 1])
                ELSE Req(WordTarget(tgt, i, words), "DATA", "LO", "write", src[u])]

-----------------------------------------------------------------------------
Extent(h) == h.addr .. h.addr + h.len - 1

\* The k-th transfer writes values of its own, one for each unit.
Datum(k, h, u) == 10 * k + u - h.addr

\* What a write sends: its own data, and around it what the partial chunks read.
Source(h) == [u \in Unit |-> IF u \in Extent(h) THEN Datum(h.k, h, u) ELSE h.got[u]]

\* The thread enters the first of the chunks that are left.
EnterChunk(h, chunks) ==
  LET c == Head(chunks)
  IN  [h EXCEPT !.chunks = chunks,
                !.reqs = IF c.op = "read" THEN ReadReqs(c, h.tgt)
                         ELSE WriteReqs(c, h.tgt, Source(h))]

\* idle(): the thread sends nops.
Idle(h) == [h EXCEPT !.kind = "nop", !.chunks = <<>>, !.reqs = <<NopReq>>]

\* memif_t::read, memif_t::write, or write_uint64, which is one chunk to L2.
Begin(h, o, k) ==
  EnterChunk([h EXCEPT !.kind = o.kind, !.addr = o.addr, !.len = o.len,
                       !.tgt = o.tgt, !.k = k],
             IF o.kind = "write64" THEN <<Chunk("write", o.addr, o.len)>>
             ELSE Plan(o.kind, o.addr, o.len))

\* read_chunk keeps the answer to the second request of each unit.
Collect(h, data) ==
  LET c == Head(h.chunks)
      u == c.addr + c.len - Len(h.reqs) \div 2 - 1
  IN  IF h.kind # "nop" /\ c.op = "read" /\ Len(h.reqs) % 2 = 1
      THEN [h EXCEPT !.got[u] = data] ELSE h

-----------------------------------------------------------------------------
\* More requests, or more chunks, of the transfer under way.
Proceed(h) ==
  /\ \/ /\ Len(h.reqs) > 1
        /\ host' = [h EXCEPT !.reqs = Tail(@)]
     \/ /\ Len(h.reqs) = 1 /\ Len(h.chunks) > 1
        /\ host' = EnterChunk(h, Tail(h.chunks))
  /\ UNCHANGED <<done, ref, count>>

\* The transfer returns to its caller, which idles or asks for the next one.
Finish(h) ==
  /\ Len(h.reqs) = 1 /\ Len(h.chunks) <= 1
  /\ IF h.kind = "nop" THEN UNCHANGED <<done, ref>>
     ELSE /\ done' = h
          /\ ref' = IF h.kind = "read" THEN ref
                    ELSE [u \in Unit |-> IF u \in Extent(h) THEN Datum(h.k, h, u)
                                         ELSE ref[u]]
  /\ \/ host' = Idle(h) /\ UNCHANGED count
     \/ \E o \in Ops : /\ count < MaxOps
                       /\ count' = count + 1
                       /\ host' = Begin(h, o, count')

\* Mutant: a response does not end the wait for it.
WaitsForever(resp_valid) ==
  LET accepted == ~resp_wait /\ req_wait
  IN  /\ req_wait' = IF resp_wait THEN req_wait ELSE ~req_wait
      /\ resp_wait' = (resp_wait \/ accepted)

\* The two flags of tick, with req_ready = 1 as the bridge drives it.
Waits(resp_valid) ==
  LET accepted == ~resp_wait /\ req_wait
  IN  /\ req_wait' = IF resp_wait THEN req_wait ELSE ~req_wait
      /\ resp_wait' = ((resp_wait \/ accepted) /\ ~resp_valid)

\* dtm_t::tick: the flags, then the response resumes the host thread.
Tick(resp_valid, data) ==
  /\ Waits(resp_valid)
  /\ IF resp_valid THEN LET h == Collect(host, data) IN Proceed(h) \/ Finish(h)
     ELSE UNCHANGED <<host, done, ref, count>>

Blank == [kind |-> "nop", addr |-> 0, len |-> 0, tgt |-> "DMA", k |-> 0,
          chunks |-> <<>>, reqs |-> <<NopReq>>, got |-> [u \in Unit |-> 0]]

\* start_host_thread: the host has run up to its first request.
DtmInit ==
  /\ req_wait = FALSE /\ resp_wait = FALSE
  /\ host = Blank /\ done = Blank
  /\ ref = [u \in Unit |-> 0]
  /\ count = 0
=============================================================================
