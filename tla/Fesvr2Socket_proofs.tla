------------------------ MODULE Fesvr2Socket_proofs ------------------------
(***************************************************************************)
(* Proofs about Fesvr2Socket, for every target, every set of transfers that*)
(* the callers may ask for and every size of chunk.                        *)
(*                                                                         *)
(* TransfersExact is not inductive.  The argument follows one chunk: how   *)
(* many of its requests the bridge has served (Pos) determines the state of*)
(* the bridge, and which of its units have been written or fetched.  What  *)
(* holds between two chunks is that every unit of the transfer is done or  *)
(* in a chunk that is left, and that a chunk which reaches beyond the      *)
(* transfer has just been read.                                            *)
(***************************************************************************)
EXTENDS Fesvr2Socket, SequenceTheorems, TLAPS

ChunkRec == [op : {"read", "write"}, addr : Nat, len : Nat \ {0}]
ReqRec == [tgt : {"DMA", "DMA_BURST", "L2"}, what : {"ADDR", "DATA"}, half : {"LO", "HI"},
           op : {"read", "write", "nop"}, data : Int]
HostRec == [kind : {"nop", "read", "write", "write64"}, addr : Nat, len : Nat,
            tgt : {"DMA", "L2"}, k : Nat, chunks : Seq(ChunkRec), reqs : Seq(ReqRec),
            got : [Unit -> Int]]
LocalRec == [state : {"IDLE", "WR_ADDR", "WR_DATA", "RD"}, rcvd_addr : {0, 1},
             odd : BOOLEAN, data : [LO : Int, HI : Int], addr : Int,
             is_incremental : BOOLEAN, is_burst : BOOLEAN, burst : Seq(Int \X Int)]

\* The type invariant.
BridgeTypeOK ==
  /\ mem \in [Unit -> Int] /\ ref \in [Unit -> Int] /\ dbg \in Int
  /\ host \in HostRec /\ f \in LocalRec /\ count \in Nat
  /\ resp \in [valid : BOOLEAN, data : Int]
  /\ pc \in {"tick", "serve"}

\* A response stands exactly while the request it answers does.
Handshake == ~resp_wait /\ req_wait \in BOOLEAN /\ (pc = "tick" => req_wait = resp.valid)

\* The requests of a chunk, and the n-th of them.
Total(c) == IF c.op = "read" THEN 2 * c.len ELSE 2 + c.len

RequestAt(h, n) ==
  LET c == Head(h.chunks)
      i == (n - 1) \div 2
  IN  CASE c.op = "read" -> Req(h.tgt, "ADDR", HalfOf(n), "read",
                                IF n % 2 = 1 THEN c.addr + i ELSE 0)
        [] c.op = "write" /\ n <= 2 -> Req(h.tgt, "ADDR", HalfOf(n), "write",
                                           IF n = 1 THEN c.addr ELSE 0)
        [] c.op = "write" /\ n > 2 ->
             Req(WordTarget(h.tgt, i, c.len \div 2), "DATA",
                 IF n % 2 = 1 THEN "HI" ELSE "LO", "write",
                 Source(h)[c.addr + 2 * (i - 1) + (n % 2)])

\* What is left of the chunk under way.
InStep(h) ==
  IF h.kind = "nop" THEN h.chunks = <<>> /\ h.reqs = <<NopReq>>
  ELSE /\ h.chunks # <<>>
       /\ Len(h.reqs) \in 1 .. Total(Head(h.chunks))
       /\ \A i \in 1 .. Len(h.reqs) :
            h.reqs[i] = RequestAt(h, Total(Head(h.chunks)) - Len(h.reqs) + i)

\* The chunks that are left of a transfer.
Fits(chunks, o) ==
  \A j \in 1 .. Len(chunks) :
    LET c == chunks[j]
    IN  /\ c.len <= chunk_max_size /\ Extent(c) \subseteq Unit
        /\ c.addr >= MemBase \/ c.addr + c.len <= MemBase
        /\ c.op = "write" => o.kind # "read" /\ c.len % 2 = 0
        /\ o.kind = "write64" => c.addr = o.addr /\ c.len = 2
        /\ c.op = "write" /\ j > 1 /\ ~(Extent(c) \subseteq Extent(o))
             => chunks[j - 1] = [c EXCEPT !.op = "read"]

\* What the callers ask for, as the host keeps it.
Asked(h) ==
  h.kind # "nop" =>
    /\ Extent(h) \subseteq Unit /\ h.len > 0
    /\ IF h.kind = "write64"
       THEN h.tgt = "L2" /\ (h.addr < MemBase \/ h.addr \in {tohost_addr, fromhost_addr})
       ELSE h.tgt = "DMA"
    /\ Fits(h.chunks, h)

\* Requests of the chunk under way that have been served and, of them, those
\* whose response the host has taken.
Taken(h) == Total(Head(h.chunks)) - Len(h.reqs)
Pos == Taken(host) + (IF pc = "tick" /\ resp.valid THEN 1 ELSE 0)

Special(a) == a \in {tohost_addr, fromhost_addr}
NoBurst == ~f.is_burst /\ f.burst = <<>>
Quiet == f.state \in {"IDLE", "WR_DATA"} /\ f.rcvd_addr = 0 /\ ~f.odd /\ NoBurst

\* A read chunk after p requests.
Reading(c, p) ==
  IF p % 2 = 0 THEN Quiet
  ELSE /\ f.state = "RD" /\ f.rcvd_addr = 0 /\ ~f.odd /\ NoBurst
       /\ f.addr = c.addr + p \div 2

\* Consecutive words of S, from unit a on.
Pair(S, u) == <<S[u], S[u + 1]>>
Spells(words, S, a) == \A i \in 1 .. Len(words) : words[i] = Pair(S, a + 2 * (i - 1))

\* The first k words of a write chunk: those stored, and those in burst_data.
Words(c, k) ==
  LET n == k - Len(f.burst)
  IN  /\ n >= 0
      /\ f.addr = c.addr + 2 * n
      /\ Spells(f.burst, Source(host), f.addr)
      /\ \A u \in c.addr .. f.addr - 1 : mem[u] = Source(host)[u]
      /\ f.is_burst <=> f.burst # <<>>
      /\ f.is_burst => host.tgt = "DMA" /\ f.addr >= MemBase /\ ~Special(f.addr)
      /\ f.is_incremental /\ ~f.is_burst /\ f.addr >= MemBase => dbg = f.addr
      /\ f.is_incremental => k > 0

\* A write chunk after p requests.
Writing(c, p) ==
  /\ p = 0 => Quiet
  /\ p = 1 => f.state = "WR_ADDR" /\ f.rcvd_addr = 1 /\ ~f.odd /\ NoBurst /\ f.data.LO = c.addr
  /\ p > 1 /\ p < Total(c) =>
       /\ f.state = "WR_DATA" /\ f.rcvd_addr = 0 /\ f.odd = (p % 2 = 1)
       /\ f.odd => f.data.HI = Source(host)[c.addr + (p - 3) + 1]
       /\ Words(c, (p - 2) \div 2)
  /\ p = Total(c) => Quiet /\ \A u \in Extent(c) : mem[u] = Source(host)[u]

\* The state of the bridge and of the target within the chunk under way.
Bridge ==
  LET c == Head(host.chunks)
  IN  IF host.kind = "nop" THEN Quiet
      ELSE IF c.op = "read" THEN Reading(c, Pos) ELSE Writing(c, Pos)

\* The word that answers the second request for a unit.
Answer ==
  LET c == Head(host.chunks)
  IN  pc = "tick" /\ resp.valid /\ host.kind # "nop" /\ c.op = "read" /\ Pos % 2 = 0
        => resp.data = mem[c.addr + Pos \div 2 - 1]

\* Units that the read chunk under way has fetched, and what the write chunk
\* under way sends beside the transfer's own data, are as the target has them.
Fetched(h) ==
  LET c == Head(h.chunks)
  IN  h.kind # "nop" =>
        \A u \in Extent(c) :
          /\ h.kind = "read" \/ u \notin Extent(h)
          /\ c.op = "write" \/ u < c.addr + Taken(h) \div 2
          => h.got[u] = ref[u]

\* One of the chunks reads, or writes, the unit.
Reaches(chunks, op, u) ==
  \E j \in 1 .. Len(chunks) : chunks[j].op = op /\ u \in Extent(chunks[j])

\* Every unit of the transfer is done or in a chunk that is left.
Covered(h) ==
  /\ h.kind = "read" => \A u \in Extent(h) :
       h.got[u] = ref[u] \/ Reaches(h.chunks, "read", u)
  /\ h.kind \in {"write", "write64"} => \A u \in Extent(h) :
       mem[u] = Datum(h.k, h, u) \/ Reaches(h.chunks, "write", u)

IInv == /\ BridgeTypeOK /\ Handshake /\ InStep(host) /\ Asked(host)
        /\ Bridge /\ Answer /\ Fetched(host) /\ Covered(host) /\ TransfersExact

-----------------------------------------------------------------------------
(* How a transfer is cut into chunks. *)

\* Chunks of two units, and the constants the bridge is built with.
LEMMA Constants ==
  /\ chunk_align = 2 /\ chunk_max_size \in Nat \ {0} /\ chunk_max_size % 2 = 0
  /\ chunk_max_size >= 2
  /\ MemBase \in Nat /\ MemBase % 2 = 0 /\ Unit \subseteq Nat
  /\ BurstCap \in Nat /\ chunk_max_size \div 2 <= BurstCap
<1>1. chunk_align = 2 /\ chunk_max_size \in Nat \ {0} /\ chunk_max_size % 2 = 0
  BY DtmAssumption, MemifAssumption
<1>2. chunk_max_size >= 2
  BY <1>1
<1> QED BY <1>1, <1>2, MemifAssumption, BridgeAssumption

LEMMA MinOfTwo ==
  \A x, y \in Int : Min({x, y}) = IF x <= y THEN x ELSE y
<1> SUFFICES ASSUME NEW x \in Int, NEW y \in Int
             PROVE  Min({x, y}) = IF x <= y THEN x ELSE y
  OBVIOUS
<1>1. \E m \in {x, y} : \A z \in {x, y} : m <= z
  <2>1. CASE x <= y
    BY <2>1
  <2>2. CASE ~(x <= y)
    BY <2>2
  <2> QED BY <2>1, <2>2
<1>2. Min({x, y}) \in {x, y} /\ \A z \in {x, y} : Min({x, y}) <= z
  BY <1>1 DEF Min
<1> QED BY <1>2

LEMMA Division ==
  ASSUME NEW x \in Nat, NEW c \in Nat \ {0}
  PROVE  /\ x \div c \in Nat
         /\ c * (x \div c) <= x /\ x < c * (x \div c) + c
  OBVIOUS

\* The aligned rest: chunks within the range, even where its length is, that
\* reach every unit.
Splits(s, op, a, n) ==
  /\ s \in Seq(ChunkRec)
  /\ \A j \in 1 .. Len(s) : /\ s[j].op = op /\ s[j].len <= chunk_max_size
                            /\ a <= s[j].addr /\ s[j].addr + s[j].len <= a + n
                            /\ n % 2 = 0 => s[j].len % 2 = 0
  /\ \A u \in a .. a + n - 1 : Reaches(s, op, u)

LEMMA BodySplits ==
  ASSUME NEW op \in {"read", "write"}, NEW a \in Nat, NEW n \in Nat
  PROVE  Splits(Body(op, a, n), op, a, n)
<1> DEFINE M == chunk_max_size
           m == (n + M - 1) \div M
           s == Body(op, a, n)
<1>1. M \in Nat \ {0} /\ M % 2 = 0
  BY Constants
<1>2. m \in Nat /\ M * m <= n + M - 1 /\ n + M - 1 < M * m + M
  <2>1. n + M - 1 \in Nat
    BY <1>1
  <2> HIDE DEF M
  <2> QED BY <2>1, <1>1, Division
<1>3. s = [i \in 1 .. m |-> Chunk(op, a + (i - 1) * M, Min({M, n - (i - 1) * M}))]
  BY DEF Body
<1> HIDE DEF M, m, s
<1>4. ASSUME NEW i \in 1 .. m
      PROVE  (i - 1) * M \in Nat /\ (i - 1) * M < n
  <2>1. (i - 1) * M \in Nat
    BY <1>1, <1>2
  <2>2. i * M <= m * M
    BY <1>1, <1>2
  <2>3. i * M = (i - 1) * M + M /\ m * M = M * m
    BY <1>1, <1>2
  <2> QED BY <1>1, <1>2, <2>1, <2>2, <2>3
<1>5. ASSUME NEW i \in 1 .. m
      PROVE  /\ s[i].op = op /\ s[i].addr = a + (i - 1) * M
             /\ s[i].len = IF M <= n - (i - 1) * M THEN M ELSE n - (i - 1) * M
             /\ s[i] \in ChunkRec
  <2>1. (i - 1) * M \in Nat /\ (i - 1) * M < n
    BY <1>4
  <2>2. Min({M, n - (i - 1) * M}) = IF M <= n - (i - 1) * M THEN M ELSE n - (i - 1) * M
    <3>1. M \in Int /\ n - (i - 1) * M \in Int
      BY <1>1, <2>1
    <3> QED BY <3>1, MinOfTwo
  <2>3. s[i] = Chunk(op, a + (i - 1) * M, Min({M, n - (i - 1) * M}))
    BY <1>3
  <2> QED BY <1>1, <2>1, <2>2, <2>3 DEF Chunk, ChunkRec
<1>6. s \in Seq(ChunkRec) /\ Len(s) = m
  BY <1>2, <1>3, <1>5
<1>7. ASSUME NEW j \in 1 .. Len(s)
      PROVE  /\ s[j].op = op /\ s[j].len <= M
             /\ a <= s[j].addr /\ s[j].addr + s[j].len <= a + n
             /\ n % 2 = 0 => s[j].len % 2 = 0
  <2>1. (j - 1) * M \in Nat /\ (j - 1) * M < n
    BY <1>4, <1>6
  <2>2. ((j - 1) * M) % 2 = 0
    <3>1. PICK half \in Nat : M = 2 * half
      BY <1>1
    <3>2. (j - 1) * M = 2 * ((j - 1) * half)
      BY <1>6, <1>2, <3>1
    <3>3. (j - 1) * half \in Nat
      BY <1>6, <1>2, <3>1
    <3> QED BY <3>2, <3>3
  <2> DEFINE x == (j - 1) * M
  <2>3. s[j].op = op /\ s[j].addr = a + x /\ s[j].len = IF M <= n - x THEN M ELSE n - x
    BY <1>5, <1>6
  <2>4. x \in Nat /\ x < n /\ x % 2 = 0
    BY <2>1, <2>2
  <2> HIDE DEF x
  <2> QED BY <1>1, <2>3, <2>4
<1>8. ASSUME NEW u \in a .. a + n - 1
      PROVE  Reaches(s, op, u)
  <2> DEFINE k == (u - a) \div M
  <2>1. k \in Nat /\ M * k <= u - a /\ u - a < M * k + M
    <3>1. u - a \in Nat
      OBVIOUS
    <3> QED BY <1>1, <3>1, Division
  <2> HIDE DEF k
  <2>2. k + 1 \in 1 .. m
    <3>1. M * k <= n - 1
      BY <1>1, <2>1
    <3>2. M * k < M * m
      BY <1>1, <1>2, <2>1, <3>1
    <3>3. k < m
      BY <1>1, <1>2, <2>1, <3>2
    <3> QED BY <1>2, <2>1, <3>3
  <2>3. s[k + 1].addr = a + M * k /\ s[k + 1].len = IF M <= n - M * k THEN M ELSE n - M * k
    <3>1. k + 1 - 1 = k /\ k * M = M * k
      BY <1>1, <2>1
    <3>2. \A i \in 1 .. m : i - 1 = k =>
            /\ s[i].addr = a + k * M
            /\ s[i].len = IF M <= n - k * M THEN M ELSE n - k * M
      BY <1>5
    <3> QED BY <2>1, <2>2, <3>1, <3>2
  <2>4. M * k \in Nat
    BY <1>1, <2>1
  <2>5. u \in Extent(s[k + 1])
    BY <1>1, <2>1, <2>3, <2>4 DEF Extent
  <2>6. s[k + 1].op = op
    BY <1>5, <2>2
  <2> QED BY <1>6, <2>2, <2>5, <2>6 DEF Reaches
<1>9. Splits(s, op, a, n)
  BY <1>6, <1>7, <1>8 DEF Splits, M
<1> QED BY <1>9 DEF s

\* What each chunk of a transfer is, wherever the sequence is cut.
Sound(chunks, o) ==
  \A j \in 1 .. Len(chunks) :
    LET c == chunks[j]
    IN  /\ c.len <= chunk_max_size /\ Extent(c) \subseteq Unit
        /\ c.addr >= MemBase \/ c.addr + c.len <= MemBase
        /\ c.op = "write" => o.kind # "read" /\ c.len % 2 = 0
        /\ c.op = "write" /\ ~(Extent(c) \subseteq Extent(o))
             => j > 1 /\ chunks[j - 1] = [c EXCEPT !.op = "read"]

LEMMA JoinSound ==
  ASSUME NEW o, NEW s \in Seq(ChunkRec), NEW t \in Seq(ChunkRec), Sound(s, o), Sound(t, o)
  PROVE  Sound(s \o t, o)
<1>1. /\ Len(s) \in Nat /\ Len(t) \in Nat /\ Len(s \o t) = Len(s) + Len(t)
      /\ \A j \in 1 .. Len(s) + Len(t) :
           (s \o t)[j] = IF j <= Len(s) THEN s[j] ELSE t[j - Len(s)]
  BY ConcatProperties, LenProperties
<1> SUFFICES ASSUME NEW j \in 1 .. Len(s) + Len(t)
             PROVE  LET c == (s \o t)[j]
                    IN  /\ c.len <= chunk_max_size /\ Extent(c) \subseteq Unit
                        /\ c.addr >= MemBase \/ c.addr + c.len <= MemBase
                        /\ c.op = "write" => o.kind # "read" /\ c.len % 2 = 0
                        /\ c.op = "write" /\ ~(Extent(c) \subseteq Extent(o))
                             => j > 1 /\ (s \o t)[j - 1] = [c EXCEPT !.op = "read"]
  BY <1>1 DEF Sound
<1>2. CASE j <= Len(s)
  <2>1. j \in 1 .. Len(s) /\ (s \o t)[j] = s[j]
    BY <1>1, <1>2
  <2>2. j > 1 => (s \o t)[j - 1] = s[j - 1]
    <3>1. j > 1 => j - 1 \in 1 .. Len(s) + Len(t) /\ j - 1 <= Len(s)
      BY <1>1, <1>2
    <3> QED BY <1>1, <3>1
  <2> QED BY <2>1, <2>2 DEF Sound
<1>3. CASE j > Len(s)
  <2>1. j - Len(s) \in 1 .. Len(t) /\ (s \o t)[j] = t[j - Len(s)]
    BY <1>1, <1>3
  <2>2. j - Len(s) > 1 => j > 1 /\ (s \o t)[j - 1] = t[j - Len(s) - 1]
    <3>1. j - Len(s) > 1 => /\ j - 1 \in 1 .. Len(s) + Len(t) /\ ~(j - 1 <= Len(s))
                            /\ j - 1 - Len(s) = j - Len(s) - 1 /\ j > 1
      BY <1>1, <1>3
    <3> QED BY <1>1, <3>1
  <2> QED BY <2>1, <2>2 DEF Sound
<1> QED BY <1>1, <1>2, <1>3, SMTT(30)

\* The partial chunk around a unit of the transfer.
LEMMA PartialSound ==
  ASSUME NEW o \in Ops, o.kind \in {"read", "write"}, o.addr >= MemBase, NEW x \in Extent(o)
  PROVE  LET p == Partial(o.kind, Down(x))
         IN  /\ p \in Seq(ChunkRec) /\ Len(p) \in {1, 2} /\ Sound(p, o)
             /\ Reaches(p, o.kind, x)
<1> DEFINE d == Down(x)
           p == Partial(o.kind, d)
<1>1. /\ o.addr \in Nat /\ o.len \in Nat \ {0} /\ x \in Unit /\ x \in Nat
      /\ d \in Unit /\ d + 1 \in Unit
  BY Constants, BridgeAssumption DEF Extent
<1>2. d \in Nat /\ d <= x /\ x <= d + 1 /\ d >= MemBase
  BY <1>1, Constants DEF Down, Extent
<1> HIDE DEF d
<1>3. CASE o.kind = "read"
  <2>1. p = <<[op |-> "read", addr |-> d, len |-> 2]>>
    BY <1>3, Constants DEF Partial, Chunk
  <2>2. p \in Seq(ChunkRec) /\ Len(p) = 1 /\ p[1] = [op |-> "read", addr |-> d, len |-> 2]
    BY <1>2, <2>1 DEF ChunkRec
  <2> HIDE DEF p
  <2>3. x \in Extent(p[1]) /\ Extent(p[1]) \subseteq Unit
    BY <1>1, <1>2, <2>2 DEF Extent
  <2>4. Sound(p, o)
    BY <1>2, <2>2, <2>3, Constants DEF Sound
  <2> QED BY <1>3, <2>2, <2>3, <2>4 DEF Reaches, p, d
<1>4. CASE o.kind = "write"
  <2>1. p = <<[op |-> "read", addr |-> d, len |-> 2], [op |-> "write", addr |-> d, len |-> 2]>>
    BY <1>4, Constants DEF Partial, Chunk
  <2>2. /\ p \in Seq(ChunkRec) /\ Len(p) = 2
        /\ p[1] = [op |-> "read", addr |-> d, len |-> 2]
        /\ p[2] = [op |-> "write", addr |-> d, len |-> 2]
    BY <1>2, <2>1 DEF ChunkRec
  <2> HIDE DEF p
  <2>3. x \in Extent(p[2]) /\ Extent(p[1]) \subseteq Unit /\ Extent(p[2]) \subseteq Unit
    BY <1>1, <1>2, <2>2 DEF Extent
  <2>4. p[1] = [p[2] EXCEPT !.op = "read"]
    BY <2>2
  <2>5. Sound(p, o)
    <3>1. ASSUME NEW j \in {1, 2}
          PROVE  LET c == p[j]
                 IN  /\ c.len <= chunk_max_size /\ Extent(c) \subseteq Unit
                     /\ c.addr >= MemBase \/ c.addr + c.len <= MemBase
                     /\ c.op = "write" => o.kind # "read" /\ c.len % 2 = 0
                     /\ c.op = "write" /\ ~(Extent(c) \subseteq Extent(o))
                          => j > 1 /\ p[j - 1] = [c EXCEPT !.op = "read"]
      <4>1. CASE j = 1
        BY <1>2, <2>2, <2>3, <4>1, Constants
      <4>2. CASE j = 2
        <5>1. p[j - 1] = p[1]
          BY <4>2
        <5> QED BY <1>2, <1>4, <2>2, <2>3, <2>4, <4>2, <5>1, Constants
      <4> QED BY <4>1, <4>2
    <3>2. 1 .. Len(p) = {1, 2}
      BY <2>2
    <3> QED BY <3>1, <3>2 DEF Sound
  <2> QED BY <1>4, <2>2, <2>3, <2>5 DEF Reaches, p, d
<1> QED BY <1>3, <1>4

\* What one of two sequences reaches, their concatenation reaches.
LEMMA JoinReaches ==
  ASSUME NEW s \in Seq(ChunkRec), NEW t \in Seq(ChunkRec), NEW op, NEW u,
         Reaches(s, op, u) \/ Reaches(t, op, u)
  PROVE  Reaches(s \o t, op, u)
<1>1. /\ Len(s) \in Nat /\ Len(t) \in Nat /\ Len(s \o t) = Len(s) + Len(t)
      /\ \A j \in 1 .. Len(s) + Len(t) :
           (s \o t)[j] = IF j <= Len(s) THEN s[j] ELSE t[j - Len(s)]
  BY ConcatProperties, LenProperties
<1>2. CASE Reaches(s, op, u)
  <2>1. PICK j \in 1 .. Len(s) : s[j].op = op /\ u \in Extent(s[j])
    BY <1>2 DEF Reaches
  <2>2. j \in 1 .. Len(s \o t) /\ (s \o t)[j] = s[j]
    BY <1>1
  <2> QED BY <2>1, <2>2 DEF Reaches
<1>3. CASE Reaches(t, op, u)
  <2>1. PICK j \in 1 .. Len(t) : t[j].op = op /\ u \in Extent(t[j])
    BY <1>3 DEF Reaches
  <2>2. Len(s) + j \in 1 .. Len(s \o t) /\ ~(Len(s) + j <= Len(s)) /\ Len(s) + j - Len(s) = j
    BY <1>1
  <2>3. (s \o t)[Len(s) + j] = t[j]
    BY <1>1, <2>2
  <2> QED BY <2>1, <2>2, <2>3 DEF Reaches
<1> QED BY <1>2, <1>3

\* Nothing at all, or a partial chunk where one is needed.
LEMMA OptionalSound ==
  ASSUME NEW o \in Ops, o.kind \in {"read", "write"}, NEW n \in {0, 1}, NEW x,
         n = 1 => o.addr >= MemBase /\ x \in Extent(o)
  PROVE  LET p == IF n > 0 THEN Partial(o.kind, Down(x)) ELSE <<>>
         IN  /\ p \in Seq(ChunkRec) /\ Sound(p, o)
             /\ n = 1 => Reaches(p, o.kind, x)
<1>1. CASE n = 0
  <2>1. <<>> \in Seq(ChunkRec) /\ Len(<<>>) = 0
    OBVIOUS
  <2>2. Sound(<<>>, o)
    BY <2>1 DEF Sound
  <2> QED BY <1>1, <2>1, <2>2
<1>2. CASE n = 1
  <2> DEFINE p == Partial(o.kind, Down(x))
  <2>1. p \in Seq(ChunkRec) /\ Len(p) \in {1, 2} /\ Sound(p, o) /\ Reaches(p, o.kind, x)
    BY <1>2, PartialSound
  <2> QED BY <1>2, <2>1
<1> QED BY <1>1, <1>2

\* memif_t::read and memif_t::write: sound chunks that reach every unit.
LEMMA PlanSound ==
  ASSUME NEW o \in Ops, o.kind \in {"read", "write"}
  PROVE  LET p == Plan(o.kind, o.addr, o.len)
         IN  /\ p \in Seq(ChunkRec) /\ Sound(p, o)
             /\ \A u \in Extent(o) : Reaches(p, o.kind, u)
<1> DEFINE a == o.addr
           n == o.len
           h == HeadLen(a, n)
           t == TailLen(a, n)
           A == IF h > 0 THEN Partial(o.kind, Down(a)) ELSE <<>>
           B == IF t > 0 THEN Partial(o.kind, a + n - t) ELSE <<>>
           C == Body(o.kind, a + h, n - h - t)
<1>1. /\ a \in Nat /\ n \in Nat \ {0} /\ Extent(o) \subseteq Unit
      /\ a >= MemBase \/ a + n <= MemBase
      /\ o.kind = "write" /\ a < MemBase => n % 2 = 0
  BY BridgeAssumption
<1>2. h \in {0, 1} /\ (h = 1 => a >= MemBase)
  <2>1. a % 2 = 1 => Min({n, 2 - 1}) = 1
    <3>1. Min({n, 1}) = IF n <= 1 THEN n ELSE 1
      BY <1>1, MinOfTwo
    <3>2. 2 - 1 = 1
      OBVIOUS
    <3>3. n >= 1
      BY <1>1
    <3> QED BY <1>1, <3>1, <3>2, <3>3
  <2>2. a % 2 \in {0, 1}
    BY <1>1
  <2>3. CASE a >= MemBase /\ a % 2 = 1
    <3>1. h = Min({n, 2 - 1})
      BY <2>3, Constants DEF HeadLen
    <3> QED BY <2>1, <2>3, <3>1
  <2>4. CASE ~(a >= MemBase /\ a % 2 = 1)
    <3>1. h = 0
      BY <2>2, <2>4, Constants DEF HeadLen
    <3> QED BY <3>1
  <2> QED BY <2>3, <2>4
<1>3. /\ a >= MemBase => h = a % 2
      /\ t = IF a >= MemBase THEN (n - h) % 2 ELSE 0
  <2>1. Min({n, 1}) = IF n <= 1 THEN n ELSE 1
    BY <1>1, MinOfTwo
  <2>2. Min({n, 2 - 1}) = 1
    <3>1. 2 - 1 = 1
      OBVIOUS
    <3> QED BY <1>1, <2>1, <3>1
  <2>3. a % 2 \in {0, 1}
    BY <1>1
  <2>4. a % 2 = 1 => 2 - (a % 2) = 2 - 1
    BY <1>1
  <2>5. a >= MemBase => h = a % 2
    BY <2>2, <2>3, <2>4, Constants DEF HeadLen
  <2>6. t = IF a >= MemBase THEN (n - h) % 2 ELSE 0
    BY Constants DEF TailLen
  <2> QED BY <2>5, <2>6
<1> HIDE DEF h, t
<1>4. /\ t \in {0, 1} /\ (t = 1 => a >= MemBase)
      /\ n - h \in Nat /\ n - h - t \in Nat /\ a + h \in Nat
  <2>1. n - h \in Nat /\ a + h \in Nat
    BY <1>1, <1>2
  <2> DEFINE m == n - h
  <2>2. m \in Nat /\ t = IF a >= MemBase THEN m % 2 ELSE 0
    BY <1>3, <2>1
  <2> HIDE DEF m
  <2>3. t \in {0, 1} /\ (t = 1 => a >= MemBase) /\ m - t \in Nat
    BY <2>2
  <2> QED BY <2>1, <2>3 DEF m
<1>13. t = 1 => Down(a + n - 1) = a + n - 1
  <2> SUFFICES ASSUME t = 1 PROVE Down(a + n - 1) = a + n - 1
    OBVIOUS
  <2>1. h = a % 2 /\ (n - h) % 2 = 1
    BY <1>3, <1>4
  <2>2. (a + n - 1) % 2 = 0
    <3> DEFINE r == a % 2
    <3>1. r \in {0, 1} /\ (a - r) % 2 = 0
      BY <1>1
    <3>2. (n - r) % 2 = 1
      BY <2>1
    <3> HIDE DEF r
    <3>3. (a - r) % 2 = 0 /\ (n - r) % 2 = 1 /\ r \in Nat
      BY <3>1, <3>2
    <3>4. \A x, y, z \in Int : (x - z) % 2 = 0 /\ (y - z) % 2 = 1 => (x + y - 1) % 2 = 0
      OBVIOUS
    <3> QED BY <1>1, <3>3, <3>4
  <2> QED BY <1>1, <2>2, Constants DEF Down
<1>14. o.kind = "write" => (n - h - t) % 2 = 0
  <2>1. CASE a >= MemBase
    <3> DEFINE m == n - h
    <3>1. m \in Nat /\ t = m % 2
      BY <1>3, <1>4, <2>1
    <3> HIDE DEF m
    <3>2. (m - t) % 2 = 0
      BY <3>1
    <3> QED BY <3>2 DEF m
  <2>2. CASE ~(a >= MemBase)
    <3>1. h = 0 /\ t = 0
      BY <1>2, <1>4, <2>2
    <3>2. a < MemBase
      BY <1>1, <2>2, Constants
    <3>3. n - h - t = n
      BY <1>1, <3>1
    <3> QED BY <1>1, <3>2, <3>3
  <2> QED BY <2>1, <2>2
<1>5. /\ A \in Seq(ChunkRec) /\ Sound(A, o)
      /\ h = 1 => Reaches(A, o.kind, a)
  <2>1. h = 1 => a \in Extent(o)
    BY <1>1 DEF Extent
  <2> QED BY <1>2, <2>1, OptionalSound
<1>6. /\ B \in Seq(ChunkRec) /\ Sound(B, o)
      /\ t = 1 => Reaches(B, o.kind, a + n - 1)
  <2>1. t = 1 => a + n - 1 \in Extent(o)
    BY <1>1 DEF Extent
  <2>2. B = IF t > 0 THEN Partial(o.kind, Down(a + n - 1)) ELSE <<>>
    BY <1>4, <1>13
  <2> HIDE DEF B
  <2> QED BY <1>4, <2>1, <2>2, OptionalSound
<1>7. /\ C \in Seq(ChunkRec)
      /\ \A j \in 1 .. Len(C) :
           /\ C[j].op = o.kind /\ C[j].len <= chunk_max_size
           /\ a + h <= C[j].addr /\ C[j].addr + C[j].len <= a + n - t
           /\ o.kind = "write" => C[j].len % 2 = 0
      /\ \A u \in a + h .. a + n - t - 1 : Reaches(C, o.kind, u)
  <2> DEFINE b == a + h
             m == n - h - t
  <2>1. b \in Nat /\ m \in Nat
    BY <1>4
  <2>2. Splits(C, o.kind, b, m)
    BY <2>1, BodySplits
  <2>3. b + m = a + n - t /\ b + m - 1 = a + n - t - 1
    BY <1>1, <1>2, <1>4
  <2>4. o.kind = "write" => m % 2 = 0
    BY <1>14
  <2> HIDE DEF C, m
  <2> QED BY <2>2, <2>3, <2>4 DEF Splits
<1>8. Sound(C, o)
  <2> SUFFICES ASSUME NEW j \in 1 .. Len(C)
               PROVE  LET c == C[j]
                      IN  /\ c.len <= chunk_max_size /\ Extent(c) \subseteq Unit
                          /\ c.addr >= MemBase \/ c.addr + c.len <= MemBase
                          /\ c.op = "write" => o.kind # "read" /\ c.len % 2 = 0
                          /\ Extent(c) \subseteq Extent(o)
    BY DEF Sound
  <2> DEFINE c == C[j]
  <2>1. c \in ChunkRec
    BY <1>7
  <2>2. /\ c.op = o.kind /\ c.len <= chunk_max_size
        /\ a + h <= c.addr /\ c.addr + c.len <= a + n - t
        /\ o.kind = "write" => c.len % 2 = 0
    BY <1>7
  <2>5. c.addr \in Nat /\ c.len \in Nat
    BY <2>1 DEF ChunkRec
  <2> HIDE DEF c
  <2>6. a <= c.addr /\ c.addr + c.len <= a + n
    <3>1. \A x, y \in Nat : a + h <= x /\ x + y <= a + n - t => a <= x /\ x + y <= a + n
      <4>1. \A v, w, x, y, p, q \in Nat : v + p <= x /\ x + y <= v + w - q
                                           => v <= x /\ x + y <= v + w
        OBVIOUS
      <4>2. h \in Nat /\ t \in Nat
        BY <1>2, <1>4
      <4> QED BY <1>1, <4>1, <4>2
    <3> QED BY <2>2, <2>5, <3>1
  <2>3. Extent(c) \subseteq Extent(o)
    BY <1>1, <2>5, <2>6, SMTT(30) DEF Extent
  <2>4. c.addr >= MemBase \/ c.addr + c.len <= MemBase
    BY <1>1, <2>5, <2>6, Constants
  <2> QED BY <1>1, <2>2, <2>3, <2>4 DEF c
<1> HIDE DEF A, B, C
<1>9. A \o B \in Seq(ChunkRec) /\ Sound(A \o B, o)
  BY <1>5, <1>6, JoinSound, ConcatProperties
<1>10. (A \o B) \o C \in Seq(ChunkRec) /\ Sound((A \o B) \o C, o)
  BY <1>7, <1>8, <1>9, JoinSound, ConcatProperties
<1>11. ASSUME NEW u \in Extent(o)
       PROVE  Reaches((A \o B) \o C, o.kind, u)
  <2>1. \/ h = 1 /\ u = a
        \/ t = 1 /\ u = a + n - 1
        \/ u \in a + h .. a + n - t - 1
    BY <1>1, <1>2, <1>4 DEF Extent
  <2>2. \/ Reaches(A, o.kind, u) \/ Reaches(B, o.kind, u)
        \/ Reaches(C, o.kind, u)
    BY <1>5, <1>6, <1>7, <2>1
  <2>3. Reaches(A \o B, o.kind, u) \/ Reaches(C, o.kind, u)
    BY <1>5, <1>6, <2>2, JoinReaches
  <2> QED BY <1>7, <1>9, <2>3, JoinReaches
<1>12. Plan(o.kind, o.addr, o.len) = (A \o B) \o C
  BY DEF Plan, A, B, C, h, t
<1> QED BY <1>10, <1>11, <1>12

LEMMA FirstChunk ==
  ASSUME NEW s \in Seq(ChunkRec), s # <<>>
  PROVE  Len(s) \in Nat \ {0} /\ Head(s) = s[1] /\ Head(s) \in ChunkRec
BY EmptySeq, HeadTailProperties, LenProperties

\* The chunks of a new transfer.
ChunksOf(o) == IF o.kind = "write64" THEN <<Chunk("write", o.addr, o.len)>>
               ELSE Plan(o.kind, o.addr, o.len)

LEMMA NewChunks ==
  ASSUME NEW o \in Ops
  PROVE  LET p == ChunksOf(o)
         IN  /\ p \in Seq(ChunkRec) /\ p # <<>> /\ Fits(p, o)
             /\ Head(p).op = "write" => Extent(Head(p)) \subseteq Extent(o)
             /\ \A u \in Extent(o) :
                  Reaches(p, IF o.kind = "read" THEN "read" ELSE "write", u)
<1> DEFINE p == ChunksOf(o)
<1>1. /\ o.addr \in Nat /\ o.len \in Nat \ {0} /\ Extent(o) \subseteq Unit
      /\ o.kind \in {"read", "write", "write64"} /\ (o.kind = "write64" => o.len = 2)
      /\ o.addr >= MemBase \/ o.addr + o.len <= MemBase
  BY BridgeAssumption
<1>2. CASE o.kind = "write64"
  <2> DEFINE c == [op |-> "write", addr |-> o.addr, len |-> 2]
  <2>1. p = <<c>>
    BY <1>1, <1>2 DEF ChunksOf, Chunk
  <2>2. c \in ChunkRec
    BY <1>1 DEF ChunkRec
  <2>3. c.op = "write" /\ c.addr = o.addr /\ c.len = 2 /\ Extent(c) = Extent(o)
    BY <1>1, <1>2 DEF Extent
  <2> HIDE DEF c, p
  <2>4. p \in Seq(ChunkRec) /\ p # <<>> /\ Len(p) = 1 /\ p[1] = c /\ Head(p) = c
    BY <2>1, <2>2
  <2>5. Fits(p, o)
    BY <1>1, <1>2, <2>3, <2>4, Constants DEF Fits
  <2>6. \A u \in Extent(o) : Reaches(p, "write", u)
    BY <2>3, <2>4 DEF Reaches
  <2> QED BY <1>2, <2>3, <2>4, <2>5, <2>6 DEF p
<1>3. CASE o.kind # "write64"
  <2>1. /\ p \in Seq(ChunkRec) /\ Sound(p, o)
        /\ \A u \in Extent(o) : Reaches(p, o.kind, u)
    BY <1>1, <1>3, PlanSound DEF ChunksOf
  <2> HIDE DEF p
  <2>2. p # <<>>
    <3>1. Reaches(p, o.kind, o.addr)
      BY <1>1, <2>1 DEF Extent
    <3> QED BY <3>1 DEF Reaches
  <2>3. Len(p) \in Nat \ {0} /\ Head(p) = p[1]
    BY <2>1, <2>2, FirstChunk
  <2>4. Head(p).op = "write" => Extent(Head(p)) \subseteq Extent(o)
    <3>1. 1 \in 1 .. Len(p)
      BY <2>3
    <3>2. p[1].op = "write" /\ ~(Extent(p[1]) \subseteq Extent(o)) => 1 > 1
      BY <2>1, <3>1 DEF Sound
    <3> QED BY <2>3, <3>2
  <2>5. Fits(p, o)
    BY <1>3, <2>1 DEF Fits, Sound
  <2>6. o.kind = IF o.kind = "read" THEN "read" ELSE "write"
    BY <1>1, <1>3
  <2> QED BY <2>1, <2>2, <2>4, <2>5, <2>6 DEF p
<1> QED BY <1>2, <1>3

-----------------------------------------------------------------------------
(* The requests of a chunk. *)

LEMMA SourceType ==
  ASSUME NEW h \in HostRec
  PROVE  Source(h) \in [Unit -> Int]
BY Constants DEF Source, Datum, HostRec

\* The thread stands before the first request of the chunk it has entered.
LEMMA Entered ==
  ASSUME NEW h \in HostRec, NEW chunks \in Seq(ChunkRec), chunks # <<>>,
         Extent(Head(chunks)) \subseteq Unit,
         Head(chunks).op = "write" => Head(chunks).len % 2 = 0
  PROVE  LET e == EnterChunk(h, chunks)
         IN  /\ e \in HostRec /\ e.chunks = chunks
             /\ e.kind = h.kind /\ e.addr = h.addr /\ e.len = h.len
             /\ e.tgt = h.tgt /\ e.k = h.k /\ e.got = h.got
             /\ Taken(e) = 0
             /\ e.kind # "nop" => InStep(e)
<1> DEFINE e == EnterChunk(h, chunks)
           c == Head(chunks)
           r == IF c.op = "read" THEN ReadReqs(c, h.tgt) ELSE WriteReqs(c, h.tgt, Source(h))
<1>1. c \in ChunkRec
  BY FirstChunk
<1>2. /\ c.op \in {"read", "write"} /\ c.addr \in Nat /\ c.len \in Nat \ {0}
      /\ \A u \in Int : c.addr <= u /\ u < c.addr + c.len => u \in Unit
      /\ c.op = "write" => c.len % 2 = 0
  BY <1>1 DEF ChunkRec, Extent
<1>3. e = [h EXCEPT !.chunks = chunks, !.reqs = r]
  BY DEF EnterChunk
<1>4. h.tgt \in {"DMA", "L2"}
  BY DEF HostRec
<1>5. Total(c) \in Nat \ {0}
  BY <1>2 DEF Total
<1>6. ASSUME NEW g, g.tgt = h.tgt, g.chunks = chunks, Source(g) = Source(h)
      PROVE  /\ r \in Seq(ReqRec) /\ Len(r) = Total(c)
             /\ \A i \in 1 .. Len(r) : r[i] = RequestAt(g, i)
  <2>1. CASE c.op = "read"
    <3>1. r = [j \in 1 .. 2 * c.len |->
                 Req(h.tgt, "ADDR", HalfOf(j), "read",
                     AddrHalf(c.addr + (j - 1) \div 2, HalfOf(j)))]
      BY <2>1 DEF ReadReqs
    <3>2. \A j \in 1 .. 2 * c.len :
            Req(h.tgt, "ADDR", HalfOf(j), "read",
                AddrHalf(c.addr + (j - 1) \div 2, HalfOf(j))) \in ReqRec
      BY <1>2, <1>4 DEF Req, ReqRec, HalfOf, AddrHalf
    <3>3. r \in Seq(ReqRec) /\ Len(r) = 2 * c.len
      <4> HIDE DEF r, c
      <4>1. 2 * c.len \in Nat
        BY <1>2
      <4> QED BY <3>1, <3>2, <4>1
    <3>4. \A i \in 1 .. 2 * c.len : r[i] = RequestAt(g, i)
      <4> SUFFICES ASSUME NEW i \in 1 .. 2 * c.len PROVE r[i] = RequestAt(g, i)
        OBVIOUS
      <4>1. AddrHalf(c.addr + (i - 1) \div 2, HalfOf(i))
              = IF i % 2 = 1 THEN c.addr + (i - 1) \div 2 ELSE 0
        BY DEF AddrHalf, HalfOf
      <4>2. r[i] = Req(h.tgt, "ADDR", HalfOf(i), "read",
                       AddrHalf(c.addr + (i - 1) \div 2, HalfOf(i)))
        BY <3>1
      <4> QED BY <1>6, <2>1, <4>1, <4>2 DEF RequestAt
    <3> QED BY <2>1, <3>3, <3>4 DEF Total
  <2>2. CASE c.op = "write"
    <3> DEFINE w == c.len \div 2
               src == Source(h)
               body == [j \in 1 .. 2 * w |->
                          LET i == (j + 1) \div 2
                              u == c.addr + 2 * (i - 1)
                          IN  IF j % 2 = 1
                              THEN Req(WordTarget(h.tgt, i, w), "DATA", "HI", "write", src[u + 1])
                              ELSE Req(WordTarget(h.tgt, i, w), "DATA", "LO", "write", src[u])]
               first == << Req(h.tgt, "ADDR", "LO", "write", AddrHalf(c.addr, "LO")),
                           Req(h.tgt, "ADDR", "HI", "write", AddrHalf(c.addr, "HI")) >>
    <3>1. w \in Nat /\ 2 * w = c.len
      BY <1>2, <2>2
    <3>2. r = first \o body
      BY <2>2, Constants DEF WriteReqs
    <3>3. src \in [Unit -> Int]
      BY SourceType
    <3> HIDE DEF src
    <3>4. ASSUME NEW j \in 1 .. 2 * w
          PROVE  LET i == (j + 1) \div 2
                     u == c.addr + 2 * (i - 1)
                 IN  /\ body[j] = IF j % 2 = 1
                        THEN Req(WordTarget(h.tgt, i, w), "DATA", "HI", "write", src[u + 1])
                        ELSE Req(WordTarget(h.tgt, i, w), "DATA", "LO", "write", src[u])
                     /\ body[j] \in ReqRec
      <4> DEFINE i == (j + 1) \div 2
                 u == c.addr + 2 * (i - 1)
      <4>1. i \in 1 .. w /\ u \in Int /\ c.addr <= u /\ u + 1 < c.addr + c.len
        BY <1>2, <3>1, SMTT(30)
      <4>2. u \in Unit /\ u + 1 \in Unit
        BY <1>2, <4>1, SMTT(30)
      <4>3. WordTarget(h.tgt, i, w) \in {"DMA", "DMA_BURST", "L2"}
        BY <1>4 DEF WordTarget
      <4>4. body[j] = IF j % 2 = 1
                      THEN Req(WordTarget(h.tgt, i, w), "DATA", "HI", "write", src[u + 1])
                      ELSE Req(WordTarget(h.tgt, i, w), "DATA", "LO", "write", src[u])
        OBVIOUS
      <4> HIDE DEF i, u, body, w
      <4>5. body[j] \in ReqRec
        BY <3>3, <4>2, <4>3, <4>4 DEF Req, ReqRec
      <4> QED BY <4>4, <4>5 DEF i, u
    <3>5. body \in Seq(ReqRec) /\ Len(body) = 2 * w
      <4>1. 2 * w \in Nat
        BY <3>1
      <4>2. \A j \in 1 .. 2 * w : body[j] \in ReqRec
        BY <3>4
      <4> HIDE DEF w
      <4> QED BY <4>1, <4>2
    <3>6. first \in Seq(ReqRec) /\ Len(first) = 2
      BY <1>2, <1>4 DEF Req, ReqRec, AddrHalf
    <3>7. r \in Seq(ReqRec) /\ Len(r) = 2 + c.len
      <4> HIDE DEF first, body, r, w, c
      <4>1. r \in Seq(ReqRec) /\ Len(r) = Len(first) + Len(body)
        BY <3>2, <3>5, <3>6, ConcatProperties
      <4> QED BY <3>1, <3>5, <3>6, <4>1
    <3>8. \A i \in 1 .. 2 + c.len : r[i] = RequestAt(g, i)
      <4> SUFFICES ASSUME NEW n \in 1 .. 2 + c.len PROVE r[n] = RequestAt(g, n)
        OBVIOUS
      <4>1. r[n] = IF n <= 2 THEN first[n] ELSE body[n - 2]
        <5> HIDE DEF first, body, r, w, c
        <5>1. /\ n \in 1 .. Len(first) + Len(body)
              /\ Len(first) = 2
          BY <3>1, <3>5, <3>6
        <5>2. r[n] = IF n <= Len(first) THEN first[n] ELSE body[n - Len(first)]
          BY <3>2, <3>5, <3>6, <5>1, ConcatProperties
        <5> QED BY <5>1, <5>2
      <4>2. CASE n <= 2
        <5>1. n = 1 \/ n = 2
          BY <4>2
        <5>2. r[n] = Req(h.tgt, "ADDR", HalfOf(n), "write", IF n = 1 THEN c.addr ELSE 0)
          <6>1. CASE n = 1
            BY <4>1, <6>1 DEF AddrHalf, HalfOf
          <6>2. CASE n = 2
            BY <4>1, <6>2 DEF AddrHalf, HalfOf
          <6> QED BY <5>1, <6>1, <6>2
        <5> HIDE DEF r
        <5> QED BY <1>6, <2>2, <4>2, <5>2 DEF RequestAt
      <4>3. CASE n > 2
        <5>1. n - 2 \in 1 .. 2 * w
          BY <1>2, <3>1, <4>3
        <5>2. (n - 2 + 1) \div 2 = (n - 1) \div 2 /\ (n - 2) % 2 = n % 2 /\ n % 2 \in {0, 1}
          BY <1>2
        <5> DEFINE i == (n - 1) \div 2
                   u == c.addr + 2 * (i - 1)
        <5>3. r[n] = IF n % 2 = 1
                     THEN Req(WordTarget(h.tgt, i, w), "DATA", "HI", "write", src[u + 1])
                     ELSE Req(WordTarget(h.tgt, i, w), "DATA", "LO", "write", src[u])
          <6> HIDE DEF body, first, r
          <6> QED BY <3>4, <4>1, <4>3, <5>1, <5>2
        <5>4. u \in Int
          BY <1>2
        <5>5. RequestAt(g, n) = Req(WordTarget(h.tgt, i, w), "DATA",
                                    IF n % 2 = 1 THEN "HI" ELSE "LO", "write",
                                    src[u + (n % 2)])
          BY <1>6, <2>2, <4>3 DEF RequestAt, src
        <5> HIDE DEF r, u, i, w
        <5>6. n % 2 = 1 => u + (n % 2) = u + 1
          OBVIOUS
        <5>7. n % 2 = 0 => u + (n % 2) = u
          BY <5>4
        <5> QED BY <5>2, <5>3, <5>5, <5>6, <5>7
      <4> QED BY <4>2, <4>3
    <3> HIDE DEF r
    <3> QED BY <2>2, <3>7, <3>8 DEF Total
  <2> QED BY <1>2, <2>1, <2>2
<1> HIDE DEF r
<1>7. r \in Seq(ReqRec) /\ Len(r) = Total(c)
  <2> DEFINE g == [h EXCEPT !.chunks = chunks]
  <2>1. g.tgt = h.tgt /\ g.chunks = chunks /\ Source(g) = Source(h)
    BY DEF HostRec, Source, Datum, Extent
  <2> HIDE DEF g
  <2> QED BY <1>6, <2>1
<1>8. /\ e \in HostRec /\ e.chunks = chunks /\ e.reqs = r
      /\ e.kind = h.kind /\ e.addr = h.addr /\ e.len = h.len
      /\ e.tgt = h.tgt /\ e.k = h.k /\ e.got = h.got
  BY <1>3, <1>7 DEF HostRec
<1> HIDE DEF e
<1>9. Source(e) = Source(h)
  BY <1>8 DEF Source, Datum, Extent
<1>10. \A i \in 1 .. Len(r) : r[i] = RequestAt(e, i)
  BY <1>6, <1>8, <1>9
<1>11. Taken(e) = 0
  BY <1>5, <1>7, <1>8 DEF Taken
<1>12. e.kind # "nop" => InStep(e)
  <2>1. \A i \in 1 .. Len(r) : Total(c) - Len(r) + i = i
    BY <1>5, <1>7
  <2> QED BY <1>5, <1>7, <1>8, <1>10, <2>1 DEF InStep
<1> QED BY <1>8, <1>11, <1>12 DEF e

-----------------------------------------------------------------------------
(* What the bridge does with a request. *)

\* The target with units lo to hi taken from S.
Overlay(S, lo, hi) == [u \in Unit |-> IF u \in lo .. hi THEN S[u] ELSE mem[u]]

\* Consecutive words of S, stored where they belong.
LEMMA StoreFacts ==
  ASSUME mem \in [Unit -> Int], NEW S, NEW a \in Int, NEW words \in Seq(Int \X Int), Spells(words, S, a)
  PROVE  StoreWords(a, words) = Overlay(S, a, a + 2 * Len(words) - 1)
<1>1. Len(words) \in Nat
  OBVIOUS
<1>2. ASSUME NEW u \in Unit, u \in a .. a + 2 * Len(words) - 1
      PROVE  words[((u - a) \div 2) + 1][((u - a) % 2) + 1] = S[u]
  <2> DEFINE q == (u - a) \div 2
             r == (u - a) % 2
  <2>1. q \in Nat /\ r \in {0, 1} /\ u = a + 2 * q + r /\ q + 1 \in 1 .. Len(words)
    <3>1. u - a \in Nat /\ u - a < 2 * Len(words) /\ u \in Int
      BY <1>1, <1>2, Constants
    <3>2. \A x, n \in Nat : x < 2 * n =>
            /\ x \div 2 \in Nat /\ x % 2 \in {0, 1}
            /\ x = 2 * (x \div 2) + (x % 2) /\ (x \div 2) + 1 \in 1 .. n
      OBVIOUS
    <3>3. q \in Nat /\ r \in {0, 1} /\ u - a = 2 * q + r /\ q + 1 \in 1 .. Len(words)
      BY <1>1, <3>1, <3>2
    <3> HIDE DEF q, r
    <3> QED BY <3>1, <3>3
  <2> HIDE DEF q, r
  <2>2. words[q + 1] = <<S[a + 2 * (q + 1 - 1)], S[a + 2 * (q + 1 - 1) + 1]>>
    BY <2>1 DEF Spells, Pair
  <2>3. q + 1 - 1 = q
    BY <2>1
  <2>4. words[q + 1] = <<S[a + 2 * q], S[a + 2 * q + 1]>>
    BY <2>2, <2>3
  <2>5. CASE r = 0
    <3>1. a + 2 * q = u /\ r + 1 = 1
      BY <2>1, <2>5
    <3>2. words[q + 1][1] = S[a + 2 * q]
      BY <2>4
    <3> QED BY <3>1, <3>2 DEF q, r
  <2>6. CASE r = 1
    <3>1. a + 2 * q + 1 = u /\ r + 1 = 2
      BY <2>1, <2>6
    <3>2. words[q + 1][2] = S[a + 2 * q + 1]
      BY <2>4
    <3> QED BY <3>1, <3>2 DEF q, r
  <2> QED BY <2>1, <2>5, <2>6
<1> QED BY <1>2 DEF StoreWords, Overlay

\* One half of a word.
LEMMA SetHalf ==
  ASSUME NEW d \in [LO : Int, HI : Int], NEW x \in Int, NEW half \in {"LO", "HI"}
  PROVE  LET e == [d EXCEPT ![half] = x]
         IN  /\ e \in [LO : Int, HI : Int]
             /\ e.LO = IF half = "LO" THEN x ELSE d.LO
             /\ e.HI = IF half = "HI" THEN x ELSE d.HI
<1>1. CASE half = "LO"
  BY <1>1
<1>2. CASE half = "HI"
  BY <1>2
<1> QED BY <1>1, <1>2

\* The request the bridge is about to serve.
LEMMA HeadRequest ==
  ASSUME IInv
  PROVE  /\ host.kind = "nop" => Head(host.reqs) = NopReq
         /\ host.kind # "nop" =>
              LET c == Head(host.chunks)
              IN  /\ c \in ChunkRec /\ c = host.chunks[1] /\ Len(host.chunks) \in Nat \ {0}
                  /\ Len(host.reqs) \in 1 .. Total(c)
                  /\ Total(c) \in Nat /\ Taken(host) \in 0 .. Total(c) - 1
                  /\ Taken(host) + Len(host.reqs) = Total(c)
                  /\ Head(host.reqs) = RequestAt(host, Taken(host) + 1)
                  /\ c.len <= chunk_max_size /\ Extent(c) \subseteq Unit
                  /\ c.addr >= MemBase \/ c.addr + c.len <= MemBase
                  /\ c.op = "write" => host.kind # "read" /\ c.len % 2 = 0
                  /\ host.kind = "write64" => c.addr = host.addr /\ c.len = 2
<1>1. CASE host.kind = "nop"
  BY <1>1 DEF IInv, InStep
<1>2. CASE host.kind # "nop"
  <2> DEFINE c == Head(host.chunks)
  <2>1. /\ host.chunks \in Seq(ChunkRec) /\ host.chunks # <<>> /\ host.reqs \in Seq(ReqRec)
        /\ Len(host.reqs) \in 1 .. Total(c)
        /\ \A i \in 1 .. Len(host.reqs) :
             host.reqs[i] = RequestAt(host, Total(c) - Len(host.reqs) + i)
        /\ Fits(host.chunks, host)
    BY <1>2 DEF IInv, BridgeTypeOK, HostRec, InStep, Asked
  <2>2. c \in ChunkRec /\ c = host.chunks[1] /\ Len(host.chunks) \in Nat \ {0}
    BY <2>1, FirstChunk
  <2>3. Total(c) \in Nat
    BY <2>2 DEF Total, ChunkRec
  <2>4. 1 \in 1 .. Len(host.chunks)
    BY <2>2
  <2>5. /\ c.len <= chunk_max_size /\ Extent(c) \subseteq Unit
        /\ c.addr >= MemBase \/ c.addr + c.len <= MemBase
        /\ c.op = "write" => host.kind # "read" /\ c.len % 2 = 0
        /\ host.kind = "write64" => c.addr = host.addr /\ c.len = 2
    <3> HIDE DEF c
    <3> QED BY <2>1, <2>2, <2>4 DEF Fits
  <2> HIDE DEF c
  <2>6. /\ Taken(host) = Total(c) - Len(host.reqs)
        /\ Taken(host) \in 0 .. Total(c) - 1
        /\ Taken(host) + Len(host.reqs) = Total(c)
    BY <2>1, <2>3 DEF Taken, c
  <2>7. Head(host.reqs) = host.reqs[1] /\ 1 \in 1 .. Len(host.reqs)
    BY <2>1, <2>3
  <2>8. Head(host.reqs) = RequestAt(host, Taken(host) + 1)
    BY <2>1, <2>6, <2>7
  <2> QED BY <1>2, <2>1, <2>2, <2>3, <2>5, <2>6, <2>8 DEF c
<1> QED BY <1>1, <1>2

\* No transfer: the bridge stays quiet.
LEMMA ServeNop ==
  ASSUME IInv, LoopServe, host.kind = "nop"
  PROVE  /\ f' \in LocalRec /\ Quiet' /\ UNCHANGED <<mem, dbg>>
         /\ resp' \in [valid : BOOLEAN, data : Int]
<1>1. Head(host.reqs) = NopReq
  BY HeadRequest
<1>2. Quiet /\ f \in LocalRec
  BY DEF IInv, BridgeTypeOK, Bridge
<1>3. /\ ServeIdle(NopReq) \/ ServeWrAddr(NopReq) \/ ServeWrData(NopReq) \/ ServeRd(NopReq)
      /\ NopReq.op = "nop" /\ NopReq.what = "DATA"
  BY <1>1 DEF LoopServe, NopReq, Req
<1>4. CASE ServeIdle(NopReq)
  <2>1. f' = Clear(f) /\ UNCHANGED <<mem, dbg>> /\ Respond(<<0, 0>>, 0)
    BY <1>3, <1>4 DEF ServeIdle
  <2>2. resp' \in [valid : BOOLEAN, data : Int]
    BY <2>1 DEF Respond
  <2>3. f' \in LocalRec /\ Quiet'
    BY <1>2, <2>1 DEF Clear, Quiet, NoBurst, LocalRec
  <2> QED BY <2>1, <2>2, <2>3
<1>5. CASE ServeWrAddr(NopReq)
  BY <1>2, <1>5 DEF ServeWrAddr, Quiet
<1>6. CASE ServeWrData(NopReq)
  BY <1>2, <1>3, <1>6 DEF ServeWrData, Respond, Quiet, NoBurst
<1>7. CASE ServeRd(NopReq)
  BY <1>3, <1>7 DEF ServeRd
<1> QED BY <1>3, <1>4, <1>5, <1>6, <1>7

\* A request is served: it stays with the host until the next tick.
LEMMA ServeFrame ==
  ASSUME IInv, LoopServe
  PROVE  /\ host' = host /\ done' = done /\ ref' = ref /\ count' = count
         /\ req_wait /\ req_wait' = req_wait /\ resp_wait' = resp_wait /\ pc' = "tick"
         /\ resp'.valid = TRUE
         /\ Pos = Taken(host) + 0
         /\ Pos' = Taken(host) + 1
<1> DEFINE q == Head(host.reqs)
<1>1. /\ UNCHANGED dtmVars /\ pc = "serve" /\ pc' = "tick" /\ req_wait
      /\ ServeIdle(q) \/ ServeWrAddr(q) \/ ServeWrData(q) \/ ServeRd(q)
  BY DEF LoopServe
<1>2. host' = host /\ done' = done /\ ref' = ref /\ count' = count
      /\ req_wait' = req_wait /\ resp_wait' = resp_wait
  BY <1>1 DEF dtmVars
<1> HIDE DEF q
<1>3. resp'.valid = TRUE
  BY <1>1 DEF ServeIdle, ServeWrAddr, ServeWrData, ServeRd, Respond
<1>4. Pos = Taken(host) + 0
  BY <1>1 DEF Pos
<1>5. Pos' = Taken(host) + 1
  BY <1>1, <1>2, <1>3 DEF Pos, Taken
<1> QED BY <1>1, <1>2, <1>3, <1>4, <1>5

LEMMA ClearFacts ==
  ASSUME f \in LocalRec
  PROVE  /\ Clear(f) \in LocalRec
         /\ Clear(f).state = f.state /\ Clear(f).rcvd_addr = f.rcvd_addr
         /\ Clear(f).odd = f.odd /\ Clear(f).data = f.data /\ Clear(f).addr = f.addr
         /\ ~Clear(f).is_incremental /\ ~Clear(f).is_burst /\ Clear(f).burst = <<>>
<1>1. <<>> \in Seq(Int \X Int)
  OBVIOUS
<1>2. Clear(f) \in LocalRec
  BY <1>1 DEF Clear, LocalRec
<1> QED BY <1>2 DEF Clear, LocalRec

\* A unit is read with two requests.
LEMMA ServeReadChunk ==
  ASSUME IInv, LoopServe, host.kind # "nop", Head(host.chunks).op = "read"
  PROVE  /\ f' \in LocalRec /\ mem' = mem /\ dbg' \in Int
         /\ resp' \in [valid : BOOLEAN, data : Int]
         /\ Bridge' /\ Answer'
<1> DEFINE c == Head(host.chunks)
           T == Taken(host)
           q == Head(host.reqs)
<1>1. /\ c \in ChunkRec /\ T \in Nat /\ T < Total(c)
      /\ q = RequestAt(host, T + 1) /\ Extent(c) \subseteq Unit
  <2>1. Total(c) \in Nat /\ T \in 0 .. Total(c) - 1
    BY HeadRequest
  <2> HIDE DEF T, c
  <2>2. T \in Nat /\ T < Total(c)
    BY <2>1
  <2> QED BY <2>2, HeadRequest DEF T, c
<1>2. /\ c.addr \in Nat /\ c.len \in Nat \ {0} /\ T < 2 * c.len /\ c.op = "read"
      /\ \A u \in Int : c.addr <= u /\ u < c.addr + c.len => u \in Unit
  BY <1>1 DEF ChunkRec, Total, Extent
<1>3. q.op = "read" /\ q.what = "ADDR"
      /\ q.data = IF (T + 1) % 2 = 1 THEN c.addr + T \div 2 ELSE 0
  <2>1. T + 1 - 1 = T
    BY <1>1
  <2> QED BY <1>1, <1>2, <2>1 DEF RequestAt, Req
<1>4. /\ ServeIdle(q) \/ ServeWrAddr(q) \/ ServeWrData(q) \/ ServeRd(q)
      /\ host' = host /\ pc' = "tick" /\ Pos' = T + 1
  BY ServeFrame DEF LoopServe
<1>5. f \in LocalRec /\ dbg \in Int /\ mem \in [Unit -> Int] /\ Reading(c, T)
  <2>1. Pos = T
    BY <1>1, ServeFrame
  <2> QED BY <1>2, <2>1 DEF IInv, BridgeTypeOK, Bridge
<1> HIDE DEF c, T, q
<1>6. CASE T % 2 = 0
  <2>1. Quiet
    BY <1>5, <1>6 DEF Reading
  <2>2. q.data = c.addr + T \div 2 /\ q.data \in Int /\ (T + 1) % 2 = 1
        /\ (T + 1) \div 2 = T \div 2
    BY <1>1, <1>2, <1>3, <1>6
  <2>3. /\ f' = StartRead(Clear(f), q) \/ f' = StartRead(f, q)
        /\ UNCHANGED <<mem, dbg>> /\ Respond(<<0, 0>>, 0)
    <3>1. CASE ServeIdle(q)
      BY <1>3, <3>1 DEF ServeIdle
    <3>2. CASE ServeWrAddr(q)
      BY <2>1, <3>2 DEF ServeWrAddr, Quiet
    <3>3. CASE ServeWrData(q)
      BY <1>3, <3>3 DEF ServeWrData
    <3>4. CASE ServeRd(q)
      BY <2>1, <3>4 DEF ServeRd, Quiet
    <3> QED BY <1>4, <3>1, <3>2, <3>3, <3>4
  <2>4. /\ f' \in LocalRec /\ f'.state = "RD" /\ f'.addr = c.addr + T \div 2
        /\ f'.rcvd_addr = 0 /\ ~f'.odd /\ ~f'.is_burst /\ f'.burst = <<>>
    <3>1. Clear(f) \in LocalRec /\ ~Clear(f).odd /\ Clear(f).rcvd_addr = 0
          /\ ~Clear(f).is_burst /\ Clear(f).burst = <<>>
      BY <1>5, <2>1, ClearFacts DEF Quiet
    <3>2. f \in LocalRec /\ ~f.odd /\ f.rcvd_addr = 0 /\ ~f.is_burst /\ f.burst = <<>>
      BY <1>5, <2>1 DEF Quiet, NoBurst
    <3> QED BY <2>2, <2>3, <3>1, <3>2, ZenonT(60) DEF StartRead, LocalRec
  <2>5. resp' \in [valid : BOOLEAN, data : Int]
    BY <2>3 DEF Respond
  <2>6. Bridge'
    <3>1. Head(host'.chunks) = c /\ host'.kind = host.kind
      BY <1>4 DEF c
    <3> QED BY <1>2, <1>4, <2>2, <2>4, <3>1 DEF Bridge, Reading, NoBurst
  <2>7. Answer'
    BY <1>4, <2>2 DEF Answer
  <2> QED BY <1>5, <2>3, <2>4, <2>5, <2>6, <2>7
<1>7. CASE T % 2 # 0
  <2>1. /\ f.state = "RD" /\ f.rcvd_addr = 0 /\ ~f.odd /\ NoBurst
        /\ f.addr = c.addr + T \div 2
    BY <1>5, <1>7 DEF Reading
  <2>2. /\ q.data = 0 /\ (T + 1) % 2 = 0 /\ (T + 1) \div 2 - 1 = T \div 2
        /\ c.addr + T \div 2 \in Unit /\ c.addr + T \div 2 \in Nat
        /\ c.addr + (T + 1) \div 2 - 1 = c.addr + T \div 2
    BY <1>1, <1>2, <1>3, <1>7
  <2> DEFINE a == c.addr + T \div 2
  <2>3. /\ f' = [Clear(f) EXCEPT !.state = "IDLE", !.addr = a]
        /\ dbg' = IF a < MemBase THEN dbg ELSE Down(a) + 2
        /\ Respond(WordAt(a), a) /\ mem' = mem
    <3>1. CASE ServeIdle(q)
      BY <2>1, <3>1 DEF ServeIdle
    <3>2. CASE ServeWrAddr(q)
      BY <2>1, <3>2 DEF ServeWrAddr
    <3>3. CASE ServeWrData(q)
      BY <2>1, <3>3 DEF ServeWrData
    <3>4. CASE ServeRd(q)
      <4>1. f.addr + q.data = a
        BY <2>1, <2>2
      <4> QED BY <3>4, <4>1 DEF ServeRd
    <3> QED BY <1>4, <3>1, <3>2, <3>3, <3>4
  <2>4. a \in Unit /\ a \in Nat
    BY <2>2
  <2> HIDE DEF a
  <2>5. f' \in LocalRec /\ Quiet'
    <3> DEFINE g == Clear(f)
    <3>1. /\ g \in LocalRec /\ f' = [g EXCEPT !.state = "IDLE", !.addr = a]
          /\ g.rcvd_addr = 0 /\ ~g.odd /\ ~g.is_burst /\ g.burst = <<>>
      BY <1>5, <2>1, <2>3, ClearFacts
    <3> HIDE DEF g
    <3>2. f' \in LocalRec
      <4>1. a \in Int
        BY <2>4
      <4>2. [g EXCEPT !.addr = a] \in LocalRec
        BY <3>1, <4>1 DEF LocalRec
      <4>3. f' = [[g EXCEPT !.addr = a] EXCEPT !.state = "IDLE"]
        BY <3>1 DEF LocalRec
      <4> QED BY <4>2, <4>3 DEF LocalRec
    <3> QED BY <3>1, <3>2 DEF LocalRec, Quiet, NoBurst
  <2>6. dbg' \in Int
    BY <1>5, <2>3, <2>4, Constants DEF Down
  <2>7. WordAt(a)[(a % 2) + 1] = mem[a]
    <3>1. Down(a) = a - (a % 2) /\ a % 2 \in {0, 1}
      BY <2>4, Constants DEF Down
    <3>2. CASE a % 2 = 0
      <4>1. Down(a) = a
        BY <2>4, <3>1, <3>2
      <4>2. WordAt(a)[1] = mem[Down(a)]
        BY DEF WordAt
      <4> QED BY <3>2, <4>1, <4>2
    <3>3. CASE a % 2 = 1
      <4>1. Down(a) + 1 = a
        BY <2>4, <3>1, <3>3
      <4>2. WordAt(a)[2] = mem[Down(a) + 1]
        BY DEF WordAt
      <4> QED BY <3>3, <4>1, <4>2
    <3> QED BY <3>1, <3>2, <3>3
  <2>8. resp' = [valid |-> TRUE, data |-> mem[a]]
    BY <2>3, <2>7 DEF Respond
  <2>9. resp' \in [valid : BOOLEAN, data : Int]
    BY <1>5, <2>4, <2>8
  <2>10. Head(host'.chunks) = c /\ host'.kind = host.kind
    BY <1>4 DEF c
  <2>11. Bridge'
    BY <1>2, <1>4, <2>2, <2>5, <2>10 DEF Bridge, Reading
  <2>12. Answer'
    <3>1. resp'.data = mem'[c.addr + (T + 1) \div 2 - 1]
      BY <2>2, <2>3, <2>8 DEF a
    <3> QED BY <1>4, <2>10, <3>1 DEF Answer
  <2> QED BY <2>3, <2>5, <2>6, <2>9, <2>11, <2>12
<1> QED BY <1>6, <1>7

\* The chunk under way writes; T of its requests are served.
LEMMA WriteContext ==
  ASSUME IInv, LoopServe, host.kind # "nop", Head(host.chunks).op = "write"
  PROVE  LET c == Head(host.chunks)
             T == Taken(host)
             q == Head(host.reqs)
         IN  /\ c \in ChunkRec /\ T \in Nat /\ T < Total(c) /\ Total(c) = 2 + c.len
             /\ c.addr \in Nat /\ c.len \in Nat \ {0} /\ c.len % 2 = 0
             /\ c.len <= chunk_max_size
             /\ Extent(c) \subseteq Unit
             /\ c.addr >= MemBase \/ c.addr + c.len <= MemBase
             /\ host.kind \in {"write", "write64"} /\ host.tgt \in {"DMA", "L2"}
             /\ q = RequestAt(host, T + 1)
             /\ ServeIdle(q) \/ ServeWrAddr(q) \/ ServeWrData(q) \/ ServeRd(q)
             /\ f \in LocalRec /\ dbg \in Int /\ mem \in [Unit -> Int]
             /\ Writing(c, T)
             /\ Source(host) \in [Unit -> Int]
<1> DEFINE c == Head(host.chunks)
           T == Taken(host)
<1>1. /\ c \in ChunkRec /\ T \in 0 .. Total(c) - 1 /\ Total(c) \in Nat
      /\ Extent(c) \subseteq Unit /\ Head(host.reqs) = RequestAt(host, T + 1)
      /\ c.addr >= MemBase \/ c.addr + c.len <= MemBase
      /\ c.len <= chunk_max_size
      /\ c.op = "write" /\ host.kind # "read" /\ c.len % 2 = 0
  BY HeadRequest
<1>2. Pos = T + 0
  BY ServeFrame
<1> HIDE DEF c, T
<1>3. c.addr \in Nat /\ c.len \in Nat \ {0} /\ Total(c) = 2 + c.len
  BY <1>1 DEF ChunkRec, Total
<1>4. T \in Nat /\ T < Total(c) /\ Pos = T
  BY <1>1, <1>2
<1>5. host.kind \in {"write", "write64"} /\ host.tgt \in {"DMA", "L2"} /\ host \in HostRec
  BY <1>1 DEF IInv, BridgeTypeOK, HostRec
<1>6. f \in LocalRec /\ dbg \in Int /\ mem \in [Unit -> Int] /\ Writing(c, T)
  BY <1>1, <1>4 DEF IInv, BridgeTypeOK, Bridge, c
<1> QED BY <1>1, <1>3, <1>4, <1>5, <1>6, SourceType DEF LoopServe, c, T

\* The address of a write arrives in two requests.
LEMMA ServeWriteAddr ==
  ASSUME IInv, LoopServe, host.kind # "nop", Head(host.chunks).op = "write",
         Taken(host) < 2
  PROVE  /\ f' \in LocalRec /\ UNCHANGED <<mem, dbg>>
         /\ resp' \in [valid : BOOLEAN, data : Int]
         /\ Bridge'
<1> DEFINE c == Head(host.chunks)
           T == Taken(host)
           q == Head(host.reqs)
<1>1. /\ c \in ChunkRec /\ T \in Nat /\ Total(c) = 2 + c.len /\ c.op = "write"
      /\ c.addr \in Nat /\ c.len \in Nat \ {0} /\ c.len % 2 = 0
      /\ host.tgt \in {"DMA", "L2"} /\ q = RequestAt(host, T + 1)
      /\ ServeIdle(q) \/ ServeWrAddr(q) \/ ServeWrData(q) \/ ServeRd(q)
      /\ f \in LocalRec /\ Writing(c, T)
  BY WriteContext
<1>2. T = 0 \/ T = 1
  BY <1>1
<1>3. /\ q.op = "write" /\ q.what = "ADDR" /\ q.tgt # "DMA_BURST"
      /\ q.half = HalfOf(T + 1) /\ q.data = IF T + 1 = 1 THEN c.addr ELSE 0
  BY <1>1, <1>2 DEF RequestAt, Req
<1>4. host' = host /\ pc' = "tick" /\ Pos' = T + 1
  BY ServeFrame
<1>5. Head(host'.chunks) = c /\ host'.kind = host.kind
  BY <1>4
<1> HIDE DEF c, T, q
<1>6. Total(c) >= 4
  BY <1>1
<1>7. f.data \in [LO : Int, HI : Int]
  BY <1>1 DEF LocalRec
<1>8. CASE T = 0
  <2>1. Quiet
    BY <1>1, <1>8 DEF Writing
  <2>2. q.half = "LO" /\ q.data = c.addr /\ IsLowAddr(q)
    BY <1>3, <1>8 DEF HalfOf, IsLowAddr
  <2>3. /\ f' = TakeAddr(Clear(f), q) \/ f' = TakeAddr(f, q)
        /\ UNCHANGED <<mem, dbg>> /\ Respond(<<0, 0>>, 0)
    <3>1. CASE ServeIdle(q)
      BY <1>3, <3>1 DEF ServeIdle
    <3>2. CASE ServeWrAddr(q)
      BY <2>1, <3>2 DEF ServeWrAddr, Quiet
    <3>3. CASE ServeWrData(q)
      BY <1>3, <3>3 DEF ServeWrData
    <3>4. CASE ServeRd(q)
      BY <2>1, <3>4 DEF ServeRd, Quiet
    <3> QED BY <1>1, <3>1, <3>2, <3>3, <3>4
  <2>4. PICK g : /\ g \in LocalRec /\ g.state \in {"IDLE", "WR_DATA"} /\ g.rcvd_addr = 0
                 /\ ~g.odd /\ ~g.is_burst /\ g.burst = <<>> /\ g.data = f.data
                 /\ f' = TakeAddr(g, q)
    <3>1. /\ Clear(f) \in LocalRec /\ Clear(f).state \in {"IDLE", "WR_DATA"}
          /\ Clear(f).rcvd_addr = 0 /\ ~Clear(f).odd /\ ~Clear(f).is_burst
          /\ Clear(f).burst = <<>> /\ Clear(f).data = f.data
      BY <1>1, <2>1, ClearFacts DEF Quiet
    <3>2. /\ f \in LocalRec /\ f.state \in {"IDLE", "WR_DATA"}
          /\ f.rcvd_addr = 0 /\ ~f.odd /\ ~f.is_burst /\ f.burst = <<>>
      BY <1>1, <2>1 DEF Quiet, NoBurst
    <3> QED BY <2>3, <3>1, <3>2
  <2> DEFINE d == [g.data EXCEPT !["LO"] = q.data]
  <2>5. d \in [LO : Int, HI : Int] /\ d.LO = c.addr
    BY <1>1, <1>7, <2>2, <2>4, SetHalf
  <2>6. f' = [g EXCEPT !.data = d, !.state = "WR_ADDR", !.rcvd_addr = @ + 1]
    BY <2>2, <2>4 DEF TakeAddr
  <2> HIDE DEF d
  <2>7. /\ f' \in LocalRec /\ f'.state = "WR_ADDR" /\ f'.rcvd_addr = 1 /\ ~f'.odd
        /\ ~f'.is_burst /\ f'.burst = <<>> /\ f'.data.LO = c.addr
    <3>1. g.rcvd_addr + 1 = 1
      BY <2>4
    <3>2. [g EXCEPT !.data = d] \in LocalRec
      BY <2>4, <2>5 DEF LocalRec
    <3>3. [[g EXCEPT !.data = d] EXCEPT !.state = "WR_ADDR"] \in LocalRec
      BY <3>2 DEF LocalRec
    <3>4. f' = [[[g EXCEPT !.data = d] EXCEPT !.state = "WR_ADDR"] EXCEPT !.rcvd_addr = 1]
      BY <2>4, <2>6, <3>1 DEF LocalRec
    <3>5. f' \in LocalRec
      BY <3>3, <3>4 DEF LocalRec
    <3> QED BY <2>4, <2>5, <3>4, <3>5 DEF LocalRec
  <2>9. Bridge'
    BY <1>1, <1>4, <1>5, <1>8, <2>7 DEF Bridge, Writing, NoBurst
  <2> QED BY <2>3, <2>7, <2>9 DEF Respond
<1>9. CASE T = 1
  <2>1. f.state = "WR_ADDR" /\ f.rcvd_addr = 1 /\ ~f.odd /\ NoBurst /\ f.data.LO = c.addr
    BY <1>1, <1>9 DEF Writing
  <2>2. q.half = "HI" /\ q.data = 0 /\ ~IsLowAddr(q)
    BY <1>3, <1>9 DEF HalfOf, IsLowAddr
  <2>3. f' = TakeAddr(Clear(f), q) /\ UNCHANGED <<mem, dbg>> /\ Respond(<<0, 0>>, 0)
    <3>1. CASE ServeIdle(q)
      BY <2>1, <3>1 DEF ServeIdle
    <3>2. CASE ServeWrAddr(q)
      BY <1>3, <3>2 DEF ServeWrAddr
    <3>3. CASE ServeWrData(q)
      BY <2>1, <3>3 DEF ServeWrData
    <3>4. CASE ServeRd(q)
      BY <2>1, <3>4 DEF ServeRd
    <3> QED BY <1>1, <3>1, <3>2, <3>3, <3>4
  <2> DEFINE g == Clear(f)
             d == [g.data EXCEPT !["HI"] = q.data]
  <2>4. /\ g \in LocalRec /\ g.state = "WR_ADDR" /\ g.rcvd_addr = 1 /\ ~g.odd
        /\ ~g.is_burst /\ g.burst = <<>> /\ ~g.is_incremental /\ g.data = f.data
    BY <1>1, <2>1, ClearFacts
  <2>5. d \in [LO : Int, HI : Int] /\ d.LO = c.addr /\ d.HI = 0
    <3> HIDE DEF g
    <3> QED BY <1>7, <2>1, <2>2, <2>4, SetHalf
  <2>6. f' = [g EXCEPT !.data = d, !.addr = Addr(d), !.state = "WR_DATA", !.rcvd_addr = 0]
    BY <2>2, <2>3, <2>4 DEF TakeAddr
  <2> HIDE DEF d, g
  <2>7. Addr(d) = c.addr
    BY <1>1, <2>5 DEF Addr
  <2>8. /\ f' \in LocalRec /\ f'.state = "WR_DATA" /\ f'.rcvd_addr = 0 /\ ~f'.odd
        /\ ~f'.is_burst /\ f'.burst = <<>> /\ f'.addr = c.addr /\ ~f'.is_incremental
    BY <1>1, <2>4, <2>5, <2>6, <2>7 DEF LocalRec
  <2>10. Bridge'
    <3>1. Pos' = 2 /\ 2 < Total(c) /\ Total(c) # 2
      BY <1>1, <1>4, <1>6, <1>9
    <3>2. \A u \in c.addr .. f'.addr - 1 : FALSE
      BY <1>1, <2>8
    <3>3. (2 - 2) \div 2 = 0 /\ Len(<<>>) = 0 /\ 2 % 2 = 0
      OBVIOUS
    <3>4. Words(c, 0)'
      <4>1. c' = c
        BY <1>5 DEF c
      <4>2. \A i \in 1 .. Len(f'.burst) : FALSE
        BY <2>8
      <4>3. Len(f'.burst) = 0 /\ 0 - 0 = 0 /\ c.addr + 2 * 0 = c.addr
        BY <1>1, <2>8
      <4> QED BY <2>8, <3>2, <4>1, <4>2, <4>3 DEF Words, Spells
    <3>5. Writing(c, 2)'
      <4>1. c' = c
        BY <1>5 DEF c
      <4>2. Total(c)' = Total(c)
        BY <4>1 DEF Total
      <4>3. f'.odd = (2 % 2 = 1)
        BY <2>8, <3>3 DEF LocalRec
      <4>4. 2 < Total(c)' /\ Total(c)' # 2 /\ 2 # 0 /\ 2 # 1
        BY <3>1, <4>2
      <4> QED BY <2>8, <3>4, <4>3, <4>4 DEF Writing
    <3> QED BY <1>1, <1>4, <1>5, <3>1, <3>5 DEF Bridge, c
  <2> QED BY <2>3, <2>8, <2>10 DEF Respond
<1> QED BY <1>2, <1>8, <1>9

\* Every later request of a write brings half a word.
LEMMA ServeData ==
  ASSUME IInv, LoopServe, host.kind # "nop", Head(host.chunks).op = "write",
         ~(Taken(host) < 2)
  PROVE  LET c == Head(host.chunks)
             T == Taken(host)
             q == Head(host.reqs)
             half == IF T % 2 = 0 THEN "HI" ELSE "LO"
             d == [f.data EXCEPT ![half] = q.data]
             g == [f EXCEPT !.data = d, !.odd = ~@]
         IN  /\ f.state = "WR_DATA" /\ f.rcvd_addr = 0 /\ f.odd = (T % 2 = 1)
             /\ f.odd => f.data.HI = Source(host)[c.addr + (T - 3) + 1]
             /\ Words(c, (T - 2) \div 2)
             /\ q.tgt = WordTarget(host.tgt, T \div 2, c.len \div 2)
             /\ q.data = Source(host)[c.addr + 2 * (T \div 2 - 1) + ((T + 1) % 2)]
             /\ q.data \in Int
             /\ IF f.odd THEN WriteWord(g, q, <<d.LO, d.HI>>)
                ELSE f' = g /\ UNCHANGED <<mem, dbg>>
             /\ Respond(<<0, 0>>, 0)
<1> DEFINE c == Head(host.chunks)
           T == Taken(host)
           q == Head(host.reqs)
           half == IF T % 2 = 0 THEN "HI" ELSE "LO"
           d == [f.data EXCEPT ![half] = q.data]
           g == [f EXCEPT !.data = d, !.odd = ~@]
<1>1. /\ c \in ChunkRec /\ T \in Nat /\ T < Total(c) /\ Total(c) = 2 + c.len /\ c.op = "write"
      /\ c.addr \in Nat /\ c.len \in Nat \ {0} /\ c.len % 2 = 0
      /\ Extent(c) \subseteq Unit /\ q = RequestAt(host, T + 1)
      /\ ServeIdle(q) \/ ServeWrAddr(q) \/ ServeWrData(q) \/ ServeRd(q)
      /\ f \in LocalRec /\ Writing(c, T) /\ Source(host) \in [Unit -> Int]
  BY WriteContext
<1>2. T > 1 /\ T # Total(c)
  BY <1>1
<1>3. /\ f.state = "WR_DATA" /\ f.rcvd_addr = 0 /\ f.odd = (T % 2 = 1)
      /\ f.odd => f.data.HI = Source(host)[c.addr + (T - 3) + 1]
      /\ Words(c, (T - 2) \div 2)
  <2> HIDE DEF c, T
  <2> QED BY <1>1, <1>2 DEF Writing
<1>4. T + 1 > 2 /\ ~(T + 1 <= 2) /\ T + 1 - 1 = T /\ T % 2 \in {0, 1}
      /\ (T + 1) % 2 = 1 - (T % 2)
  BY <1>1, <1>2
<1>5. /\ q.op = "write" /\ q.what = "DATA" /\ q.half = half
      /\ q.tgt = WordTarget(host.tgt, T \div 2, c.len \div 2)
      /\ q.data = Source(host)[c.addr + 2 * (T \div 2 - 1) + ((T + 1) % 2)]
  <2>1. q = Req(WordTarget(host.tgt, T \div 2, c.len \div 2), "DATA",
                IF (T + 1) % 2 = 1 THEN "HI" ELSE "LO", "write",
                Source(host)[c.addr + 2 * (T \div 2 - 1) + ((T + 1) % 2)])
    <3> HIDE DEF T, q
    <3> QED BY <1>1, <1>4, SMTT(30) DEF RequestAt
  <2>2. half = IF (T + 1) % 2 = 1 THEN "HI" ELSE "LO"
    <3> HIDE DEF T
    <3>1. T % 2 = 0 <=> (T + 1) % 2 = 1
      BY <1>1
    <3> QED BY <3>1
  <2> HIDE DEF T, q, half
  <2> QED BY <2>1, <2>2 DEF Req
<1>6. q.data \in Int
  <2> DEFINE u == c.addr + 2 * (T \div 2 - 1) + ((T + 1) % 2)
  <2>1. u \in Int /\ c.addr <= u /\ u <= c.addr + c.len - 1
    <3> HIDE DEF T, c
    <3> QED BY <1>1, <1>2
  <2> HIDE DEF u, c, T, q
  <2>2. u \in Unit
    BY <1>1, <2>1 DEF Extent
  <2>3. q.data = Source(host)[u]
    BY <1>5 DEF u
  <2> QED BY <1>1, <2>2, <2>3
<1>7. ServeWrData(q)
  BY <1>1, <1>3 DEF ServeIdle, ServeWrAddr, ServeRd
<1>8. /\ IF f.odd THEN WriteWord(g, q, <<d.LO, d.HI>>)
         ELSE f' = g /\ UNCHANGED <<mem, dbg>>
      /\ Respond(<<0, 0>>, 0)
  <2> HIDE DEF q, half, T
  <2> QED BY <1>5, <1>7 DEF ServeWrData
<1> QED BY <1>3, <1>5, <1>6, <1>8

LEMMA ServeWriteHalf ==
  ASSUME IInv, LoopServe, host.kind # "nop", Head(host.chunks).op = "write",
         ~(Taken(host) < 2), Taken(host) % 2 = 0
  PROVE  /\ f' \in LocalRec /\ UNCHANGED <<mem, dbg>>
         /\ resp' \in [valid : BOOLEAN, data : Int]
         /\ Bridge'
<1> DEFINE c == Head(host.chunks)
           T == Taken(host)
           q == Head(host.reqs)
           d == [f.data EXCEPT !["HI"] = q.data]
           g == [f EXCEPT !.data = d, !.odd = ~@]
<1>1. /\ f.state = "WR_DATA" /\ f.rcvd_addr = 0 /\ f.odd = (T % 2 = 1)
      /\ Words(c, (T - 2) \div 2)
      /\ q.data = Source(host)[c.addr + 2 * (T \div 2 - 1) + ((T + 1) % 2)]
      /\ q.data \in Int
      /\ IF f.odd THEN TRUE ELSE f' = g /\ UNCHANGED <<mem, dbg>>
      /\ Respond(<<0, 0>>, 0)
  BY ServeData
<1>2. /\ c \in ChunkRec /\ T \in Nat /\ T < Total(c) /\ Total(c) = 2 + c.len
      /\ c.addr \in Nat /\ c.len \in Nat \ {0} /\ c.len % 2 = 0
      /\ f \in LocalRec
  BY WriteContext
<1>3. host' = host /\ Pos' = T + 1
  BY ServeFrame
<1>4. c' = c
  BY <1>3
<1> HIDE DEF c, T, q
<1>5. ~f.odd /\ T % 2 = 0 /\ T > 1
  <2>1. T % 2 = 0 /\ ~(T < 2)
    BY DEF T
  <2>2. T > 1 /\ ~(T % 2 = 1)
    BY <1>2, <2>1
  <2>3. ~f.odd
    BY <1>1, <2>2, Zenon
  <2> QED BY <2>1, <2>2, <2>3
<1>6. d \in [LO : Int, HI : Int] /\ d.HI = q.data
  BY <1>1, <1>2, SetHalf DEF LocalRec
<1>7. f' = [f EXCEPT !.data = d, !.odd = TRUE] /\ UNCHANGED <<mem, dbg>>
  BY <1>1, <1>5
<1> HIDE DEF d
<1>8. /\ f' \in LocalRec /\ f'.state = "WR_DATA" /\ f'.rcvd_addr = 0 /\ f'.odd
      /\ f'.data = d /\ f'.addr = f.addr /\ f'.burst = f.burst
      /\ f'.is_burst = f.is_burst /\ f'.is_incremental = f.is_incremental
  BY <1>1, <1>2, <1>6, <1>7 DEF LocalRec
<1>9. /\ T + 1 > 1 /\ T + 1 < Total(c) /\ T + 1 # Total(c) /\ T + 1 # 0 /\ T + 1 # 1
      /\ (T + 1) % 2 = 1 /\ ((T + 1) - 2) \div 2 = (T - 2) \div 2
      /\ c.addr + 2 * (T \div 2 - 1) + ((T + 1) % 2) = c.addr + ((T + 1) - 3) + 1
  BY <1>2, <1>5
<1>10. ASSUME NEW k, Words(c, k) PROVE Words(c, k)'
  <2>1. Source(host)' = Source(host)
    BY <1>3
  <2> QED BY <1>4, <1>7, <1>8, <1>10, <1>3, <2>1 DEF Words, Spells, Special
<1>11. f'.data.HI = Source(host)'[c.addr + ((T + 1) - 3) + 1]
  BY <1>1, <1>3, <1>6, <1>8, <1>9 DEF Source
<1> DEFINE p == T + 1
<1>12. Writing(c, p)'
  <2>1. p' = p /\ T' = T /\ Total(c)' = Total(c)
    BY <1>3, <1>4 DEF T, Total
  <2>2. f'.odd = (p % 2 = 1)
    BY <1>8, <1>9 DEF LocalRec
  <2>3. Words(c, (T - 2) \div 2)'
    <3> DEFINE k == (T - 2) \div 2
    <3>1. k' = k
      BY <2>1
    <3> HIDE DEF k
    <3> QED BY <1>1, <1>10, <3>1 DEF k
  <2>4. (p - 2) \div 2 = (T - 2) \div 2
    BY <1>9
  <2>5. p > 1 /\ p < Total(c) /\ p # Total(c) /\ p # 0 /\ p # 1
    BY <1>9
  <2>6. f'.data.HI = Source(host)'[c.addr + (p - 3) + 1]
    BY <1>11
  <2> HIDE DEF p
  <2> QED BY <1>4, <1>8, <2>1, <2>2, <2>3, <2>4, <2>5, <2>6 DEF Writing
<1>13. Bridge'
  <2>1. p' = Pos' /\ host'.kind = host.kind /\ c'.op = "write"
    BY <1>3, <1>4 DEF T, c
  <2> HIDE DEF p
  <2> QED BY <1>12, <2>1 DEF Bridge, c
<1> QED BY <1>1, <1>7, <1>8, <1>13 DEF Respond

\* Units lo to hi of the target take what the transfer sends.
Overlaid(lo, hi) == mem' = Overlay(Source(host), lo, hi)

\* The three ways a word goes: it is stored, it is stored with those kept in
\* burst_data, or it is kept there.
StoresWord(word) ==
  /\ ~f.is_burst
  /\ mem' = StoreWords(f.addr, <<word>>)
  /\ dbg' \in Int /\ (f.addr >= MemBase => dbg' = f.addr + 2)
  /\ f'.addr = f.addr + 2 /\ ~f'.is_burst /\ f'.burst = <<>>

StoresBurst(word) ==
  /\ f.is_burst
  /\ mem' = StoreWords(f.addr, Append(f.burst, word))
  /\ dbg' = dbg /\ ~f'.is_burst /\ f'.burst = <<>>

KeepsWord(word) ==
  /\ host.tgt = "DMA" /\ f.addr >= MemBase /\ ~Special(f.addr)
  /\ mem' = mem /\ dbg' = dbg
  /\ f'.addr = f.addr /\ f'.is_burst /\ f'.burst = Append(f.burst, word)

\* The second half of a word arrives.
LEMMA ServeWord ==
  ASSUME IInv, LoopServe, host.kind # "nop", Head(host.chunks).op = "write",
         ~(Taken(host) < 2), Taken(host) % 2 # 0
  PROVE  LET c == Head(host.chunks)
             k == (Taken(host) - 2) \div 2
             x == c.addr + 2 * k
             word == Pair(Source(host), x)
             last == Taken(host) + 1 = Total(c)
         IN  /\ f \in LocalRec /\ word \in Int \X Int
             /\ f' \in LocalRec /\ f'.state = "WR_DATA" /\ f'.rcvd_addr = 0 /\ ~f'.odd
             /\ f'.is_incremental
             /\ resp' \in [valid : BOOLEAN, data : Int]
             /\ Words(c, k) /\ k \in Nat /\ 2 * k + 2 <= c.len
             /\ last => 2 * k + 2 = c.len
             /\ ~last => 2 * k + 4 <= c.len
             /\ \/ StoresWord(word)
                \/ last /\ StoresBurst(word)
                \/ ~last /\ KeepsWord(word)
<1> DEFINE c == Head(host.chunks)
           T == Taken(host)
           q == Head(host.reqs)
           S == Source(host)
           d == [f.data EXCEPT !["LO"] = q.data]
           g == [f EXCEPT !.data = d, !.odd = ~@]
           k == (T - 2) \div 2
           x == c.addr + 2 * k
           last == T + 1 = Total(c)
           word == Pair(S, x)
<1>1. /\ f.state = "WR_DATA" /\ f.rcvd_addr = 0 /\ f.odd = (T % 2 = 1)
      /\ f.odd => f.data.HI = S[c.addr + (T - 3) + 1]
      /\ Words(c, k)
      /\ q.tgt = WordTarget(host.tgt, T \div 2, c.len \div 2)
      /\ q.data = S[c.addr + 2 * (T \div 2 - 1) + ((T + 1) % 2)]
      /\ q.data \in Int
      /\ IF f.odd THEN WriteWord(g, q, <<d.LO, d.HI>>) ELSE TRUE
      /\ Respond(<<0, 0>>, 0)
  BY ServeData
<1>2. /\ c \in ChunkRec /\ T \in Nat /\ T < Total(c) /\ Total(c) = 2 + c.len
      /\ c.addr \in Nat /\ c.len \in Nat \ {0} /\ c.len % 2 = 0 /\ Extent(c) \subseteq Unit
      /\ f \in LocalRec /\ S \in [Unit -> Int] /\ dbg \in Int /\ host.tgt \in {"DMA", "L2"}
  BY WriteContext
<1>3. host.tgt = "L2" => c.len = 2
  BY HeadRequest DEF IInv, Asked
<1>4. T % 2 # 0 /\ ~(T < 2)
  OBVIOUS
<1> HIDE DEF c, T, q, S
<1>5. /\ T % 2 = 1 /\ k \in Nat /\ T \div 2 = k + 1 /\ c.addr + (T - 3) + 1 = x + 1
      /\ c.addr + 2 * (T \div 2 - 1) + ((T + 1) % 2) = x
      /\ 2 * k + 2 <= c.len /\ x \in Nat
      /\ last => 2 * k + 2 = c.len
      /\ ~last => 2 * k + 4 <= c.len
  <2>1. PICK m \in Nat : T = 2 * m + 3
    <3>1. T \in Nat /\ T % 2 = 1 /\ T >= 3
      BY <1>2, <1>4
    <3>2. (T - 3) \div 2 \in Nat /\ T = 2 * ((T - 3) \div 2) + 3
      BY <3>1
    <3> QED BY <3>2
  <2>2. k = m /\ T \div 2 = m + 1 /\ (T + 1) % 2 = 0 /\ T % 2 = 1
    BY <2>1
  <2>3. PICK w \in Nat : c.len = 2 * w
    BY <1>2
  <2>4. /\ 2 * m + 2 <= c.len
        /\ last => 2 * m + 2 = c.len
        /\ ~last => 2 * m + 4 <= c.len
    BY <1>2, <2>1, <2>3
  <2> HIDE DEF last, k
  <2> QED BY <1>2, <2>1, <2>2, <2>4
<1>6. q.tgt = IF ~last /\ host.tgt = "DMA" THEN "DMA_BURST" ELSE host.tgt
  <2>1. k + 1 < c.len \div 2 <=> ~last
    <3>1. PICK w \in Nat : c.len = 2 * w
      BY <1>2
    <3> HIDE DEF k, last
    <3> QED BY <1>5, <3>1
  <2> HIDE DEF k, last
  <2> QED BY <1>1, <1>5, <2>1 DEF WordTarget
<1>7. host.tgt = "L2" => last
  <2> HIDE DEF k, last
  <2> QED BY <1>3, <1>5
<1>8. /\ d \in [LO : Int, HI : Int] /\ <<d.LO, d.HI>> = word /\ f.odd
      /\ x \in Unit /\ x + 1 \in Unit
  <2>1. f.odd
    BY <1>1, <1>5
  <2>2. f.data \in [LO : Int, HI : Int]
    BY <1>2 DEF LocalRec
  <2>3. d \in [LO : Int, HI : Int] /\ d.LO = q.data /\ d.HI = f.data.HI
    BY <1>1, <2>2, SetHalf
  <2>4. x \in Unit /\ x + 1 \in Unit
    <3> HIDE DEF last, k
    <3> QED BY <1>2, <1>5 DEF Extent
  <2> HIDE DEF d, x, k
  <2> QED BY <1>1, <1>5, <2>1, <2>3, <2>4 DEF Pair
<1>9. word \in Int \X Int
  <2> HIDE DEF x
  <2> QED BY <1>2, <1>8 DEF Pair
<1>10. WriteWord(g, q, word)
  BY <1>1, <1>8
<1>11. /\ g \in LocalRec /\ g.state = "WR_DATA" /\ g.rcvd_addr = 0 /\ ~g.odd
       /\ g.addr = f.addr /\ g.burst = f.burst /\ g.is_burst = f.is_burst
       /\ g.is_incremental = f.is_incremental
  <2> HIDE DEF d
  <2>1. g = [f EXCEPT !.data = d, !.odd = FALSE]
    BY <1>8
  <2> HIDE DEF g
  <2> QED BY <1>1, <1>2, <1>8, <2>1 DEF LocalRec
<1> HIDE DEF g, d, word, k, x, last
<1>12. /\ f.is_burst <=> f.burst # <<>>
       /\ f.is_burst => host.tgt = "DMA" /\ f.addr >= MemBase /\ ~Special(f.addr)
       /\ f.is_incremental /\ ~f.is_burst /\ f.addr >= MemBase => dbg = f.addr
       /\ f.addr \in Int /\ f.burst \in Seq(Int \X Int) /\ f.is_burst \in BOOLEAN
  BY <1>1, <1>2 DEF Words, LocalRec
<1> DEFINE buffered == f.addr >= MemBase /\ ~Special(f.addr) /\ q.tgt = "DMA_BURST"
           burst == buffered \/ (f.is_burst /\ q.tgt # "DMA")
           kept == IF buffered THEN Append(f.burst, word)
                   ELSE IF q.tgt = "DMA" /\ f.addr >= MemBase /\ ~Special(f.addr)
                        THEN <<>> ELSE f.burst
<1>13. /\ f' = [g EXCEPT !.is_burst = burst, !.burst = kept,
                         !.addr = IF burst THEN @ ELSE @ + 2, !.is_incremental = TRUE]
       /\ \/ /\ f.addr < MemBase
             /\ mem' = StoreWords(f.addr, <<word>>) /\ dbg' = dbg
          \/ /\ Special(f.addr)
             /\ mem' = StoreWords(f.addr, <<word>>) /\ dbg' = f.addr + 2
          \/ /\ f.addr >= MemBase /\ ~Special(f.addr) /\ q.tgt = "DMA"
             /\ IF f.is_burst
                THEN mem' = StoreWords(f.addr, Append(f.burst, word)) /\ dbg' = dbg
                ELSE LET at == IF f.is_incremental THEN dbg ELSE f.addr
                     IN  mem' = StoreWords(at, <<word>>) /\ dbg' = at + 2
          \/ buffered /\ mem' = mem /\ dbg' = dbg
  BY <1>10, <1>11 DEF WriteWord, DmaDebugWrite, DoWriteBurst, Special
<1>14. kept \in Seq(Int \X Int) /\ burst \in BOOLEAN
  <2>1. Append(f.burst, word) \in Seq(Int \X Int)
    BY <1>9, <1>12, AppendProperties
  <2>2. <<>> \in Seq(Int \X Int)
    OBVIOUS
  <2> QED BY <1>12, <2>1, <2>2
<1>15. /\ f' \in LocalRec /\ f'.state = "WR_DATA" /\ f'.rcvd_addr = 0 /\ ~f'.odd
       /\ f'.is_incremental /\ f'.is_burst = burst /\ f'.burst = kept
       /\ f'.addr = IF burst THEN f.addr ELSE f.addr + 2
  <2> HIDE DEF burst, kept
  <2> DEFINE a == IF burst THEN g.addr ELSE g.addr + 2
  <2>1. a \in Int /\ a = IF burst THEN f.addr ELSE f.addr + 2
    BY <1>11, <1>12
  <2>2. f' = [g EXCEPT !.is_burst = burst, !.burst = kept, !.addr = a, !.is_incremental = TRUE]
    BY <1>13
  <2> HIDE DEF a
  <2> QED BY <1>11, <1>14, <2>1, <2>2 DEF LocalRec
<1>16. resp' \in [valid : BOOLEAN, data : Int]
  BY <1>1 DEF Respond
<1>17. \/ StoresWord(word)
       \/ last /\ StoresBurst(word)
       \/ ~last /\ KeepsWord(word)
  <2>1. ASSUME f.addr < MemBase, mem' = StoreWords(f.addr, <<word>>), dbg' = dbg
        PROVE  /\ ~f.is_burst /\ dbg' \in Int /\ (f.addr >= MemBase => dbg' = f.addr + 2)
               /\ f'.addr = f.addr + 2 /\ ~f'.is_burst /\ f'.burst = <<>>
    <3>1. ~(f.addr >= MemBase)
      <4>1. f.addr \in Int /\ MemBase \in Int
        BY <1>12, Constants
      <4> QED BY <2>1, <4>1
    <3> QED BY <1>2, <1>12, <1>15, <2>1, <3>1
  <2>2. ASSUME Special(f.addr), mem' = StoreWords(f.addr, <<word>>), dbg' = f.addr + 2
        PROVE  /\ ~f.is_burst /\ dbg' \in Int /\ (f.addr >= MemBase => dbg' = f.addr + 2)
               /\ f'.addr = f.addr + 2 /\ ~f'.is_burst /\ f'.burst = <<>>
    BY <1>12, <1>15, <2>2
  <2>3. ASSUME f.addr >= MemBase, ~Special(f.addr), q.tgt = "DMA", f.is_burst
        PROVE  last /\ ~f'.is_burst /\ f'.burst = <<>>
    BY <1>6, <1>12, <1>15, <2>3
  <2>4. ASSUME f.addr >= MemBase, ~Special(f.addr), q.tgt = "DMA", ~f.is_burst,
               LET at == IF f.is_incremental THEN dbg ELSE f.addr
               IN  mem' = StoreWords(at, <<word>>) /\ dbg' = at + 2
        PROVE  /\ mem' = StoreWords(f.addr, <<word>>)
               /\ dbg' \in Int /\ dbg' = f.addr + 2
               /\ f'.addr = f.addr + 2 /\ ~f'.is_burst /\ f'.burst = <<>>
    BY <1>12, <1>15, <2>4
  <2>5. ASSUME buffered
        PROVE  /\ ~last /\ host.tgt = "DMA" /\ f.addr >= MemBase /\ ~Special(f.addr)
               /\ f'.addr = f.addr /\ f'.is_burst /\ f'.burst = Append(f.burst, word)
    BY <1>2, <1>6, <1>15, <2>5
  <2> HIDE DEF buffered, burst, kept
  <2> QED BY <1>13, <2>1, <2>2, <2>3, <2>4, <2>5 DEF StoresWord, StoresBurst, KeepsWord
<1>18. word = Pair(Source(host), c.addr + 2 * ((T - 2) \div 2))
  BY DEF word, x, k, S
<1>19. last = (T + 1 = Total(c))
  BY DEF last
<1>20. /\ Words(c, (T - 2) \div 2) /\ (T - 2) \div 2 \in Nat
       /\ 2 * ((T - 2) \div 2) + 2 <= c.len
       /\ last => 2 * ((T - 2) \div 2) + 2 = c.len
       /\ ~last => 2 * ((T - 2) \div 2) + 4 <= c.len
  BY <1>1, <1>5 DEF k
<1> QED BY <1>2, <1>9, <1>15, <1>16, <1>17, <1>18, <1>19, <1>20 DEF c, T

\* One more word.
LEMMA SpellsOneMore ==
  ASSUME NEW burst \in Seq(Int \X Int), NEW S, NEW a \in Int, NEW word \in Int \X Int,
         Spells(burst, S, a), word = Pair(S, a + 2 * Len(burst))
  PROVE  LET words == Append(burst, word)
         IN  /\ words \in Seq(Int \X Int) /\ Len(words) = Len(burst) + 1
             /\ Spells(words, S, a)
<1> DEFINE words == Append(burst, word)
           B == Len(burst)
<1>1. B \in Nat
  OBVIOUS
<1>2. /\ words \in Seq(Int \X Int) /\ Len(words) = B + 1
      /\ \A i \in 1 .. B : words[i] = burst[i]
      /\ words[B + 1] = word
  BY <1>1, AppendProperties
<1>3. a + 2 * (B + 1 - 1) = a + 2 * B
  BY <1>1
<1>4. \A i \in 1 .. B : burst[i] = Pair(S, a + 2 * (i - 1))
  BY DEF Spells
<1>5. word = Pair(S, a + 2 * (B + 1 - 1))
  BY <1>3
<1> HIDE DEF words, B
<1>7. ASSUME NEW i \in 1 .. B + 1
      PROVE  words[i] = Pair(S, a + 2 * (i - 1))
  <2>1. i \in 1 .. B \/ i = B + 1
    BY <1>1
  <2>2. CASE i \in 1 .. B
    BY <1>2, <1>4, <2>2
  <2>3. CASE i = B + 1
    <3>1. words[B + 1] = Pair(S, a + 2 * (B + 1 - 1))
      BY <1>2, <1>5
    <3>2. i \in Int /\ i = B + 1
      BY <2>3
    <3> QED BY <1>1, <3>1, <3>2
  <2> QED BY <2>1, <2>2, <2>3
<1>8. Spells(words, S, a)
  BY <1>2, <1>7 DEF Spells
<1> QED BY <1>2, <1>8 DEF words, B

LEMMA DirectStore ==
  ASSUME mem \in [Unit -> Int], NEW x \in Int, NEW word \in Int \X Int,
         word = Pair(Source(host), x), StoresWord(word), f.addr = x
  PROVE  Overlaid(x, x + 1)
<1> DEFINE S == Source(host)
           words == <<word>>
<1>1. words \in Seq(Int \X Int) /\ Len(words) = 1 /\ words[1] = word
  OBVIOUS
<1>2. x + 2 * (1 - 1) = x
  OBVIOUS
<1>3. words[1] = Pair(S, x + 2 * (1 - 1))
  BY <1>1, <1>2
<1>4. mem' = StoreWords(x, words)
  BY DEF StoresWord
<1> HIDE DEF words, S
<1>5. Spells(words, S, x)
  BY <1>1, <1>3 DEF Spells
<1>6. StoreWords(x, words) = Overlay(S, x, x + 2 * Len(words) - 1)
  BY <1>1, <1>5, StoreFacts
<1>7. x + 2 * Len(words) - 1 = x + 1
  BY <1>1
<1> QED BY <1>4, <1>6, <1>7 DEF Overlaid, S

LEMMA BurstStore ==
  ASSUME mem \in [Unit -> Int], f \in LocalRec, NEW x \in Int, NEW word \in Int \X Int,
         word = Pair(Source(host), x), StoresBurst(word),
         f.addr + 2 * Len(f.burst) = x, Spells(f.burst, Source(host), f.addr)
  PROVE  Overlaid(f.addr, x + 1)
<1> DEFINE S == Source(host)
           words == Append(f.burst, word)
<1>1. f.addr \in Int /\ f.burst \in Seq(Int \X Int) /\ Len(f.burst) \in Nat
  BY DEF LocalRec
<1>4. mem' = StoreWords(f.addr, words)
  BY DEF StoresBurst
<1>5. f.addr + 2 * (Len(f.burst) + 1) - 1 = x + 1
  BY <1>1
<1> HIDE DEF S
<1>6. /\ words \in Seq(Int \X Int) /\ Len(words) = Len(f.burst) + 1
      /\ Spells(words, S, f.addr)
  BY <1>1, SpellsOneMore DEF S
<1> HIDE DEF words
<1>7. StoreWords(f.addr, words) = Overlay(S, f.addr, f.addr + 2 * Len(words) - 1)
  BY <1>1, <1>6, StoreFacts
<1> QED BY <1>4, <1>5, <1>6, <1>7 DEF Overlaid, S

\* What was sent up to x and what is stored now.
LEMMA OverlayReaches ==
  ASSUME mem \in [Unit -> Int], NEW a \in Int, NEW lo \in Int, NEW hi \in Int, Overlaid(lo, hi),
         \A u \in a .. lo - 1 : mem[u] = Source(host)[u],
         NEW u \in Unit, a <= u, u <= hi
  PROVE  mem'[u] = Source(host)[u]
<1>1. u \in Int
  BY Constants
<1>2. CASE u < lo
  <2>1. u \in a .. lo - 1 /\ ~(u \in lo .. hi)
    BY <1>1, <1>2
  <2> QED BY <2>1 DEF Overlaid, Overlay
<1>3. CASE ~(u < lo)
  <2>1. u \in lo .. hi
    BY <1>1, <1>3
  <2> QED BY <2>1 DEF Overlaid, Overlay
<1> QED BY <1>2, <1>3

\* The words of the chunk up to this one.
LEMMA WordsSoFar ==
  ASSUME f \in LocalRec, NEW c, NEW k \in Nat, c.addr \in Nat, Words(c, k)
  PROVE  LET x == c.addr + 2 * k
         IN  /\ f.addr \in Int /\ Len(f.burst) \in Nat /\ f.burst \in Seq(Int \X Int)
             /\ Len(f.burst) <= k
             /\ c.addr <= f.addr /\ f.addr <= x
             /\ f.addr = c.addr + 2 * (k - Len(f.burst))
             /\ f.addr + 2 * Len(f.burst) = x
             /\ f.burst = <<>> => Len(f.burst) = 0 /\ f.addr = x
<1>1. f.addr \in Int /\ Len(f.burst) \in Nat /\ f.burst \in Seq(Int \X Int)
  BY DEF LocalRec
<1>2. k - Len(f.burst) >= 0 /\ f.addr = c.addr + 2 * (k - Len(f.burst))
  BY DEF Words
<1>3. f.burst = <<>> => Len(f.burst) = 0
  OBVIOUS
<1> DEFINE B == Len(f.burst)
<1> HIDE DEF B
<1>4. \A a, b, n, y \in Int : b >= 0 /\ n - b >= 0 /\ y = a + 2 * (n - b)
        => b <= n /\ a <= y /\ y <= a + 2 * n /\ y + 2 * b = a + 2 * n
           /\ (b = 0 => y = a + 2 * n)
  OBVIOUS
<1>5. B \in Int /\ B >= 0 /\ c.addr \in Int /\ k \in Int
  BY <1>1 DEF B
<1>6. /\ B <= k /\ c.addr <= f.addr /\ f.addr <= c.addr + 2 * k
      /\ f.addr + 2 * B = c.addr + 2 * k
      /\ (B = 0 => f.addr = c.addr + 2 * k)
  BY <1>1, <1>2, <1>4, <1>5, SMTT(30) DEF B
<1> QED BY <1>1, <1>2, <1>3, <1>6 DEF B

\* A word that is stored alone, in the middle of a chunk.
LEMMA DirectWords ==
  ASSUME f \in LocalRec, mem \in [Unit -> Int], NEW c, NEW k \in Nat, NEW word \in Int \X Int,
         c.addr \in Nat, c.len \in Nat, Extent(c) \subseteq Unit, 2 * k + 2 <= c.len,
         c.addr >= MemBase \/ c.addr + c.len <= MemBase,
         Words(c, k), word = Pair(Source(host), c.addr + 2 * k), StoresWord(word),
         host' = host, f'.is_incremental, 2 * k + 4 <= c.len
  PROVE  /\ Overlaid(c.addr + 2 * k, c.addr + 2 * k + 1)
         /\ f.addr = c.addr + 2 * k
         /\ \A n : n = k + 1 => Words(c, n)'
<1> DEFINE x == c.addr + 2 * k
           S == Source(host)
<1>1. /\ ~f.is_burst /\ ~f'.is_burst /\ f'.burst = <<>> /\ f'.addr = f.addr + 2
      /\ f.addr >= MemBase => dbg' = f.addr + 2
  BY DEF StoresWord
<1>2. f.burst = <<>>
  BY <1>1 DEF Words
<1>3. x \in Int /\ f.addr = x
  BY <1>2, WordsSoFar
<1>4. word = Pair(S, x)
  OBVIOUS
<1>5. \A u \in c.addr .. f.addr - 1 : mem[u] = S[u]
  BY DEF Words
<1>6. S' = S
  BY DEF Source
<1>7. x + 2 <= c.addr + c.len /\ c.addr <= x /\ x + 2 = c.addr + 2 * (k + 1)
  OBVIOUS
<1>8. \A u \in Int : c.addr <= u /\ u < c.addr + c.len => u \in Unit
  BY DEF Extent
<1> HIDE DEF x, S
<1>9. Overlaid(x, x + 1)
  BY <1>3, <1>4, DirectStore DEF S
<1>10. \A u \in c.addr .. f'.addr - 1 : mem'[u] = S[u]
  <2> SUFFICES ASSUME NEW u \in c.addr .. f'.addr - 1 PROVE mem'[u] = S[u]
    OBVIOUS
  <2>1. u \in Int /\ c.addr <= u /\ u <= x + 1 /\ u < c.addr + c.len
    BY <1>1, <1>3, <1>7
  <2>2. u \in Unit
    BY <1>8, <2>1
  <2>3. \A v \in c.addr .. x - 1 : mem[v] = Source(host)[v]
    BY <1>3, <1>5 DEF S
  <2>4. x + 1 \in Int /\ c.addr \in Int
    BY <1>3
  <2> QED BY <1>3, <1>9, <2>1, <2>2, <2>3, <2>4, OverlayReaches DEF S
<1>11. f'.addr >= MemBase => dbg' = f'.addr
  <2>1. MemBase \in Nat
    BY Constants
  <2>2. c.addr >= MemBase => f.addr >= MemBase
    BY <1>3, <1>7, <2>1
  <2>3. c.addr + c.len <= MemBase => f'.addr < MemBase
    <3>1. 2 * k + 2 < c.len
      OBVIOUS
    <3>2. x + 2 < c.addr + c.len
      BY <3>1 DEF x
    <3> QED BY <1>1, <1>3, <2>1, <3>2
  <2>4. f'.addr \in Int
    BY <1>1, <1>3
  <2> QED BY <1>1, <2>1, <2>2, <2>3, <2>4
<1>12. ASSUME NEW n, n = k + 1 PROVE Words(c, n)'
  <2>1. Len(f'.burst) = 0 /\ n - 0 = k + 1 /\ n - 0 >= 0 /\ n > 0
    BY <1>1, <1>12
  <2>2. f'.addr = c.addr + 2 * (n - 0)
    BY <1>1, <1>3, <1>7, <2>1
  <2>3. Spells(f'.burst, S, f'.addr)
    BY <2>1 DEF Spells
  <2> QED BY <1>1, <1>6, <1>10, <1>11, <2>1, <2>2, <2>3 DEF Words, S
<1> QED BY <1>3, <1>9, <1>12 DEF x

\* A word that is kept in burst_data.
LEMMA KeptWords ==
  ASSUME f \in LocalRec, mem \in [Unit -> Int], NEW c, NEW k \in Nat, NEW word \in Int \X Int,
         c.addr \in Nat, Words(c, k), word = Pair(Source(host), c.addr + 2 * k), KeepsWord(word),
         host' = host, f'.is_incremental
  PROVE  \A n : n = k + 1 => Words(c, n)'
<1> DEFINE S == Source(host)
           B == Len(f.burst)
<1>1. /\ host.tgt = "DMA" /\ f.addr >= MemBase /\ ~Special(f.addr)
      /\ mem' = mem /\ dbg' = dbg
      /\ f'.addr = f.addr /\ f'.is_burst /\ f'.burst = Append(f.burst, word)
  BY DEF KeepsWord
<1>2. /\ f.addr \in Int /\ B \in Nat /\ f.burst \in Seq(Int \X Int)
      /\ B <= k /\ f.addr = c.addr + 2 * (k - B) /\ f.addr + 2 * B = c.addr + 2 * k
  BY WordsSoFar
<1>3. \A u \in c.addr .. f.addr - 1 : mem[u] = S[u]
  BY DEF Words
<1>4. S' = S
  BY DEF Source
<1>5. Spells(f.burst, S, f.addr) /\ word = Pair(S, f.addr + 2 * B)
  BY <1>2 DEF Words
<1> HIDE DEF S
<1>6. Len(f'.burst) = B + 1 /\ f'.burst # <<>> /\ Spells(f'.burst, S, f.addr)
  <2> DEFINE words == Append(f.burst, word)
  <2>1. words \in Seq(Int \X Int) /\ Len(words) = B + 1 /\ Spells(words, S, f.addr)
    BY <1>2, <1>5, SpellsOneMore
  <2>2. Len(<<>>) = 0 /\ B + 1 # 0
    BY <1>2
  <2> HIDE DEF words, B
  <2>3. words # <<>>
    BY <2>1, <2>2
  <2> QED BY <1>1, <2>1, <2>3 DEF words
<1> SUFFICES ASSUME NEW n, n = k + 1 PROVE Words(c, n)'
  OBVIOUS
<1> HIDE DEF B
<1>7. n - (B + 1) = k - B /\ n - (B + 1) >= 0 /\ n > 0
  BY <1>2
<1> QED BY <1>1, <1>2, <1>3, <1>4, <1>6, <1>7 DEF Words, Special, S

\* The end of the chunk: whatever was kept is stored with the last word.
LEMMA ChunkStored ==
  ASSUME f \in LocalRec, mem \in [Unit -> Int], NEW c, NEW k \in Nat, NEW word \in Int \X Int,
         c.addr \in Nat, c.len \in Nat, Extent(c) \subseteq Unit, 2 * k + 2 = c.len,
         Words(c, k), word = Pair(Source(host), c.addr + 2 * k),
         StoresWord(word) \/ StoresBurst(word)
  PROVE  /\ ~f'.is_burst /\ f'.burst = <<>>
         /\ Overlaid(f.addr, c.addr + c.len - 1) /\ f.addr \in Int /\ c.addr <= f.addr
         /\ \A u \in Extent(c) : mem'[u] = Source(host)[u]
<1> DEFINE x == c.addr + 2 * k
           S == Source(host)
<1>1. x \in Int /\ x + 1 = c.addr + c.len - 1 /\ word = Pair(S, x)
  OBVIOUS
<1>2. /\ f.addr \in Int /\ c.addr <= f.addr /\ f.addr + 2 * Len(f.burst) = x
      /\ f.burst = <<>> => f.addr = x
  BY WordsSoFar
<1>3. /\ Spells(f.burst, S, f.addr)
      /\ \A u \in c.addr .. f.addr - 1 : mem[u] = Source(host)[u]
      /\ f.is_burst <=> f.burst # <<>>
  BY DEF Words
<1> HIDE DEF x, S
<1>4. Overlaid(f.addr, x + 1)
  <2>1. CASE StoresWord(word)
    <3>1. f.addr = x
      BY <1>2, <1>3, <2>1 DEF StoresWord
    <3> QED BY <1>1, <2>1, <3>1, DirectStore DEF S
  <2>2. CASE StoresBurst(word)
    BY <1>1, <1>2, <1>3, <2>2, BurstStore DEF S
  <2> QED BY <2>1, <2>2
<1>5. ASSUME NEW u \in Extent(c) PROVE mem'[u] = Source(host)[u]
  <2>1. u \in Unit /\ c.addr <= u /\ u <= x + 1 /\ x + 1 \in Int /\ c.addr \in Int
    BY <1>1 DEF Extent
  <2> QED BY <1>2, <1>3, <1>4, <2>1, OverlayReaches, ZenonT(60)
<1>6. ~f'.is_burst /\ f'.burst = <<>>
  BY DEF StoresWord, StoresBurst
<1> QED BY <1>1, <1>2, <1>4, <1>5, <1>6

LEMMA ServeWriteWord ==
  ASSUME IInv, LoopServe, host.kind # "nop", Head(host.chunks).op = "write",
         ~(Taken(host) < 2), Taken(host) % 2 # 0
  PROVE  /\ f' \in LocalRec /\ dbg' \in Int /\ resp' \in [valid : BOOLEAN, data : Int]
         /\ \E lo, hi \in Int :
              /\ Head(host.chunks).addr <= lo
              /\ hi < Head(host.chunks).addr + Head(host.chunks).len
              /\ Overlaid(lo, hi)
         /\ Bridge'
<1>1. PICK c, T, k, x, word :
        /\ c = Head(host.chunks) /\ T = Taken(host) /\ k = (T - 2) \div 2
        /\ x = c.addr + 2 * k /\ word = Pair(Source(host), x)
  OBVIOUS
<1> DEFINE last == T + 1 = Total(c)
<1>2. /\ f \in LocalRec /\ word \in Int \X Int
      /\ f' \in LocalRec /\ f'.state = "WR_DATA" /\ f'.rcvd_addr = 0 /\ ~f'.odd
      /\ f'.is_incremental
      /\ resp' \in [valid : BOOLEAN, data : Int]
      /\ Words(c, k) /\ k \in Nat /\ 2 * k + 2 <= c.len
      /\ last => 2 * k + 2 = c.len
      /\ ~last => 2 * k + 4 <= c.len
      /\ \/ StoresWord(word)
         \/ last /\ StoresBurst(word)
         \/ ~last /\ KeepsWord(word)
  BY <1>1, ServeWord
<1>3. /\ T \in Nat /\ T < Total(c) /\ Total(c) = 2 + c.len
      /\ c.addr \in Nat /\ c.len \in Nat \ {0} /\ Extent(c) \subseteq Unit
      /\ c.addr >= MemBase \/ c.addr + c.len <= MemBase
      /\ c.op = "write"
      /\ dbg \in Int /\ mem \in [Unit -> Int]
  BY <1>1, WriteContext
<1>4. host' = host /\ Pos' = T + 1
  BY <1>1, ServeFrame
<1>5. T % 2 # 0 /\ ~(T < 2)
  BY <1>1
<1>6. /\ (T + 1) % 2 = 0 /\ ((T + 1) - 2) \div 2 = k + 1
      /\ T + 1 > 2 /\ T + 1 # 0 /\ T + 1 # 1
  <2>1. PICK m \in Nat : T = 2 * m + 3
    <3>1. T >= 3 /\ T % 2 = 1 /\ T \in Nat
      BY <1>3, <1>5
    <3>2. (T - 3) \div 2 \in Nat /\ T = 2 * ((T - 3) \div 2) + 3
      BY <3>1
    <3> QED BY <3>2
  <2>2. k = m /\ ((T + 1) - 2) \div 2 = m + 1 /\ (T + 1) % 2 = 0
    BY <1>1, <2>1
  <2> QED BY <2>1, <2>2
<1>7. Head(host.chunks) = c
  BY <1>1
<1>8. x = c.addr + 2 * k /\ word = Pair(Source(host), c.addr + 2 * k)
  BY <1>1
<1> HIDE DEF last
<1>9. ASSUME last
      PROVE  /\ ~f'.is_burst /\ f'.burst = <<>>
             /\ Overlaid(f.addr, c.addr + c.len - 1) /\ f.addr \in Int /\ c.addr <= f.addr
             /\ \A u \in Extent(c) : mem'[u] = Source(host)[u]
  <2>1. StoresWord(word) \/ StoresBurst(word)
    BY <1>2, <1>9
  <2>2. 2 * k + 2 = c.len
    BY <1>2, <1>9
  <2>3. c.len \in Nat
    BY <1>3
  <2> QED BY <1>2, <1>3, <1>8, <2>1, <2>2, <2>3, ChunkStored
<1>10. ASSUME ~last, StoresWord(word)
       PROVE  Overlaid(x, x + 1) /\ \A n : n = k + 1 => Words(c, n)'
  <2>1. 2 * k + 4 <= c.len /\ c.len \in Nat
    BY <1>2, <1>3, <1>10
  <2> QED BY <1>2, <1>3, <1>4, <1>8, <1>10, <2>1, DirectWords
<1>11. ASSUME ~last, KeepsWord(word)
       PROVE  mem' = mem /\ \A n : n = k + 1 => Words(c, n)'
  <2>1. mem' = mem
    BY <1>11 DEF KeepsWord
  <2> QED BY <1>2, <1>3, <1>4, <1>8, <1>11, <2>1, KeptWords
<1>12. \E lo, hi \in Int : c.addr <= lo /\ hi < c.addr + c.len /\ Overlaid(lo, hi)
  <2>1. CASE last
    <3>1. c.addr + c.len - 1 \in Int /\ c.addr + c.len - 1 < c.addr + c.len
      BY <1>3
    <3> QED BY <1>9, <2>1, <3>1
  <2>2. CASE ~last /\ StoresWord(word)
    <3>1. x \in Int /\ x + 1 \in Int /\ x + 1 < c.addr + c.len /\ c.addr <= x
      BY <1>2, <1>3, <1>8
    <3> QED BY <1>10, <2>2, <3>1
  <2>3. CASE ~last /\ KeepsWord(word)
    <3>1. \A u \in Unit : ~(u \in c.addr .. c.addr - 1)
      BY <1>3, Constants
    <3>2. Overlaid(c.addr, c.addr - 1)
      BY <1>3, <1>11, <2>3, <3>1 DEF Overlaid, Overlay
    <3>3. c.addr \in Int /\ c.addr - 1 \in Int /\ c.addr - 1 < c.addr + c.len
      BY <1>3
    <3> QED BY <3>2, <3>3
  <2> QED BY <1>2, <2>1, <2>2, <2>3
<1>13. PICK p : p = T + 1
  OBVIOUS
<1>14. /\ p % 2 = 0 /\ (p - 2) \div 2 = k + 1 /\ p > 1 /\ p # 0 /\ p # 1
       /\ p < Total(c) \/ p = Total(c)
       /\ last <=> p = Total(c)
       /\ p \in Nat /\ Total(c) \in Nat
  BY <1>3, <1>6, <1>13 DEF last
<1>15. Total(c)' = Total(c) /\ Source(host)' = Source(host)
  BY <1>4 DEF Total
<1>16. Writing(c, p)'
  <2>1. CASE last
    <3>1. Quiet'
      BY <1>2, <1>9, <2>1 DEF Quiet, NoBurst
    <3>2. \A u \in Extent(c) : mem'[u] = Source(host)'[u]
      BY <1>4, <1>9, <2>1
    <3>3. ~(p < Total(c)) /\ p # 0 /\ p # 1
      BY <1>14, <2>1
    <3> QED BY <1>15, <3>1, <3>2, <3>3 DEF Writing
  <2>2. CASE ~last
    <3>1. Words(c, (p - 2) \div 2)'
      BY <1>2, <1>10, <1>11, <1>14, <2>2
    <3>2. f'.odd = (p % 2 = 1)
      <4>1. ~(p % 2 = 1) /\ f'.odd \in BOOLEAN
        BY <1>2, <1>14 DEF LocalRec
      <4> QED BY <1>2, <4>1, Zenon
    <3>3. p # Total(c) /\ p < Total(c) /\ p # 0 /\ p # 1
      BY <1>14, <2>2
    <3> QED BY <1>2, <1>15, <3>1, <3>2, <3>3 DEF Writing
  <2> QED BY <2>1, <2>2
<1>17. Bridge'
  <2>1. Pos' = p /\ host'.kind = host.kind /\ Head(host'.chunks) = c
    BY <1>4, <1>7, <1>13
  <2> QED BY <1>3, <1>16, <2>1 DEF Bridge
<1>18. dbg' \in Int
  BY <1>2, <1>3 DEF StoresWord, StoresBurst, KeepsWord
<1> QED BY <1>2, <1>7, <1>12, <1>17, <1>18

\* Every request: what the target takes is what the transfer sends, within the
\* chunk under way.
LEMMA ServeRequest ==
  ASSUME IInv, LoopServe
  PROVE  /\ f' \in LocalRec /\ dbg' \in Int /\ resp' \in [valid : BOOLEAN, data : Int]
         /\ mem' \in [Unit -> Int]
         /\ \A u \in Unit :
              \/ mem'[u] = mem[u]
              \/ /\ host.kind \in {"write", "write64"} /\ Head(host.chunks).op = "write"
                 /\ u \in Extent(Head(host.chunks)) /\ mem'[u] = Source(host)[u]
         /\ Bridge' /\ Answer'
<1>1. mem \in [Unit -> Int] /\ dbg \in Int /\ Source(host) \in [Unit -> Int]
      /\ host.kind \in {"nop", "read", "write", "write64"}
  BY SourceType DEF IInv, BridgeTypeOK, HostRec
<1>2. host' = host
  BY ServeFrame
<1>3. CASE host.kind = "nop"
  <2>1. Bridge' /\ Answer'
    BY <1>2, <1>3, ServeNop DEF Bridge, Answer
  <2> QED BY <1>1, <1>3, <2>1, ServeNop
<1>4. CASE host.kind # "nop" /\ Head(host.chunks).op = "read"
  BY <1>1, <1>4, ServeReadChunk
<1>5. CASE host.kind # "nop" /\ Head(host.chunks).op = "write"
  <2>1. Answer'
    BY <1>2, <1>5 DEF Answer
  <2>2. /\ host.kind \in {"write", "write64"}
        /\ Head(host.chunks).addr \in Nat /\ Head(host.chunks).len \in Nat
    BY <1>5, WriteContext
  <2>3. CASE Taken(host) < 2
    BY <1>1, <1>5, <2>1, <2>3, ServeWriteAddr
  <2>4. CASE ~(Taken(host) < 2) /\ Taken(host) % 2 = 0
    BY <1>1, <1>5, <2>1, <2>4, ServeWriteHalf
  <2>5. CASE ~(Taken(host) < 2) /\ Taken(host) % 2 # 0
    <3>1. /\ f' \in LocalRec /\ dbg' \in Int /\ resp' \in [valid : BOOLEAN, data : Int]
          /\ Bridge'
      BY <1>5, <2>5, ServeWriteWord
    <3>2. PICK lo \in Int, hi \in Int :
            /\ Head(host.chunks).addr <= lo
            /\ hi < Head(host.chunks).addr + Head(host.chunks).len
            /\ Overlaid(lo, hi)
      BY <1>5, <2>5, ServeWriteWord
    <3>3. mem' = [u \in Unit |-> IF u \in lo .. hi THEN Source(host)[u] ELSE mem[u]]
      BY <3>2 DEF Overlaid, Overlay
    <3>4. mem' \in [Unit -> Int]
      BY <1>1, <3>3
    <3>5. ASSUME NEW u \in Unit
          PROVE  \/ mem'[u] = mem[u]
                 \/ u \in Extent(Head(host.chunks)) /\ mem'[u] = Source(host)[u]
      <4>1. u \in Int
        BY Constants
      <4>2. u \in lo .. hi => u \in Extent(Head(host.chunks))
        BY <2>2, <3>2, <4>1 DEF Extent
      <4> QED BY <3>3, <4>2
    <3> QED BY <1>5, <2>1, <2>2, <3>1, <3>4, <3>5
  <2> QED BY <2>3, <2>4, <2>5
<1> QED
  <2>1. host.kind # "nop" => Head(host.chunks).op \in {"read", "write"}
    BY HeadRequest DEF ChunkRec
  <2> QED BY <1>3, <1>4, <1>5, <2>1

LEMMA ServeStep ==
  ASSUME IInv, LoopServe
  PROVE  IInv'
<1>1. /\ host' = host /\ done' = done /\ ref' = ref /\ count' = count
      /\ req_wait /\ req_wait' = req_wait /\ resp_wait' = resp_wait /\ pc' = "tick"
      /\ resp'.valid = TRUE
  BY ServeFrame
<1>2. BridgeTypeOK' /\ Bridge' /\ Answer'
  BY <1>1, ServeRequest DEF IInv, BridgeTypeOK
<1>3. Handshake'
  BY <1>1 DEF IInv, Handshake
<1>4. InStep(host)' /\ Asked(host)'
  BY <1>1 DEF IInv
<1>5. Fetched(host)'
  BY <1>1 DEF IInv, Fetched, Taken
<1>6. host.kind # "nop" => Extent(host) \subseteq Unit
  BY DEF IInv, Asked
<1>7. Covered(host)'
  <2>1. CASE host.kind = "read"
    BY <1>1, <2>1 DEF IInv, Covered
  <2>2. CASE host.kind \in {"write", "write64"}
    <3> SUFFICES ASSUME NEW u \in Extent(host)
                 PROVE  mem'[u] = Datum(host.k, host, u) \/ Reaches(host.chunks, "write", u)
      BY <1>1, <2>2 DEF Covered
    <3>1. mem[u] = Datum(host.k, host, u) \/ Reaches(host.chunks, "write", u)
      BY <2>2 DEF IInv, Covered
    <3>2. u \in Unit
      BY <1>6, <2>2
    <3>3. Source(host)[u] = Datum(host.k, host, u)
      BY <3>2 DEF Source
    <3>4. mem'[u] = mem[u] \/ mem'[u] = Source(host)[u]
      BY <3>2, ServeRequest
    <3> QED BY <3>1, <3>3, <3>4
  <2>3. CASE host.kind = "nop"
    BY <1>1, <2>3 DEF Covered
  <2> QED BY <2>1, <2>2, <2>3 DEF IInv, BridgeTypeOK, HostRec
<1>8. TransfersExact'
  <2>1. InFlight' = InFlight
    BY <1>1 DEF InFlight
  <2>2. ASSUME NEW u \in Unit, u \notin InFlight PROVE mem'[u] = ref[u]
    <3>1. mem[u] = ref[u]
      BY <2>2 DEF IInv, TransfersExact
    <3>2. ASSUME host.kind \in {"write", "write64"}, Head(host.chunks).op = "write",
                 u \in Extent(Head(host.chunks)), mem'[u] = Source(host)[u]
          PROVE  mem'[u] = ref[u]
      <4>1. u \notin Extent(host)
        BY <2>2, <3>2 DEF InFlight
      <4>2. Source(host)[u] = host.got[u]
        BY <4>1 DEF Source
      <4>3. host.got[u] = ref[u]
        BY <3>2, <4>1 DEF IInv, Fetched
      <4> QED BY <3>2, <4>2, <4>3
    <3> QED BY <3>1, <3>2, ServeRequest
  <2>3. done.kind = "read" => \A u \in Extent(done) : done.got[u] = ref[u]
    BY DEF IInv, TransfersExact
  <2> QED BY <1>1, <2>1, <2>2, <2>3 DEF TransfersExact
<1> QED BY <1>2, <1>3, <1>4, <1>5, <1>7, <1>8 DEF IInv

\* The host takes no request: everything stays, and no response stands.
LEMMA NoRequestStep ==
  ASSUME IInv, LoopNoRequest
  PROVE  IInv'
<1>1. /\ host' = host /\ done' = done /\ ref' = ref /\ count' = count
      /\ ~req_wait /\ req_wait' = req_wait /\ resp_wait' = resp_wait
      /\ pc = "serve" /\ pc' = "tick"
      /\ mem' = mem /\ dbg' = dbg /\ f' = f /\ resp' = [resp EXCEPT !.valid = FALSE]
  BY DEF LoopNoRequest, dtmVars
<1>2. resp' \in [valid : BOOLEAN, data : Int] /\ ~resp'.valid
  BY <1>1 DEF IInv, BridgeTypeOK
<1>3. BridgeTypeOK' /\ Handshake' /\ Answer'
  BY <1>1, <1>2 DEF IInv, BridgeTypeOK, Handshake, Answer
<1>4. Pos' = Pos
  BY <1>1, <1>2 DEF Pos, Taken
<1>5. Bridge'
  BY <1>1, <1>4 DEF IInv, Bridge, Reading, Writing, Words, Spells, Quiet, NoBurst, Special
<1>6. InStep(host)' /\ Asked(host)' /\ Fetched(host)' /\ Covered(host)' /\ TransfersExact'
  BY <1>1 DEF IInv, Fetched, Taken, Covered, TransfersExact, InFlight
<1> QED BY <1>3, <1>5, <1>6 DEF IInv

-----------------------------------------------------------------------------
(* The host takes the response and asks for more. *)

LEMMA TickFrame ==
  ASSUME IInv, LoopTick
  PROVE  /\ pc = "tick" /\ pc' = "serve"
         /\ mem' = mem /\ dbg' = dbg /\ f' = f /\ resp' = resp
         /\ Handshake' /\ Answer'
         /\ IF resp.valid
            THEN LET h == Collect(host, resp.data) IN Proceed(h) \/ Finish(h)
            ELSE UNCHANGED <<host, done, ref, count>>
         /\ Pos = Taken(host) + (IF resp.valid THEN 1 ELSE 0)
         /\ Pos' = Taken(host') + 0
<1>1. /\ pc = "tick" /\ pc' = "serve" /\ Waits(resp.valid)
      /\ mem' = mem /\ dbg' = dbg /\ f' = f /\ resp' = resp
      /\ IF resp.valid
         THEN LET h == Collect(host, resp.data) IN Proceed(h) \/ Finish(h)
         ELSE UNCHANGED <<host, done, ref, count>>
  BY DEF LoopTick, Tick
<1>2. Handshake'
  BY <1>1 DEF IInv, Handshake, Waits
<1>3. Pos = Taken(host) + (IF resp.valid THEN 1 ELSE 0)
  BY <1>1 DEF Pos
<1>4. Pos' = Taken(host') + 0
  BY <1>1 DEF Pos
<1>5. Answer'
  BY <1>1 DEF Answer
<1> QED BY <1>1, <1>2, <1>3, <1>4, <1>5

\* The data of a unit is kept with the unit that was asked for.
LEMMA CollectFacts ==
  ASSUME IInv, pc = "tick", resp.valid, NEW h, h = Collect(host, resp.data)
  PROVE  /\ h \in HostRec
         /\ h.kind = host.kind /\ h.addr = host.addr /\ h.len = host.len /\ h.tgt = host.tgt
         /\ h.k = host.k /\ h.chunks = host.chunks /\ h.reqs = host.reqs
         /\ host.kind # "nop" /\ Head(host.chunks).op = "write" => h = host
         /\ host.kind # "nop" =>
              \A u \in Unit :
                /\ h.got[u] = host.got[u] \/ h.got[u] = mem[u]
                /\ Head(host.chunks).op = "read"
                   /\ u = Head(host.chunks).addr + (Taken(host) + 1) \div 2 - 1
                   /\ Taken(host) % 2 = 1
                     => h.got[u] = mem[u]
<1> DEFINE c == Head(host.chunks)
           T == Taken(host)
           n == Len(host.reqs)
           u == c.addr + c.len - n \div 2 - 1
<1>1. host \in HostRec /\ host.got \in [Unit -> Int] /\ resp.data \in Int
      /\ mem \in [Unit -> Int]
  BY DEF IInv, BridgeTypeOK, HostRec
<1>2. CASE host.kind = "nop"
  <2>1. h = host
    BY <1>2 DEF Collect
  <2> QED BY <1>1, <1>2, <2>1
<1>3. CASE host.kind # "nop" /\ c.op = "write"
  <2>1. h = host
    BY <1>3 DEF Collect
  <2> QED BY <1>1, <1>3, <2>1
<1>4. CASE host.kind # "nop" /\ c.op = "read"
  <2>1. /\ c.addr \in Nat /\ c.len \in Nat \ {0} /\ Extent(c) \subseteq Unit
        /\ Total(c) = 2 * c.len /\ n \in 1 .. Total(c) /\ T + n = Total(c)
        /\ T \in 0 .. Total(c) - 1
    BY <1>4, HeadRequest DEF ChunkRec, Total
  <2>2. Pos = T + 1
    BY DEF Pos
  <2>3. h = IF n % 2 = 1 THEN [host EXCEPT !.got[u] = resp.data] ELSE host
    BY <1>4 DEF Collect
  <2>4. Pos % 2 = 0 => resp.data = mem[c.addr + Pos \div 2 - 1]
    BY <1>4 DEF IInv, Answer
  <2> HIDE DEF T, n, c
  <2>5. T \in Nat /\ T % 2 \in {0, 1} /\ (n % 2 = 1 <=> T % 2 = 1)
    <3>1. n = 2 * c.len - T /\ T \in Nat /\ n \in Nat
      BY <2>1
    <3>2. T % 2 \in {0, 1}
      BY <3>1
    <3>3. CASE T % 2 = 0
      <4>1. PICK m \in Nat : T = 2 * m
        BY <3>1, <3>3
      <4>2. n = 2 * (c.len - m) /\ c.len - m \in Int
        BY <2>1, <3>1, <4>1
      <4> QED BY <3>1, <3>3, <4>2
    <3>4. CASE T % 2 = 1
      <4>1. PICK m \in Nat : T = 2 * m + 1
        <5>1. T \div 2 \in Nat /\ T = 2 * (T \div 2) + 1
          BY <3>1, <3>4
        <5> QED BY <5>1
      <4>2. n = 2 * (c.len - m - 1) + 1 /\ c.len - m - 1 \in Int
        BY <2>1, <3>1, <4>1
      <4> QED BY <3>1, <3>4, <4>2
    <3> QED BY <3>1, <3>2, <3>3, <3>4
  <2>6. CASE T % 2 = 0
    <3>1. ~(n % 2 = 1) /\ ~(T % 2 = 1)
      BY <2>5, <2>6
    <3>2. h = host
      BY <2>3, <3>1
    <3> QED BY <1>1, <1>4, <3>1, <3>2 DEF T
  <2>7. CASE T % 2 = 1
    <3>1. h = [host EXCEPT !.got[u] = resp.data]
      BY <2>3, <2>5, <2>7
    <3>2. PICK m \in Nat : T = 2 * m + 1
      <4>1. T \div 2 \in Nat /\ T = 2 * (T \div 2) + 1
        BY <2>5, <2>7
      <4> QED BY <4>1
    <3>3. n = 2 * (c.len - m - 1) + 1 /\ c.len - m - 1 \in Nat
      BY <2>1, <3>2
    <3>4. n \div 2 = c.len - m - 1 /\ (T + 1) \div 2 = m + 1 /\ (T + 1) % 2 = 0
      BY <3>2, <3>3
    <3>5. u = c.addr + m /\ c.addr + (T + 1) \div 2 - 1 = c.addr + m
      BY <2>1, <3>2, <3>4
    <3>6. u \in Unit
      <4>1. c.addr + m \in Extent(c)
        BY <2>1, <3>2, <3>3 DEF Extent
      <4> QED BY <2>1, <3>5, <4>1
    <3> HIDE DEF u
    <3>7. resp.data = mem[u]
      BY <2>2, <2>4, <3>4, <3>5
    <3>8. h = [host EXCEPT !.got = [host.got EXCEPT ![u] = resp.data]]
      BY <1>1, <3>1 DEF HostRec
    <3>9. [host.got EXCEPT ![u] = resp.data] \in [Unit -> Int]
      BY <1>1
    <3>10. /\ h \in HostRec
           /\ h.kind = host.kind /\ h.addr = host.addr /\ h.len = host.len /\ h.tgt = host.tgt
           /\ h.k = host.k /\ h.chunks = host.chunks /\ h.reqs = host.reqs
           /\ h.got = [host.got EXCEPT ![u] = resp.data]
      BY <1>1, <3>8, <3>9 DEF HostRec
    <3>11. \A v \in Unit : h.got[v] = IF v = u THEN mem[v] ELSE host.got[v]
      BY <1>1, <3>6, <3>7, <3>10
    <3> QED BY <1>4, <3>5, <3>10, <3>11 DEF T, c
  <2> QED BY <2>5, <2>6, <2>7
<1> QED
  <2>1. host.kind # "nop" => c.op \in {"read", "write"}
    BY HeadRequest DEF ChunkRec
  <2> QED BY <1>2, <1>3, <1>4, <2>1

\* What has been fetched when the response is taken.
LEMMA FetchedMore ==
  ASSUME IInv, pc = "tick", resp.valid, NEW h, h = Collect(host, resp.data),
         host.kind # "nop", NEW u \in Unit, h.kind = "read" \/ u \notin Extent(h)
  PROVE  /\ h.got[u] = host.got[u] \/ h.got[u] = ref[u]
         /\ /\ \/ Head(host.chunks).op = "write"
               \/ u < Head(host.chunks).addr + (Taken(host) + 1) \div 2
            /\ u \in Extent(Head(host.chunks))
            => h.got[u] = ref[u]
<1> DEFINE c == Head(host.chunks)
           T == Taken(host)
<1>1. /\ h.kind = host.kind /\ h.addr = host.addr /\ h.len = host.len
      /\ c.op = "write" => h = host
      /\ h.got[u] = host.got[u] \/ h.got[u] = mem[u]
      /\ c.op = "read" /\ u = c.addr + (T + 1) \div 2 - 1 /\ T % 2 = 1 => h.got[u] = mem[u]
  BY CollectFacts
<1>2. Extent(h) = Extent(host)
  BY <1>1 DEF Extent
<1>3. mem[u] = ref[u]
  <2>1. u \notin InFlight
    BY <1>1, <1>2 DEF InFlight
  <2> QED BY <2>1 DEF IInv, TransfersExact
<1>4. u \in Extent(c) /\ (c.op = "write" \/ u < c.addr + T \div 2) => host.got[u] = ref[u]
  BY <1>1, <1>2 DEF IInv, Fetched
<1>5. T \in Nat /\ c.addr \in Nat /\ c.op \in {"read", "write"} /\ u \in Int
  <2>1. T \in 0 .. Total(c) - 1 /\ Total(c) \in Nat /\ c \in ChunkRec
    BY HeadRequest
  <2> HIDE DEF T, c
  <2> QED BY <2>1, Constants DEF ChunkRec
<1> HIDE DEF T, c
<1>6. \/ T \div 2 = (T + 1) \div 2
      \/ T % 2 = 1 /\ T \div 2 = (T + 1) \div 2 - 1
  BY <1>5
<1>7. T \div 2 \in Int /\ (T + 1) \div 2 \in Int
  BY <1>5
<1>8. u < c.addr + (T + 1) \div 2
        => \/ u < c.addr + T \div 2
           \/ u = c.addr + (T + 1) \div 2 - 1 /\ T % 2 = 1
  BY <1>5, <1>6, <1>7
<1>9. u < c.addr + (T + 1) \div 2 /\ u \in Extent(c) => h.got[u] = ref[u]
  <2>1. CASE c.op = "write"
    BY <1>1, <1>4, <2>1
  <2>2. CASE c.op = "read"
    BY <1>1, <1>3, <1>4, <1>8, <2>2
  <2> QED BY <1>5, <2>1, <2>2
<1>10. c.op = "write" /\ u \in Extent(c) => h.got[u] = ref[u]
  BY <1>1, <1>4
<1>11. h.got[u] = host.got[u] \/ h.got[u] = ref[u]
  BY <1>1, <1>3
<1> QED BY <1>9, <1>10, <1>11 DEF T, c

\* The rest of the step is the same whatever the host does next.
LEMMA TickStep ==
  ASSUME IInv, LoopTick, host' \in HostRec, count' \in Nat, ref' \in [Unit -> Int],
         InStep(host'), Asked(host'), Bridge', Fetched(host)', Covered(host)', TransfersExact'
  PROVE  IInv'
<1>1. BridgeTypeOK'
  BY TickFrame DEF IInv, BridgeTypeOK
<1>2. InStep(host)' /\ Asked(host)'
  OBVIOUS
<1> QED BY <1>1, <1>2, TickFrame DEF IInv

\* No response: the host is not resumed.
LEMMA TickIdle ==
  ASSUME IInv, LoopTick, ~resp.valid
  PROVE  IInv'
<1>1. /\ host' = host /\ done' = done /\ ref' = ref /\ count' = count
      /\ mem' = mem /\ dbg' = dbg /\ f' = f
      /\ Pos = Taken(host) + 0 /\ Pos' = Taken(host') + 0
  BY TickFrame
<1>2. Pos' = Pos
  BY <1>1
<1>3. Bridge'
  BY <1>1, <1>2 DEF IInv, Bridge, Reading, Writing, Words, Spells, Quiet, NoBurst, Special
<1>4. InStep(host') /\ Asked(host') /\ Fetched(host)' /\ Covered(host)' /\ TransfersExact'
  BY <1>1 DEF IInv, Fetched, Taken, Covered, TransfersExact, InFlight
<1>5. host' \in HostRec /\ count' \in Nat /\ ref' \in [Unit -> Int]
  BY <1>1 DEF IInv, BridgeTypeOK
<1> QED BY <1>3, <1>4, <1>5, TickStep

\* Only the range and the kind of a transfer say whether chunks fit it.
LEMMA FitsSame ==
  ASSUME NEW chunks, NEW o, NEW h, Fits(chunks, o),
         h.kind = o.kind, h.addr = o.addr, Extent(h) = Extent(o)
  PROVE  Fits(chunks, h)
<1> SUFFICES ASSUME NEW j \in 1 .. Len(chunks)
             PROVE  LET c == chunks[j]
                    IN  /\ c.len <= chunk_max_size /\ Extent(c) \subseteq Unit
                        /\ c.addr >= MemBase \/ c.addr + c.len <= MemBase
                        /\ c.op = "write" => h.kind # "read" /\ c.len % 2 = 0
                        /\ h.kind = "write64" => c.addr = h.addr /\ c.len = 2
                        /\ c.op = "write" /\ j > 1 /\ ~(Extent(c) \subseteq Extent(h))
                             => chunks[j - 1] = [c EXCEPT !.op = "read"]
  BY Zenon DEF Fits
<1> QED BY Zenon DEF Fits

\* The n-th request depends on the chunk and on what is sent.
LEMMA RequestSame ==
  ASSUME NEW g, NEW h, NEW n, g.tgt = h.tgt, Head(g.chunks) = Head(h.chunks),
         Head(h.chunks).op \in {"read", "write"},
         Head(h.chunks).op = "write" => Source(g) = Source(h)
  PROVE  RequestAt(g, n) = RequestAt(h, n)
<1>1. CASE Head(h.chunks).op = "read"
  BY <1>1 DEF RequestAt
<1>2. CASE Head(h.chunks).op = "write"
  BY <1>2 DEF RequestAt
<1> QED BY <1>1, <1>2

\* The next request of the chunk.
Advance(h) == [h EXCEPT !.reqs = Tail(@)]

LEMMA NextRequest ==
  ASSUME IInv, LoopTick, resp.valid, NEW h, h = Collect(host, resp.data),
         Len(h.reqs) > 1, NEW g, g = Advance(h), host' = g,
         UNCHANGED <<done, ref, count>>
  PROVE  IInv'
<1> DEFINE c == Head(host.chunks)
           T == Taken(host)
<1>1. /\ h \in HostRec
      /\ h.kind = host.kind /\ h.addr = host.addr /\ h.len = host.len /\ h.tgt = host.tgt
      /\ h.k = host.k /\ h.chunks = host.chunks /\ h.reqs = host.reqs
  BY CollectFacts, TickFrame
<1>2. host.kind # "nop"
  <2>1. ASSUME host.kind = "nop" PROVE FALSE
    <3>1. host.reqs = <<NopReq>>
      BY <2>1 DEF IInv, InStep
    <3> QED BY <1>1, <3>1
  <2> QED BY <2>1
<1>3. /\ c \in ChunkRec /\ Total(c) \in Nat /\ T \in 0 .. Total(c) - 1
      /\ Len(host.reqs) \in 1 .. Total(c) /\ T + Len(host.reqs) = Total(c)
      /\ Extent(c) \subseteq Unit
  BY <1>2, HeadRequest
<1>4. /\ host.chunks # <<>>
      /\ \A i \in 1 .. Len(host.reqs) :
           host.reqs[i] = RequestAt(host, Total(c) - Len(host.reqs) + i)
  BY <1>2 DEF IInv, InStep
<1>5. /\ mem' = mem /\ dbg' = dbg /\ f' = f /\ done' = done /\ ref' = ref /\ count' = count
      /\ Pos = T + 1 /\ Pos' = Taken(host') + 0
  BY TickFrame
<1>6. /\ g \in HostRec
      /\ g.kind = host.kind /\ g.addr = host.addr /\ g.len = host.len
      /\ g.tgt = host.tgt /\ g.k = host.k /\ g.chunks = host.chunks
      /\ g.got = h.got /\ g.reqs = Tail(host.reqs)
  <2>1. h.reqs \in Seq(ReqRec) /\ h.reqs # <<>>
    BY <1>1 DEF HostRec
  <2>2. Tail(h.reqs) \in Seq(ReqRec)
    BY <2>1, HeadTailProperties
  <2> QED BY <1>1, <2>2 DEF HostRec, Advance
<1>7. /\ Len(g.reqs) = Len(host.reqs) - 1
      /\ \A i \in 1 .. Len(host.reqs) - 1 : g.reqs[i] = host.reqs[i + 1]
  <2>1. host.reqs \in Seq(ReqRec) /\ host.reqs # <<>>
    BY <1>1 DEF HostRec
  <2>2. /\ Len(Tail(host.reqs)) = Len(host.reqs) - 1
        /\ \A i \in 1 .. Len(Tail(host.reqs)) : Tail(host.reqs)[i] = host.reqs[i + 1]
    BY <2>1, HeadTailProperties
  <2> QED BY <1>6, <2>2
<1>8. c.op = "write" => g.got = host.got
  BY <1>2, <1>6, CollectFacts, TickFrame
<1>9. c.op = "write" => Source(g) = Source(host)
  BY <1>6, <1>8 DEF Source, Datum, Extent
<1>10. Head(g.chunks) = c /\ c.op \in {"read", "write"} /\ c.addr \in Nat
  BY <1>3, <1>6 DEF ChunkRec
<1>11. Len(h.reqs) > 1 /\ Len(host.reqs) > 1
  BY <1>1
<1>12. Taken(g) = T + 1
  <2>1. Taken(g) = Total(c) - Len(g.reqs)
    BY <1>10 DEF Taken
  <2> HIDE DEF c, T
  <2> QED BY <1>3, <1>7, <2>1
<1>13. Extent(g) = Extent(host)
  BY <1>6 DEF Extent
<1> HIDE DEF T
<1>14. \A n : RequestAt(g, n) = RequestAt(host, n)
  <2>1. /\ g.tgt = host.tgt /\ Head(g.chunks) = Head(host.chunks)
        /\ Head(host.chunks).op \in {"read", "write"}
        /\ Head(host.chunks).op = "write" => Source(g) = Source(host)
    BY <1>6, <1>9, <1>10
  <2> HIDE DEF c
  <2> QED BY <2>1, RequestSame
<1>15. InStep(g)
  <2> HIDE DEF c
  <2>1. Len(g.reqs) \in 1 .. Total(c)
    BY <1>3, <1>7, <1>11
  <2>2. ASSUME NEW i \in 1 .. Len(g.reqs)
        PROVE  g.reqs[i] = RequestAt(g, Total(c) - Len(g.reqs) + i)
    <3>1. i \in 1 .. Len(host.reqs) - 1 /\ i + 1 \in 1 .. Len(host.reqs)
      BY <1>3, <1>7
    <3>2. Total(c) - Len(host.reqs) + (i + 1) = Total(c) - Len(g.reqs) + i
      <4>2. Total(c) \in Int /\ Len(host.reqs) \in Int /\ i \in Int
        BY <1>3
      <4>3. Len(g.reqs) = Len(host.reqs) - 1
        BY <1>7
      <4> QED BY <4>2, <4>3
    <3>3. host.reqs[i + 1] = RequestAt(host, Total(c) - Len(host.reqs) + (i + 1))
      BY <1>4, <3>1
    <3> QED BY <1>7, <1>14, <3>1, <3>2, <3>3
  <2> QED BY <1>2, <1>4, <1>6, <1>10, <2>1, <2>2 DEF InStep
<1>16. Asked(g)
  <2>1. Fits(host.chunks, host)
    BY <1>2 DEF IInv, Asked
  <2>2. g.kind = host.kind /\ g.addr = host.addr /\ Extent(g) = Extent(host)
    BY <1>6, <1>13
  <2>3. Fits(host.chunks, g)
    BY <2>1, <2>2, FitsSame
  <2> QED BY <1>6, <1>13, <2>3 DEF IInv, Asked
<1>17. Pos' = Pos
  <2>1. T \in Int
    BY <1>3
  <2> QED BY <1>5, <1>12, <2>1
<1>18. Bridge'
  <2>1. IF c.op = "read" THEN Reading(c, Pos) ELSE Writing(c, Pos)
    BY <1>2 DEF IInv, Bridge
  <2>2. c' = c
    BY <1>10
  <2> HIDE DEF c
  <2>3. c.op = "read" => Reading(c, Pos)'
    BY <1>5, <1>17, <2>1, <2>2 DEF Reading, Quiet, NoBurst
  <2>4. c.op = "write" => Writing(c, Pos)'
    BY <1>5, <1>6, <1>9, <1>17, <2>1, <2>2 DEF Writing, Words, Quiet, NoBurst, Special, Total
  <2> QED BY <1>2, <1>6, <1>10, <2>2, <2>3, <2>4 DEF Bridge, c
<1>19. Fetched(host)'
  <2>1. ASSUME NEW u \in Extent(c), host.kind = "read" \/ u \notin Extent(host),
               c.op = "write" \/ u < c.addr + (T + 1) \div 2
        PROVE  g.got[u] = ref[u]
    <3>1. u \in Unit /\ (h.kind = "read" \/ u \notin Extent(h))
      BY <1>1, <1>3, <2>1 DEF Extent
    <3> QED BY <1>2, <1>6, <2>1, <3>1, FetchedMore, TickFrame DEF T
  <2> QED BY <1>5, <1>6, <1>10, <1>12, <1>13, <2>1 DEF Fetched
<1>20. Covered(host)'
  <2>1. ASSUME host.kind = "read", NEW u \in Extent(host)
        PROVE  g.got[u] = ref[u] \/ Reaches(host.chunks, "read", u)
    <3>1. host.got[u] = ref[u] \/ Reaches(host.chunks, "read", u)
      BY <2>1 DEF IInv, Covered
    <3>2. u \in Unit
      BY <1>2 DEF IInv, Asked
    <3> QED BY <1>1, <1>2, <1>6, <2>1, <3>1, <3>2, FetchedMore, TickFrame
  <2>2. ASSUME host.kind \in {"write", "write64"}, NEW u \in Extent(host)
        PROVE  mem[u] = Datum(g.k, g, u) \/ Reaches(host.chunks, "write", u)
    BY <1>6, <2>2 DEF IInv, Covered, Datum
  <2> QED BY <1>5, <1>6, <1>13, <2>1, <2>2 DEF Covered
<1>21. TransfersExact'
  BY <1>5, <1>6, <1>13 DEF IInv, TransfersExact, InFlight
<1>22. count' \in Nat /\ ref' \in [Unit -> Int]
  BY <1>5 DEF IInv, BridgeTypeOK
<1> QED BY <1>6, <1>15, <1>16, <1>18, <1>19, <1>20, <1>21, <1>22, TickStep

LEMMA ReachesRest ==
  ASSUME NEW s \in Seq(ChunkRec), s # <<>>, NEW op, NEW u, Reaches(s, op, u)
  PROVE  \/ Head(s).op = op /\ u \in Extent(Head(s))
         \/ Reaches(Tail(s), op, u)
<1>1. /\ Tail(s) \in Seq(ChunkRec) /\ Len(s) \in Nat \ {0} /\ Head(s) = s[1]
      /\ Len(Tail(s)) = Len(s) - 1
      /\ \A j \in 1 .. Len(Tail(s)) : Tail(s)[j] = s[j + 1]
  BY FirstChunk, HeadTailProperties
<1>2. PICK j \in 1 .. Len(s) : s[j].op = op /\ u \in Extent(s[j])
  BY DEF Reaches
<1>3. CASE j = 1
  BY <1>1, <1>2, <1>3
<1>4. CASE j > 1
  <2>1. PICK i \in 1 .. Len(Tail(s)) : i + 1 = j
    <3>1. j - 1 \in 1 .. Len(Tail(s)) /\ (j - 1) + 1 = j
      BY <1>1, <1>4
    <3> QED BY <3>1
  <2>2. Tail(s)[i] = s[j]
    BY <1>1, <2>1
  <2> QED BY <1>2, <2>2 DEF Reaches
<1> QED BY <1>3, <1>4

\* The last request of a chunk: all of the chunk is done.
LEMMA ChunkEnds ==
  ASSUME IInv, LoopTick, resp.valid, NEW h, h = Collect(host, resp.data),
         host.kind # "nop", Len(host.reqs) = 1
  PROVE  LET c == Head(host.chunks)
         IN  /\ Quiet
             /\ \A u \in Extent(c) :
                  c.op = "read" /\ (h.kind = "read" \/ u \notin Extent(h)) => h.got[u] = ref[u]
             /\ h.kind = "read" =>
                  \A u \in Extent(h) : h.got[u] = ref[u] \/ Reaches(Tail(h.chunks), "read", u)
             /\ h.kind \in {"write", "write64"} =>
                  \A u \in Extent(h) : \/ mem[u] = Datum(h.k, h, u)
                                       \/ Reaches(Tail(h.chunks), "write", u)
<1> DEFINE c == Head(host.chunks)
           T == Taken(host)
<1>1. /\ h \in HostRec
      /\ h.kind = host.kind /\ h.addr = host.addr /\ h.len = host.len /\ h.tgt = host.tgt
      /\ h.k = host.k /\ h.chunks = host.chunks /\ h.reqs = host.reqs
  BY CollectFacts, TickFrame
<1>2. Extent(h) = Extent(host) /\ \A u : Datum(h.k, h, u) = Datum(host.k, host, u)
  BY <1>1 DEF Extent, Datum
<1>3. /\ c \in ChunkRec /\ Total(c) \in Nat /\ T \in 0 .. Total(c) - 1
      /\ T + Len(host.reqs) = Total(c) /\ Extent(c) \subseteq Unit
  BY HeadRequest
<1>4. /\ host.chunks \in Seq(ChunkRec) /\ host.chunks # <<>>
      /\ Extent(host) \subseteq Unit
  BY DEF IInv, BridgeTypeOK, HostRec, InStep, Asked
<1>5. Pos = T + 1
  BY TickFrame
<1>6. Pos = Total(c) /\ T + 1 = Total(c)
  <2> HIDE DEF c, T
  <2> QED BY <1>3, <1>5
<1>7. c.op \in {"read", "write"} /\ c.addr \in Nat /\ c.len \in Nat \ {0}
  BY <1>3 DEF ChunkRec
<1>8. IF c.op = "read" THEN Reading(c, Total(c)) ELSE Writing(c, Total(c))
  BY <1>6 DEF IInv, Bridge
<1>9. c.op = "read" => Quiet
  <2>1. c.op = "read" => Total(c) % 2 = 0
    <3>1. (2 * c.len) % 2 = 0
      BY <1>7
    <3> QED BY <3>1 DEF Total
  <2> HIDE DEF c
  <2> QED BY <1>8, <2>1 DEF Reading
<1>10. c.op = "write" => Quiet /\ \A u \in Extent(c) : mem[u] = Source(host)[u]
  <2> HIDE DEF c
  <2> QED BY <1>8 DEF Writing
<1>11. ASSUME c.op = "read", NEW u \in Extent(c), h.kind = "read" \/ u \notin Extent(h)
       PROVE  h.got[u] = ref[u]
  <2>1. (T + 1) \div 2 = c.len
    <3>1. T + 1 = 2 * c.len
      BY <1>6, <1>11 DEF Total
    <3> HIDE DEF T, c
    <3> QED BY <1>7, <3>1
  <2>2. u < c.addr + c.len /\ u \in Unit
    BY <1>3, <1>7, <1>11 DEF Extent
  <2>3. u < c.addr + (Taken(host) + 1) \div 2
    BY <2>1, <2>2 DEF T
  <2> HIDE DEF T
  <2> QED BY <1>11, <2>2, <2>3, FetchedMore, TickFrame
<1>12. ASSUME h.kind = "read", NEW u \in Extent(h)
       PROVE  h.got[u] = ref[u] \/ Reaches(Tail(h.chunks), "read", u)
  <2>1. u \in Unit
    BY <1>2, <1>4
  <2>2. host.got[u] = ref[u] \/ Reaches(host.chunks, "read", u)
    BY <1>1, <1>2, <1>12 DEF IInv, Covered
  <2>3. CASE host.got[u] = ref[u]
    BY <1>12, <2>1, <2>3, FetchedMore, TickFrame
  <2>4. CASE Reaches(host.chunks, "read", u)
    <3>1. \/ c.op = "read" /\ u \in Extent(c)
          \/ Reaches(Tail(host.chunks), "read", u)
      BY <1>4, <2>4, ReachesRest
    <3> QED BY <1>1, <1>11, <1>12, <3>1
  <2> QED BY <2>2, <2>3, <2>4
<1>13. ASSUME h.kind \in {"write", "write64"}, NEW u \in Extent(h)
       PROVE  mem[u] = Datum(h.k, h, u) \/ Reaches(Tail(h.chunks), "write", u)
  <2>1. u \in Unit /\ u \in Extent(host)
    BY <1>2, <1>4
  <2>2. mem[u] = Datum(host.k, host, u) \/ Reaches(host.chunks, "write", u)
    BY <1>1, <1>2, <1>13 DEF IInv, Covered
  <2>3. CASE Reaches(host.chunks, "write", u)
    <3>1. \/ c.op = "write" /\ u \in Extent(c)
          \/ Reaches(Tail(host.chunks), "write", u)
      BY <1>4, <2>3, ReachesRest
    <3>2. Source(host)[u] = Datum(host.k, host, u)
      BY <2>1 DEF Source
    <3> QED BY <1>1, <1>2, <1>10, <3>1, <3>2
  <2> QED BY <1>2, <2>2, <2>3
<1> QED BY <1>7, <1>9, <1>10, <1>11, <1>12, <1>13

\* The next chunk of the transfer.
LEMMA NextChunk ==
  ASSUME IInv, LoopTick, resp.valid, NEW h, h = Collect(host, resp.data),
         Len(h.reqs) = 1, Len(h.chunks) > 1, NEW g, g = EnterChunk(h, Tail(h.chunks)), host' = g,
         UNCHANGED <<done, ref, count>>
  PROVE  IInv'
<1> DEFINE c == Head(host.chunks)
           s == Tail(host.chunks)
<1>0. PICK n : n = Head(s)
  OBVIOUS
<1>1. /\ h \in HostRec
      /\ h.kind = host.kind /\ h.addr = host.addr /\ h.len = host.len /\ h.tgt = host.tgt
      /\ h.k = host.k /\ h.chunks = host.chunks /\ h.reqs = host.reqs
  BY CollectFacts, TickFrame
<1>2. host.kind # "nop"
  <2>1. ASSUME host.kind = "nop" PROVE FALSE
    <3>1. host.chunks = <<>>
      BY <2>1 DEF IInv, InStep
    <3>2. Len(host.chunks) = 0
      BY <3>1
    <3> QED BY <1>1, <3>2
  <2> QED BY <2>1
<1>3. /\ mem' = mem /\ dbg' = dbg /\ f' = f /\ done' = done /\ ref' = ref /\ count' = count
      /\ Pos' = Taken(g) + 0
  BY TickFrame
<1>4. /\ host.chunks \in Seq(ChunkRec) /\ host.chunks # <<>> /\ Extent(host) \subseteq Unit
      /\ Fits(host.chunks, host)
  BY <1>2 DEF IInv, BridgeTypeOK, HostRec, InStep, Asked
<1>5. /\ s \in Seq(ChunkRec) /\ Len(host.chunks) \in Nat \ {0} /\ c = host.chunks[1]
      /\ Len(s) = Len(host.chunks) - 1
      /\ \A j \in 1 .. Len(s) : s[j] = host.chunks[j + 1]
  BY <1>4, FirstChunk, HeadTailProperties
<1>6. Len(host.chunks) > 1 /\ Len(host.reqs) = 1
  BY <1>1
<1> HIDE DEF s, c
<1>7. Len(s) > 0 /\ s # <<>> /\ n = s[1] /\ n \in ChunkRec /\ n = host.chunks[2]
  <2>1. Len(s) > 0 /\ 1 \in 1 .. Len(s)
    BY <1>5, <1>6
  <2>2. s # <<>>
    <3>1. Len(<<>>) = 0
      OBVIOUS
    <3> QED BY <2>1, <3>1
  <2>3. s[1] = host.chunks[1 + 1]
    BY <1>5, <2>1
  <2> QED BY <1>0, <1>5, <2>1, <2>2, <2>3, FirstChunk
<1>8. 2 \in 1 .. Len(host.chunks) /\ 2 > 1 /\ 2 - 1 = 1
  BY <1>5, <1>6
<1>9. /\ Extent(n) \subseteq Unit
      /\ n.op = "write" => host.kind # "read" /\ n.len % 2 = 0
      /\ n.op = "write" /\ ~(Extent(n) \subseteq Extent(host)) => c = [n EXCEPT !.op = "read"]
  BY <1>4, <1>5, <1>7, <1>8, ZenonT(60) DEF Fits
<1>10. /\ g \in HostRec /\ g.chunks = s
       /\ g.kind = host.kind /\ g.addr = host.addr /\ g.len = host.len
       /\ g.tgt = host.tgt /\ g.k = host.k /\ g.got = h.got
       /\ Taken(g) = 0 /\ InStep(g)
  <2>1. g = EnterChunk(h, s)
    BY <1>1 DEF s
  <2> QED BY <1>0, <1>1, <1>2, <1>5, <1>7, <1>9, <2>1, Entered
<1>11. Extent(g) = Extent(host) /\ Extent(h) = Extent(host)
       /\ \A u : Datum(h.k, h, u) = Datum(g.k, g, u)
  BY <1>1, <1>10 DEF Extent, Datum
<1>12. Fits(s, host)
  <2> SUFFICES ASSUME NEW j \in 1 .. Len(s)
               PROVE  LET e == s[j]
                      IN  /\ e.len <= chunk_max_size /\ Extent(e) \subseteq Unit
                          /\ e.addr >= MemBase \/ e.addr + e.len <= MemBase
                          /\ e.op = "write" => host.kind # "read" /\ e.len % 2 = 0
                          /\ host.kind = "write64" => e.addr = host.addr /\ e.len = 2
                          /\ e.op = "write" /\ j > 1 /\ ~(Extent(e) \subseteq Extent(host))
                               => s[j - 1] = [e EXCEPT !.op = "read"]
    BY Zenon DEF Fits
  <2>1. PICK i \in 1 .. Len(host.chunks) : i = j + 1
    <3>1. j + 1 \in 1 .. Len(host.chunks)
      BY <1>5
    <3> QED BY <3>1
  <2>2. s[j] = host.chunks[i] /\ i > 1
    BY <1>5, <2>1
  <2>3. j > 1 => s[j - 1] = host.chunks[i - 1]
    <3>1. j > 1 => j - 1 \in 1 .. Len(s) /\ (j - 1) + 1 = i - 1
      BY <1>5, <2>1
    <3> QED BY <1>5, <3>1
  <2> QED BY <1>4, <2>2, <2>3 DEF Fits
<1>13. Asked(g)
  <2>1. Fits(s, g)
    BY <1>10, <1>11, <1>12, FitsSame
  <2> QED BY <1>2, <1>10, <1>11, <2>1 DEF IInv, Asked
<1>14. Quiet
  BY <1>2, <1>6, ChunkEnds
<1>15. Bridge'
  <2>1. Quiet'
    BY <1>3, <1>14 DEF Quiet, NoBurst
  <2>2. Total(n) # 0 /\ Total(n) > 0 /\ n.op \in {"read", "write"}
    BY <1>7 DEF Total, ChunkRec
  <2>3. Pos' = 0 /\ Head(host'.chunks) = n /\ host'.kind = host.kind
    BY <1>0, <1>3, <1>10
  <2>4. n.op = "read" => Reading(n, 0)'
    BY <2>1 DEF Reading
  <2>5. n.op = "write" => Writing(n, 0)'
    <3>1. Total(n)' = Total(n)
      BY DEF Total
    <3> QED BY <2>1, <2>2, <3>1 DEF Writing
  <2> QED BY <1>2, <2>2, <2>3, <2>4, <2>5 DEF Bridge
<1>16. Fetched(host)'
  <2>1. ASSUME NEW u \in Extent(n), g.kind = "read" \/ u \notin Extent(g),
               n.op = "write" \/ u < n.addr + 0 \div 2
        PROVE  g.got[u] = ref[u]
    <3>1. n.addr \in Nat /\ n.len \in Nat /\ n.op \in {"read", "write"}
      BY <1>7 DEF ChunkRec
    <3>2. n.op = "write"
      <4>1. ~(u < n.addr + 0 \div 2)
        <5>1. u \in n.addr .. n.addr + n.len - 1 /\ 0 \div 2 = 0
          BY DEF Extent
        <5> QED BY <3>1, <5>1
      <4> QED BY <2>1, <4>1
    <3>3. u \notin Extent(host)
      BY <1>9, <1>10, <1>11, <2>1, <3>2
    <3>4. c = [n EXCEPT !.op = "read"]
      BY <1>9, <2>1, <3>2, <3>3
    <3>5. c.op = "read" /\ Extent(c) = Extent(n)
      BY <1>7, <3>4 DEF Extent, ChunkRec
    <3>6. u \in Extent(Head(host.chunks)) /\ Head(host.chunks).op = "read" /\ u \notin Extent(h)
      BY <1>11, <2>1, <3>3, <3>5 DEF c
    <3> QED BY <1>2, <1>6, <1>10, <3>6, ChunkEnds
  <2> QED BY <1>0, <1>3, <1>10, <2>1 DEF Fetched
<1>17. Covered(host)'
  <2>1. ASSUME g.kind = "read", NEW u \in Extent(g)
        PROVE  g.got[u] = ref[u] \/ Reaches(s, "read", u)
    BY <1>1, <1>2, <1>6, <1>10, <1>11, <2>1, ChunkEnds DEF s
  <2>2. ASSUME g.kind \in {"write", "write64"}, NEW u \in Extent(g)
        PROVE  mem[u] = Datum(g.k, g, u) \/ Reaches(s, "write", u)
    BY <1>1, <1>2, <1>6, <1>10, <1>11, <2>2, ChunkEnds DEF s
  <2> QED BY <1>3, <1>10, <2>1, <2>2 DEF Covered
<1>18. TransfersExact'
  BY <1>3, <1>10, <1>11 DEF IInv, TransfersExact, InFlight
<1>19. count' \in Nat /\ ref' \in [Unit -> Int]
  BY <1>3 DEF IInv, BridgeTypeOK
<1> QED BY <1>10, <1>13, <1>15, <1>16, <1>17, <1>18, <1>19, TickStep

\* The transfer returns: the target is what the finished transfers leave in it.
LEMMA TransferEnds ==
  ASSUME IInv, LoopTick, resp.valid, NEW h, h = Collect(host, resp.data), Finish(h)
  PROVE  /\ Quiet
         /\ ref' \in [Unit -> Int]
         /\ \A u \in Unit : mem[u] = ref'[u]
         /\ done'.kind = "read" => \A u \in Extent(done') : done'.got[u] = ref'[u]
<1>1. /\ h \in HostRec
      /\ h.kind = host.kind /\ h.addr = host.addr /\ h.len = host.len /\ h.tgt = host.tgt
      /\ h.k = host.k /\ h.chunks = host.chunks /\ h.reqs = host.reqs
  BY CollectFacts, TickFrame
<1>2. /\ Len(h.reqs) = 1 /\ Len(h.chunks) <= 1
      /\ IF h.kind = "nop" THEN UNCHANGED <<done, ref>>
         ELSE /\ done' = h
              /\ ref' = IF h.kind = "read" THEN ref
                        ELSE [u \in Unit |-> IF u \in Extent(h) THEN Datum(h.k, h, u)
                                             ELSE ref[u]]
  BY DEF Finish
<1>3. /\ ref \in [Unit -> Int]
      /\ \A u \in Unit \ InFlight : mem[u] = ref[u]
      /\ done.kind = "read" => \A u \in Extent(done) : done.got[u] = ref[u]
  BY DEF IInv, BridgeTypeOK, TransfersExact
<1>4. Extent(h) = Extent(host)
  BY <1>1 DEF Extent
<1>5. CASE h.kind = "nop"
  <2>1. Quiet
    BY <1>1, <1>5 DEF IInv, Bridge
  <2>2. InFlight = {}
    BY <1>1, <1>5 DEF InFlight
  <2> QED BY <1>2, <1>3, <1>5, <2>1, <2>2
<1>6. CASE h.kind # "nop"
  <2>1. host.kind # "nop" /\ Len(host.reqs) = 1
    BY <1>1, <1>2, <1>6
  <2>2. host.chunks \in Seq(ChunkRec) /\ host.chunks # <<>> /\ Extent(host) \subseteq Unit
    BY <2>1 DEF IInv, BridgeTypeOK, HostRec, InStep, Asked
  <2>3. \A op, u : ~Reaches(Tail(h.chunks), op, u)
    <3>1. Tail(host.chunks) \in Seq(ChunkRec) /\ Len(Tail(host.chunks)) = Len(host.chunks) - 1
          /\ Len(host.chunks) \in Nat \ {0}
      BY <2>2, FirstChunk, HeadTailProperties
    <3>2. ~(1 <= Len(Tail(h.chunks)))
      BY <1>1, <1>2, <3>1
    <3>3. \A j \in 1 .. Len(Tail(h.chunks)) : FALSE
      BY <1>1, <3>1, <3>2
    <3> QED BY <3>3 DEF Reaches
  <2>4. Quiet
    BY <2>1, ChunkEnds
  <2>5. CASE h.kind = "read"
    <3>1. InFlight = {} /\ ref' = ref /\ done' = h
      BY <1>1, <1>2, <2>5 DEF InFlight
    <3>2. \A u \in Extent(h) : h.got[u] = ref[u]
      BY <2>1, <2>3, <2>5, ChunkEnds
    <3> QED BY <1>3, <2>4, <3>1, <3>2
  <2>6. CASE h.kind # "read"
    <3>1. h.kind \in {"write", "write64"} /\ h.addr \in Nat /\ h.k \in Nat
      BY <1>1, <1>6, <2>6 DEF HostRec
    <3>2. /\ done' = h
          /\ ref' = [u \in Unit |-> IF u \in Extent(h) THEN Datum(h.k, h, u) ELSE ref[u]]
      BY <1>2, <1>6, <2>6
    <3>3. ref' \in [Unit -> Int]
      <4>1. \A u \in Unit : Datum(h.k, h, u) \in Int
        BY <3>1, Constants DEF Datum
      <4> QED BY <1>3, <3>2, <4>1
    <3>4. ASSUME NEW u \in Unit PROVE mem[u] = ref'[u]
      <4>1. CASE u \in Extent(h)
        <5>1. mem[u] = Datum(h.k, h, u)
          BY <2>1, <2>3, <3>1, <4>1, ChunkEnds
        <5> QED BY <3>2, <4>1, <5>1
      <4>2. CASE u \notin Extent(h)
        <5>1. u \notin InFlight
          BY <1>4, <4>2 DEF InFlight
        <5> QED BY <1>3, <3>2, <4>2, <5>1
      <4> QED BY <4>1, <4>2
    <3> QED BY <2>4, <2>6, <3>2, <3>3, <3>4
  <2> QED BY <2>5, <2>6
<1> QED BY <1>5, <1>6

\* The host idles, or asks for the next transfer.
LEMMA NextTransfer ==
  ASSUME IInv, LoopTick, resp.valid, NEW h, h = Collect(host, resp.data), Finish(h)
  PROVE  IInv'
<1>1. /\ Quiet /\ ref' \in [Unit -> Int]
      /\ \A u \in Unit : mem[u] = ref'[u]
      /\ done'.kind = "read" => \A u \in Extent(done') : done'.got[u] = ref'[u]
  BY TransferEnds
<1>2. h \in HostRec /\ count \in Nat
  BY CollectFacts, TickFrame DEF IInv, BridgeTypeOK
<1>3. mem' = mem /\ f' = f /\ Pos' = Taken(host') + 0
  BY TickFrame
<1>4. Quiet'
  BY <1>1, <1>3 DEF Quiet, NoBurst
<1>5. TransfersExact'
  BY <1>1, <1>3 DEF TransfersExact
<1>6. ASSUME host' = Idle(h), count' = count
      PROVE  IInv'
  <2>1. PICK g : g = Idle(h)
    OBVIOUS
  <2>2. g \in HostRec /\ g.kind = "nop" /\ g.chunks = <<>> /\ g.reqs = <<NopReq>>
    <3>1. NopReq \in ReqRec
      BY DEF NopReq, Req, ReqRec
    <3>2. <<NopReq>> \in Seq(ReqRec) /\ <<>> \in Seq(ChunkRec)
      BY <3>1
    <3> HIDE DEF ReqRec, ChunkRec
    <3> QED BY <1>2, <2>1, <3>2 DEF Idle, HostRec
  <2>3. host' = g
    BY <1>6, <2>1
  <2>4. InStep(g) /\ Asked(g)
    BY <2>2 DEF InStep, Asked
  <2>5. Bridge' /\ Fetched(host)' /\ Covered(host)'
    BY <1>4, <2>2, <2>3 DEF Bridge, Fetched, Covered
  <2> QED BY <1>1, <1>2, <1>5, <1>6, <2>2, <2>3, <2>4, <2>5, TickStep
<1>7. ASSUME NEW o \in Ops, count' = count + 1, host' = Begin(h, o, count')
      PROVE  IInv'
  <2>1. PICK b, p, k : /\ k = count'
                       /\ b = [h EXCEPT !.kind = o.kind, !.addr = o.addr, !.len = o.len,
                                        !.tgt = o.tgt, !.k = k]
                       /\ p = ChunksOf(o)
    OBVIOUS
  <2>2. /\ o.kind \in {"read", "write", "write64"} /\ o.addr \in Nat /\ o.len \in Nat \ {0}
        /\ Extent(o) \subseteq Unit
        /\ IF o.kind = "write64"
           THEN o.tgt = "L2" /\ (o.addr < MemBase \/ o.addr \in {tohost_addr, fromhost_addr})
           ELSE o.tgt = "DMA"
    BY BridgeAssumption
  <2>3. k \in Nat
    BY <1>2, <1>7, <2>1
  <2>4. /\ b \in HostRec /\ b.kind = o.kind /\ b.addr = o.addr /\ b.len = o.len
        /\ b.tgt = o.tgt /\ b.k = k
    <3>1. o.tgt \in {"DMA", "L2"}
      BY <2>2
    <3> QED BY <1>2, <2>1, <2>2, <2>3, <3>1 DEF HostRec
  <2>5. /\ p \in Seq(ChunkRec) /\ p # <<>> /\ Fits(p, o)
        /\ Head(p).op = "write" => Extent(Head(p)) \subseteq Extent(o)
        /\ \A u \in Extent(o) :
             Reaches(p, IF o.kind = "read" THEN "read" ELSE "write", u)
    BY <2>1, NewChunks
  <2>6. Head(p) \in ChunkRec /\ 1 \in 1 .. Len(p) /\ Head(p) = p[1]
    BY <2>5, FirstChunk
  <2>7. Extent(Head(p)) \subseteq Unit /\ (Head(p).op = "write" => Head(p).len % 2 = 0)
    BY <2>5, <2>6 DEF Fits
  <2>8. PICK g : g = EnterChunk(b, p)
    OBVIOUS
  <2>9. host' = g
    BY <1>7, <2>1, <2>8 DEF Begin, ChunksOf
  <2>10. /\ g \in HostRec /\ g.chunks = p
         /\ g.kind = o.kind /\ g.addr = o.addr /\ g.len = o.len /\ g.tgt = o.tgt
         /\ Taken(g) = 0 /\ InStep(g)
    BY <2>2, <2>4, <2>5, <2>7, <2>8, Entered
  <2>11. Extent(g) = Extent(o)
    BY <2>10 DEF Extent
  <2>12. Asked(g)
    <3>1. Fits(p, g)
      BY <2>5, <2>10, <2>11, FitsSame
    <3> QED BY <2>2, <2>10, <2>11, <3>1 DEF Asked
  <2>13. PICK n : n = Head(p)
    OBVIOUS
  <2>14. Bridge'
    <3>1. Total(n) # 0 /\ Total(n) > 0 /\ n.op \in {"read", "write"}
      BY <2>6, <2>13 DEF Total, ChunkRec
    <3>2. Pos' = 0 /\ Head(host'.chunks) = n /\ host'.kind # "nop"
      BY <1>3, <2>2, <2>9, <2>10, <2>13
    <3>3. n.op = "read" => Reading(n, 0)'
      BY <1>4 DEF Reading
    <3>4. n.op = "write" => Writing(n, 0)'
      <4>1. Total(n)' = Total(n)
        BY DEF Total
      <4> QED BY <1>4, <3>1, <4>1 DEF Writing
    <3> QED BY <3>1, <3>2, <3>3, <3>4 DEF Bridge
  <2>15. Fetched(host)'
    <3>1. ASSUME NEW u \in Extent(n), g.kind = "read" \/ u \notin Extent(g),
                 n.op = "write" \/ u < n.addr + 0 \div 2
          PROVE  FALSE
      <4>1. n.addr \in Nat /\ n.len \in Nat
        BY <2>6, <2>13 DEF ChunkRec
      <4>2. ~(u < n.addr + 0 \div 2)
        <5>1. u \in n.addr .. n.addr + n.len - 1 /\ 0 \div 2 = 0
          BY DEF Extent
        <5> QED BY <4>1, <5>1
      <4>3. n.op = "write" /\ u \in Extent(g)
        BY <2>5, <2>11, <2>13, <3>1, <4>2
      <4>4. o.kind # "read"
        BY <2>5, <2>6, <2>13, <4>3 DEF Fits
      <4> QED BY <2>10, <3>1, <4>3, <4>4
    <3> QED BY <2>9, <2>10, <2>13, <3>1 DEF Fetched
  <2>16. Covered(host)'
    BY <2>5, <2>9, <2>10, <2>11 DEF Covered
  <2> QED BY <1>1, <1>2, <1>5, <1>7, <2>1, <2>3, <2>9, <2>10, <2>12, <2>14, <2>15, <2>16, TickStep
<1>8. \/ host' = Idle(h) /\ count' = count
      \/ \E o \in Ops : count' = count + 1 /\ host' = Begin(h, o, count')
  BY DEF Finish
<1> QED BY <1>6, <1>7, <1>8

-----------------------------------------------------------------------------
(* Every step preserves the invariant. *)

LEMMA InitIInv == Init => IInv
<1> SUFFICES ASSUME Init PROVE IInv
  OBVIOUS
<1>1. /\ req_wait = FALSE /\ resp_wait = FALSE /\ host = Blank /\ done = Blank
      /\ ref = [u \in Unit |-> 0] /\ count = 0 /\ mem = [u \in Unit |-> 0] /\ dbg = 0
      /\ f = [state |-> "IDLE", rcvd_addr |-> 0, odd |-> FALSE,
              data |-> [LO |-> 0, HI |-> 0], addr |-> 0, is_incremental |-> FALSE,
              is_burst |-> FALSE, burst |-> <<>>]
      /\ resp = [valid |-> FALSE, data |-> 0] /\ pc = "tick"
  BY DEF Init, DtmInit
<1>2. /\ host \in HostRec /\ host.kind = "nop" /\ host.chunks = <<>> /\ host.reqs = <<NopReq>>
  <2>1. NopReq \in ReqRec
    BY DEF NopReq, Req, ReqRec
  <2>2. <<NopReq>> \in Seq(ReqRec) /\ <<>> \in Seq(ChunkRec)
    BY <2>1
  <2> HIDE DEF ReqRec, ChunkRec
  <2> QED BY <1>1, <2>2 DEF Blank, HostRec
<1>3. f \in LocalRec /\ Quiet
  <2>1. <<>> \in Seq(Int \X Int)
    OBVIOUS
  <2> QED BY <1>1, <2>1 DEF LocalRec, Quiet, NoBurst
<1>4. BridgeTypeOK /\ Handshake
  <2>1. mem \in [Unit -> Int] /\ ref \in [Unit -> Int] /\ dbg \in Int /\ count \in Nat
    BY <1>1
  <2>2. resp \in [valid : BOOLEAN, data : Int] /\ ~resp.valid
    BY <1>1
  <2>3. pc \in {"tick", "serve"} /\ req_wait \in BOOLEAN /\ ~req_wait /\ ~resp_wait
    BY <1>1
  <2>4. BridgeTypeOK
    BY <1>2, <1>3, <2>1, <2>2, <2>3 DEF BridgeTypeOK
  <2>5. Handshake
    BY <2>2, <2>3 DEF Handshake
  <2> QED BY <2>4, <2>5
<1>5. InStep(host) /\ Asked(host) /\ Bridge /\ Answer /\ Fetched(host) /\ Covered(host)
  BY <1>2, <1>3 DEF InStep, Asked, Bridge, Answer, Fetched, Covered
<1>6. TransfersExact
  <2>1. done.kind = "nop"
    BY <1>1 DEF Blank
  <2> QED BY <1>1, <2>1 DEF TransfersExact
<1> QED BY <1>4, <1>5, <1>6 DEF IInv

LEMMA StepIInv == IInv /\ [Next]_vars => IInv'
<1> SUFFICES ASSUME IInv, [Next]_vars PROVE IInv'
  OBVIOUS
<1>1. CASE LoopTick
  <2>1. CASE ~resp.valid
    BY <1>1, <2>1, TickIdle
  <2>2. CASE resp.valid
    <3>1. PICK h : h = Collect(host, resp.data)
      OBVIOUS
    <3>2. Proceed(h) \/ Finish(h)
      BY <1>1, <2>2, <3>1, TickFrame
    <3>3. CASE Finish(h)
      BY <1>1, <2>2, <3>1, <3>3, NextTransfer
    <3>4. ASSUME Len(h.reqs) > 1, host' = [h EXCEPT !.reqs = Tail(@)],
                 UNCHANGED <<done, ref, count>>
          PROVE  IInv'
      <4>1. PICK g : g = Advance(h)
        OBVIOUS
      <4>2. host' = g
        BY <3>4, <4>1 DEF Advance
      <4> QED BY <1>1, <2>2, <3>1, <3>4, <4>1, <4>2, NextRequest
    <3>5. ASSUME Len(h.reqs) = 1, Len(h.chunks) > 1, host' = EnterChunk(h, Tail(h.chunks)),
                 UNCHANGED <<done, ref, count>>
          PROVE  IInv'
      <4>1. PICK g : g = EnterChunk(h, Tail(h.chunks))
        OBVIOUS
      <4>2. host' = g
        BY <3>5, <4>1
      <4> QED BY <1>1, <2>2, <3>1, <3>5, <4>1, <4>2, NextChunk
    <3> QED BY <3>2, <3>3, <3>4, <3>5 DEF Proceed
  <2> QED BY <2>1, <2>2
<1>2. CASE LoopNoRequest
  BY <1>2, NoRequestStep
<1>3. CASE LoopServe
  BY <1>3, ServeStep
<1>4. CASE UNCHANGED vars
  <2>1. /\ host' = host /\ done' = done /\ ref' = ref /\ count' = count
        /\ req_wait' = req_wait /\ resp_wait' = resp_wait
        /\ mem' = mem /\ dbg' = dbg /\ f' = f /\ resp' = resp /\ pc' = pc
    BY <1>4 DEF vars, dtmVars
  <2>2. Pos' = Pos
    BY <2>1 DEF Pos, Taken
  <2>3. Bridge'
    BY <2>1, <2>2 DEF IInv, Bridge, Reading, Writing, Words, Spells, Quiet, NoBurst, Special
  <2>4. Answer'
    BY <2>1, <2>2 DEF IInv, Answer
  <2> QED BY <2>1, <2>3, <2>4
          DEF IInv, BridgeTypeOK, Handshake, Fetched, Taken, Covered, TransfersExact, InFlight
<1> QED BY <1>1, <1>2, <1>3, <1>4 DEF Next

-----------------------------------------------------------------------------
\* Reads return what the target holds, writes change their own range and nothing
\* else, whatever their alignment and length: memif's chunks, dtm's requests and
\* the address arithmetic of the bridge agree.
THEOREM TransfersAreExact == Spec => []TransfersExact
<1>1. IInv => TransfersExact
  BY DEF IInv
<1> QED BY InitIInv, StepIInv, <1>1, PTL DEF Spec

\* assert(resp_wait) in dtm_t::tick never fails.
THEOREM ResponseIsAwaited == Spec => []ResponseAwaited
<1>1. IInv => ResponseAwaited
  BY DEF IInv, Handshake, ResponseAwaited
<1> QED BY InitIInv, StepIInv, <1>1, PTL DEF Spec

\* burst_data has room for every burst: a chunk of chunk_max_size units makes
\* at most chunk_max_size / 2 words, and the last of them is never kept.
THEOREM BurstAlwaysFits == Spec => []BurstFits
<1>1. IInv => BurstFits
  <2> SUFFICES ASSUME IInv PROVE BurstFits
    OBVIOUS
  <2> DEFINE c == Head(host.chunks)
             T == Pos
  <2>1. BurstCap \in Nat /\ chunk_max_size \div 2 <= BurstCap /\ chunk_max_size \in Nat
    BY Constants
  <2>2. CASE NoBurst
    <3>1. Len(f.burst) = 0 /\ ~f.is_burst
      BY <2>2 DEF NoBurst
    <3> QED BY <2>1, <3>1 DEF BurstFits
  <2>3. CASE ~NoBurst
    <3>1. host.kind # "nop" /\ c.op = "write" /\ Writing(c, Pos)
      <4>1. host.kind # "nop"
        BY <2>3 DEF IInv, Bridge, Quiet
      <4>2. c.op # "read"
        BY <2>3, <4>1 DEF IInv, Bridge, Reading, Quiet
      <4>3. c.op \in {"read", "write"}
        BY <4>1, HeadRequest DEF ChunkRec
      <4> QED BY <4>1, <4>2, <4>3 DEF IInv, Bridge
    <3>2. /\ c \in ChunkRec /\ Taken(host) \in 0 .. Total(c) - 1 /\ Total(c) \in Nat
          /\ c.len <= chunk_max_size /\ c.len % 2 = 0 /\ Total(c) = 2 + c.len
      BY <3>1, HeadRequest DEF Total
    <3>3. c.len \in Nat /\ c.addr \in Nat
      BY <3>2 DEF ChunkRec
    <3>4. PICK p : p = Pos
      OBVIOUS
    <3>5. p \in 0 .. Total(c) /\ p \in Nat
      <4>1. PICK t \in 0 .. Total(c) - 1 : t = Taken(host)
        BY <3>2
      <4>2. p = t + 1 \/ p = t + 0
        BY <3>4, <4>1 DEF Pos
      <4> HIDE DEF c
      <4> QED BY <3>2, <4>1, <4>2
    <3>6. p > 1 /\ p < Total(c) /\ Words(c, (p - 2) \div 2)
      <4>1. p # 0 /\ p # 1 /\ p # Total(c)
        BY <2>3, <3>1, <3>4 DEF Writing, Quiet
      <4>2. p > 1 /\ p < Total(c)
        <5> HIDE DEF c
        <5> QED BY <3>2, <3>5, <4>1
      <4> QED BY <3>1, <3>4, <4>2 DEF Writing
    <3> HIDE DEF c
    <3>7. PICK k \in Nat : k = (p - 2) \div 2
      <4>1. (p - 2) \div 2 \in Nat
        BY <3>5, <3>6
      <4> QED BY <4>1
    <3>8. k + 1 <= chunk_max_size \div 2
      BY <2>1, <3>2, <3>3, <3>5, <3>6, <3>7
    <3>9. Len(f.burst) \in Nat /\ Len(f.burst) <= k
      BY <3>3, <3>6, <3>7, WordsSoFar DEF IInv, BridgeTypeOK
    <3>10. k + 1 <= BurstCap
      <4>1. PICK m \in Int : m = chunk_max_size \div 2
        BY <2>1
      <4> QED BY <2>1, <3>8, <4>1
    <3>11. Len(f.burst) + 1 <= BurstCap /\ Len(f.burst) + 0 <= BurstCap
      BY <2>1, <3>9, <3>10
    <3> QED BY <3>11 DEF BurstFits
  <2> QED BY <2>2, <2>3
<1> QED BY InitIInv, StepIInv, <1>1, PTL DEF Spec
=============================================================================
