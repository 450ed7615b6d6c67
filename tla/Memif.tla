------------------------------- MODULE Memif -------------------------------
(***************************************************************************)
(* memif_t: how a read or a write of the host is cut into chunks.  The     *)
(* unit of length and address is four bytes, what one pair of DMI requests *)
(* reads; chunk_align() is then two units.                                 *)
(***************************************************************************)
EXTENDS Integers, Sequences, FiniteSetsExt

CONSTANTS chunk_align,      \* units of one aligned chunk
          chunk_max_size,   \* units of the largest chunk
          MemBase           \* 0x80000000: below it nothing is aligned

ASSUME MemifAssumption ==
  /\ chunk_align \in Nat \ {0}
  /\ chunk_max_size \in Nat \ {0}
  /\ chunk_max_size % chunk_align = 0
  /\ MemBase % chunk_align = 0

Chunk(op, a, n) == [op |-> op, addr |-> a, len |-> n]

Down(a) == a - (a % chunk_align)

\* this_len of the unaligned head, and of the tail once the head is done.
HeadLen(a, n) ==
  IF a >= MemBase /\ a % chunk_align # 0
  THEN Min({n, chunk_align - (a % chunk_align)})
  ELSE 0

TailLen(a, n) ==
  IF a >= MemBase THEN (n - HeadLen(a, n)) % chunk_align ELSE 0

\* Mutant: a chunk is not cut off at chunk_max_size.
BodyUncut(op, a, n) ==
  [i \in 1 .. (n + chunk_max_size - 1) \div chunk_max_size |->
     LET pos == (i - 1) * chunk_max_size
     IN  Chunk(op, a + pos, n - pos)]

\* for (pos = 0; pos < len; pos += chunk_max_size)
Body(op, a, n) ==
  [i \in 1 .. (n + chunk_max_size - 1) \div chunk_max_size |->
     LET pos == (i - 1) * chunk_max_size
     IN  Chunk(op, a + pos, Min({chunk_max_size, n - pos}))]

\* One partial chunk: read, or read, patched and written back.
Partial(op, a) ==
  IF op = "read" THEN <<Chunk("read", a, chunk_align)>>
  ELSE <<Chunk("read", a, chunk_align), Chunk("write", a, chunk_align)>>

\* Mutant: the tail is looked for before the head has been taken off.
PlanStaleTail(op, a, n) ==
  LET h == HeadLen(a, n)
      t == IF a >= MemBase THEN n % chunk_align ELSE 0
  IN  (IF h > 0 THEN Partial(op, Down(a)) ELSE <<>>)
        \o (IF t > 0 /\ t <= n - h THEN Partial(op, a + n - t) ELSE <<>>)
        \o Body(op, a + h, IF t <= n - h THEN n - h - t ELSE 0)

\* memif_t::read and memif_t::write: head, tail, then the aligned rest.
Plan(op, a, n) ==
  LET h == HeadLen(a, n)
      t == TailLen(a, n)
  IN  (IF h > 0 THEN Partial(op, Down(a)) ELSE <<>>)
        \o (IF t > 0 THEN Partial(op, a + n - t) ELSE <<>>)
        \o Body(op, a + h, n - h - t)
=============================================================================
