# A TLA+ verification project for ORV64

This directory models the parts of the ORV64 repository in which concurrency,
ordering and bookkeeping decide whether the processor, and the host and guest
software that run programs on it, are correct, checks the
models with TLC on small instances, and proves their central properties with
TLAPS for every size. All paths below are relative to the root of the
repository (`src/` in `PROJECT.json`).

Contents: [the system](#1-the-system), [hard behaviours](#2-what-is-hard-here),
[modules](#3-the-modules-and-the-code), [runs](#4-the-runs),
[fairness](#5-fairness), [proofs](#6-the-proofs), [findings](#7-findings),
[not modelled](#8-what-is-not-modelled), [plan](#9-plan).

## 1. The system

ORV64 is a 64-bit RISC-V processor (RV64IMAC, Sv39, PMP) with a five-stage
in-order pipeline, written in SystemVerilog, together with the cache, the
interconnect and the peripherals of a small SoC. Everything runs on one clock;
modules talk over valid/ready channels: data moves in a cycle in which the sender
raises `valid` and the receiver raises `ready`.

| Part | Sources | State | Operations | Correct when |
|---|---|---|---|---|
| FIFO and valid/ready buffer | `rtl/lib/ours_ip/ours_fifo.sv`, `ours_vld_rdy_buf.sv` | ring, head, tail, empty and full flags | write, read, both, reset | it is a queue: nothing lost, repeated, reordered |
| Round-robin arbiter | `rtl/lib/ours_ip/ours_vld_rdy_rr_arb.sv` | FSM, frozen grant, last granted input | grant, hold, release | one grant, stable until accepted, nobody starves |
| Buffered arbiter | `rtl/lib/ours_ip/ours_vld_rdy_rr_arb_buf.sv` | a buffer per input, arbiter, output buffer, gated clock | push, grant, pop | every item comes out once, in the order of its input; the clock does not stop on an item |
| Page-table walker | `rtl/orv64/orv64_ptw_core.sv` | FSM, level, directory, exception, request, leaf | accept, PMP fault, read, respond, return | its answer is the architecture's verdict on the tables it read |
| Permission checks | `rtl/orv64/orv64_perm_checker.sv`, in `orv64_tlb.sv` | none | pure logic | agrees with the privileged architecture |
| TLB | `rtl/orv64/orv64_tlb.sv` | FSM, entries, request, pending SFENCE | accept, hit, miss, fill, flush | no stale translation after SFENCE.VMA |
| L2 cache bank | `rtl/cache/cache_bank.sv`, `cache_mshr.sv`, `cache_func.sv` | three pipeline stages, valid/dirty/tag/data RAM, MSHRs, command FIFOs, lock, reservation | read, write, flush, LR/SC, atomics, barrier, refill, write-back | reads return the latest write; atomics are atomic; nothing waits for ever |
| LRU functions | `rtl/common/pygmy_func.sv`, `rtl/cache/cache_func.sv` | LRU bits | update, choose | an enabled way is chosen |
| Fetch, instruction buffer, L1 I-cache | `rtl/orv64/orv64_fetch.sv`, `orv64_inst_buffer.sv`, `orv64_icache.sv` | PC, line buffer, AMO FSM, cache FSM | fetch, redirect, kill, fill | the instructions delivered are those of the PC stream |
| Decode, execute, stall | `rtl/orv64/orv64_decode.sv`, `orv64_execute.sv`, `orv64_stall.sv` | pipeline registers, scoreboard | issue, stall, kill | in-order semantics |
| Memory access, data-cache bypass, store buffer | `rtl/orv64/orv64_mem_access.sv`, `orv64_dcache_bypass.sv`, `orv64_storebuf_bypass.sv` | FSM, pending requests | load, store, fence, atomic | each access once, fences wait |
| CSRs and traps | `rtl/orv64/orv64_csr.sv`, `orv64_edeleg_checker.sv`, `orv64_ideleg_checker.sv` | CSRs, privilege | read, write, trap, return | privileged architecture |
| PMP | `rtl/orv64/orv64_pmp_checker.sv`, `orv64_pmp_match.sv`, `orv64_napot_addr.sv` | none | match | privileged architecture |
| Arithmetic, floating point | `rtl/orv64/orv64_alu.sv`, `orv64_mul.sv`, `orv64_div.sv`, `orv64_fp_mac.sv` | iteration counters | start, done | arithmetic |
| DMA and flush engine | `rtl/dma/dma_thread.sv`, `dma_flush.sv` | threads, counters | copy, flush | every line copied or flushed, completion last |
| NoCs | `rtl/cpu_noc`, `rtl/mem_noc` | FIFOs and arbiters | route | every request answered at its port |
| Ours ring | `rtl/oursring*` | stations, junctions | register access | every access answered |
| Boot and host bridges | `rtl/test_io`, `rtl/jtag2or`, `rtl/fpga_pcie2oursring`, `rtl/usb` | FSMs | boot, debug | |
| Interrupts, timer | `rtl/plic`, `rtl/timer` | pending bits, counter | raise, claim | |
| Generated and vendored | `subproj/es1y`, `rtl/synplify`, `rtl/lib/sdlib`, `rtl/axi2ahb`, `rtl/axi2axi_cdc`, `rtl/vcore_gen2`, `rtl/vp_fp`, `rtl/png-32` | | | |
| Host memory interface and FPGA bridge | `tool/fesvr/fesvr/memif.cc`, `dtm.cc`; `tool/driver/es1y_fpga_vcu118/fesvr2socket.c`, `debug_tick.c`, `common-socket.c` | chunks and requests left, two wait flags; the bridge's state, address, half word, burst buffer | read, write, tick, serve | a transfer touches exactly the words it names, and ends |
| HTIF loop, devices, system-call proxy | `tool/fesvr/fesvr/htif.cc`, `device.cc`, `syscall.cc`; the guest's side `tb/test_program/benchmarks/common/syscalls.c` | tohost, fromhost, response queue, pending reads, descriptor table, exit code | poll, serve, answer, freeze, resume | commands served once and in order, each call gets its own answer, a small exit code arrives |
| Virtual-memory test supervisor | `tb/test_program/env/v/vm.c`, `riscv_test.h` | last-level table, free list, mappings | fault, copy, evict, terminate | no assertion of it fails; pages keep their data |
| Bring-up, training tables, other host tools | `tool/fesvr/fesvr/es1y`, rest of `tool/driver`, `tool/hydra` | | | |

How they interact. The core sends fetches, loads, stores and page-table reads
through the CPU NoC to the L2 banks, which talk to memory through the memory NoC.
Each of the two L1 sides has a TLB, and each TLB a walker whose reads go to the L2
like any other request. The CSR unit owns `satp` and the privilege, which the TLB
reads as wires; decode sends SFENCE.VMA to the TLBs. An atomic operation is two
requests to the L2: `AMO_LR` locks the bank, the core computes, and the store half
arrives on a port of its own (`cpu_amo_store_noc`). The DMA engine and the flush
engine are further clients of the L2. Every channel between them is a FIFO
(`ours_vld_rdy_buf`), every many-to-one point a round-robin arbiter.

On the host, `htif_t::run` is a coroutine that reads and writes the chip's memory
through `memif_t` and `dtm_t`; each of their requests is handed to the bridge by
`dtm_t::tick`, which `fesvr2socket` calls in a loop and serves over a socket. Host
and guest share three places in memory: `tohost`, `fromhost` and the block
`magic_mem` of a system call.

## 2. What is hard here

The complete list, line by line, is `hazards` in `PROJECT.json`. In short:

- **Flags and pointers updated from old values** (FIFO flags, the arbiter's
  rotation pointer, `rffce_no_outstanding_req`): right or wrong only over several
  cycles.
- **State read in one stage and used in a later one**: the L2 reads valid bits in
  stage 1, tags in stage 2, and decides hit, victim and dirty bit in stage 3, while
  refills write all of them. It relies on one transaction per index and on
  forwarding from the last burst.
- **Shared ports**: refills and hits share the RAM ports and the response channel.
- **Two-part operations**: atomics (lock, load, store), SFENCE against a walk in
  progress, an MSHR whose victim's dirty bit comes a cycle after its allocation.
- **Software that changes the tables at any moment**: page tables and `satp` change
  between the reads of one walk.
- **Resources at their limit**: no free MSHR, full FIFO, TLB without an empty entry.
- **A command word read in halves while its writer runs**: the host sees `tohost`
  four bytes at a time, and clears it before it serves the command.
- **State kept between requests in two programs**: the host cuts a transfer into
  chunks and requests, the bridge puts it together again from the addresses alone.
- **Software A and D bits under a TLB** that may keep or drop an entry at any time.
- **Progress**: the lock waits for older misses, which need the pipeline the locked
  request stands in; an SFENCE waits for a request that waits for a walk.

## 3. The modules and the code

In all modules of hardware blocks a step is one rising clock edge or, in `Tlb` and
`Ptw`, one transition of an FSM. Names of registers, wires and states are those of
the source. `PROJECT.json` maps every definition to its lines.

| Module | Contents |
|---|---|
| `BoundedQueue` | abstract: a queue of at most `Depth` items behind valid/ready ports |
| `OursFifo` | `ours_fifo` inside `ours_vld_rdy_buf`; refines `BoundedQueue` |
| `RrArb` | `ours_vld_rdy_rr_arb` |
| `ArbBuf` | `ours_vld_rdy_rr_arb_buf`: composition of `OursFifo` and `RrArb` |
| `Ptw` | `orv64_ptw_core`; one action per FSM transition |
| `PtwTrail` | `Ptw` with a record of the PTEs it read, to state what the answer must be |
| `PtePerm` | the permission logic of the TLB response, as operators |
| `Translate` | composition: `PtwTrail` and `PtePerm`, the answer to a TLB miss |
| `Tlb` | `orv64_tlb`: state and one action per transition |
| `Mmu` | composition: `Tlb`, `Ptw`, page tables, SFENCE.VMA, context changes |
| `L2Bank` | `cache_bank` with `cache_mshr`, one clock edge per step |
| `Memif` | `memif_t`: a transfer as a sequence of chunks, as operators |
| `Dtm` | `dtm_t`: chunks as DMI requests, the host coroutine and `tick` |
| `Fesvr2Socket` | composition: `Dtm`, the loop of the bridge and the target |
| `Htif` | `htif_t::run`, its devices and proxy, and the guest they serve |
| `Vm` | `vm.c` over a core with a TLB |
| `MC*` | constants and request sets for TLC |
| `*_proofs` | theorems about `RrArb`, `ArbBuf` (with `OursFifo`), `PtwTrail` and `Translate`, `Mmu`, `L2Bank`, `Fesvr2Socket` (with `Dtm` and `Memif`), `Htif`, `Vm` |

**OursFifo.** `BufClk(slave_valid, slave_info, master_ready)` is the clock edge;
`Flags` is the `unique case` on write and read enables; `FifoReset` clears pointers and
flags and leaves the RAM. `edge` keeps, as history, the inputs of the last edge (is
`rstn` high, what is offered, is the consumer ready), so that `BoundedQueue` can say
what each edge must do to the queue: what was offered is appended exactly if
`slave_ready` was up, the item shown leaves exactly if the consumer was ready, and
only an edge with `rstn` low clears anything. `DEPTH = 1` (a variant of its own in the code) is the
ring with one slot; `DEPTH = 0` is a wire and has no state. The code asserts that
`DEPTH` is a power of two and lets the pointers overflow; the model wraps at
`Depth`, which is the same for powers of two.

**RrArb.** A state holds the input wires of one cycle (`vld`, `rdy`) and the
registers. The priority rotation is `Dist`, the distance from the last grant.
`passed` counts, as history, the transfers of others while an input waits. After a
hold the code loads the rotation pointer from `next_grt` and not from the grant
that was served; the model does the same, and the bound on bypassing holds all the
same.

**ArbBuf.** One step is an edge of the gated clock: the arbiter of `RrArb` sees the
input buffers' heads as `vld` and the room of the output ring of `OursFifo` as
`rdy`. The input buffers are queues, which is what `RefinesQueue` shows a ring to
be. `clk_en` guards the step. Items carry their input and a parity bit, which is
enough to notice a loss, a repetition or a swap. A reset, which empties everything,
is not a step of the composition.

**Ptw.** A VPN or PPN is a function from level to part, so the superpage alignment
test and the descent by VPN parts keep their structure. A PTE read returns any PTE
of `PTEs`: the tables may be rewritten between any two reads. The verdict of the
PMP on a PTE address is an input. A PTE that is invalid and no leaf lowers the level
and loads the directory before the fault is raised (`orv64_ptw_core.sv:213-230`), so
the level of a fault means nothing. In `PtwTrail`, `root` and `trail` record what the
walk read.

**PtePerm** has the checks on a leaf (U, SUM, MXR, MPRV, execute, A and D). The
out-of-range check on the translated address is not in it. **Translate** applies
them to what the walker returns, in the privilege state of the response cycle, and
compares the outcome with the architecture's rules, which are stated over the chain
of PTEs and not over what the walker kept of it.

**Tlb and Mmu.** The handshakes between TLB and walker are joint steps. What the
hardware can do in one cycle on different registers (answer a hit and raise the
pending-SFENCE flag) is two steps in either order. The LRU choice of a full TLB is
left open. `Mmu` adds software: it may store to page tables at any moment, change
address space or privilege when the instruction buffer is idle
(`translation_change_rdy`), and issue SFENCE.VMA. It keeps one root table per ASID
and the three assumptions of the module: pointers name tables (`TablesAssumption`);
an address that is flushed by itself is never mapped by a superpage, because
`orv64_tlb` compares the whole VPN also with the entry of a superpage
(`SfenceAssumption`); a global page is in a table that all address spaces share by
pointers that stay, because a flush by ASID removes the entries with that tag and
leaves the same page filed under another (`GlobalAssumption`). `seen` records, per
ASID, VPN and address of a PTE, the PTEs that a read after the last SFENCE about
that ASID and VPN may return; a flush by ASID does not order the reads of global
leaves. `MayAnswer` and `MayFault` say how a walk may end each of whose reads returns
one of them: a walk is several reads, and software may store between any two, so
that its outcome need not be one the tables gave at any single moment. An address of
the tables in `PmpDenied` faults. An SFENCE
with an ASID and an address clears entries that match *either* (as the code does),
which clears more than needed. The code passes the *values* of rs1 and rs2, so a
zero value counts as x0; the model takes the resulting type as given. The debug
port is left out.

**L2Bank.** Wires the bank does not drive are the fields of `in`; `Inputs` says
what they can be. `Pipeline`, `Miss`, `Data` and `Core` give the next value of each
register; the combinational wires (`s1_stall`, `s2_stall`, `s3_stall`, `mshr_we`,
`rready`, ...) are operators of the same name. Data is abstracted to *fresh* or
not: a copy of a line is fresh if it holds every write performed so far. `owed`
(writes accepted and not yet performed) and `stale` (a read took old data) are
history. Abstractions:

- The AR and AW channels' one-cycle gaps are part of the nondeterministic ready;
  the write-back pipe takes its entry when it reads the RAM.
- The LRU choice is open when no way is empty.
- A reservation compares the line; the code compares the full address.
- The memory NoC does not interleave the bursts of two lines. This is a property
  of the surroundings, taken from how `cache_mshr` collects bursts.
- Transaction ids are unique, so the barrier's answer is recognised by its type.
- Left out: debug port, power states, performance counters, `no_write_alloc` (tied
  to 0), the `NO_L2` build.

**Memif, Dtm, Fesvr2Socket.** The unit of address and length is four bytes, what one
pair of read requests moves; a chunk is aligned to two units and holds at most four
(2048 bytes in the code). Data are numbers that tell transfer and position apart.
A step of the bridge is one call of `debug_tick` or one request served with all its
socket accesses, each of which is answered before the loop goes on. The target is a
map; its DMA debug port (external) moves its address after each access, which is
why the bridge sets the address only for the first word of a transfer. The burst is
sent last word first and put in order again by `script/server.tcl`; the model
writes it in order. Not in the model, because no caller on this path uses them:
writes of less than eight bytes below 0x80000000, the L2 and DDR targets for memory
addresses, addresses from 4 GiB on (but for the name that answers a negative exit
code, section 7, which `Htif` takes to reach nothing). (`memif_t::read` and `write` pass `DMA`,
`write_uint64` leaves the default `L2` and is used for registers, `tohost` and
`fromhost`.)

**Htif.** Each memory access of the host is a step; a 64-bit read is two. The guest
is one program in one of two environments, and may make any of its calls. `freeze`
and `test_bp` are chosen at the start. `stall` is the core's debug handshake: with
`freeze` the host stalls the core around each look at `tohost`, and a resume lets
the core go on from a breakpoint too. The terminal, the console process, the core
and the kernel's descriptors are external. `issued` and `handled` are history. A word is
two halves of `HalfSize` values, which is 2^32 in the code and 2^16 in the run (TLC's
integers have 32 bits). An exit code is a C int, negative ones and large ones
included, and `ExitCmd` is the word that `(code << 1) | 1` makes of it after the
conversion to `uintptr_t`: the sign fills device and command with ones. `Identify` is
the handler such a word finds, and "aborted" is the host after its failed assertion.
The programs of the environment "v" exit with small test numbers.

**Vm.** Pages hold one datum; 0 is the content they are loaded with. The TLB caches
a PTE when an access or the supervisor's copy uses it, keeps it until `flush_page`
and may drop it at any time. An access is repeated until it does not fault. The
free list is the sequence of its nodes from `freelist_head` on; `freelist_tail` is
kept only as far as the code looks at it (is it 0). `MCVm` computes the order of the
frames with `LFSR_NEXT`, and its assumption `PeriodIsMaxTestPages` checks for all 63
seeds what the comment in `riscv_test.h` demands of it.

## 4. The runs

States are distinct states; times are for two workers on a small machine.

| Run | Instance | States | Checks |
|---|---|---|---|
| `arb_buf` | 2 inputs, input and output buffers of 2 (the instance in `dmanoc2oursring.sv`) | 3 064 | `BoundedBypass`, `InOrder`, `RefinesQueue`, `GrantStable`, `Delivered` |
| `ptw` | 3 levels, 2 VPNs, 4 PPNs, 15 PTEs, one hidden directory; every privilege state | 163 256 | `TrailIsChain`, `AnswerIsArchitectural`, `TranslationIsArchitectural` |
| `mmu_asid` | 2 levels, 2 entries, 2 ASIDs, 2 VPNs, a shared table with a global page, flushes by ASID, VPN and both | 870 706 | `SfenceNotLost`, `ResponseCoherent`, `EntriesCoherent` |
| `mmu_super` | 2 levels, base pages and (mis)aligned superpages, an address the PMP denies, flushes of all and by ASID | 120 007 | `WalkerInStep`, `ResponseCoherent`, `OneMatchWhenFlushed`, `SfenceServed`, `RequestServed` |
| `l2_coherence` | 2 lines evict each other in one index, 1 line is flushed in another, 1 way, 2 MSHRs; reads, writes, FLUSH_IDX | 37 989 | `ReadsCoherent`, `IndexExclusive`, `ResponsesDoNotCollide`, `CleanMeansInMemory` |
| `l2_ways` | 1 index, 3 tags, 2 ways; reads, writes, both flushes, LR/SC of two ports | 37 232 | `ReadsCoherent`, `OneWayPerLine` |
| `l2_lock` | 2 indices, 1 tag, 2 MSHRs; writes, atomics, barriers, flushes | 12 474 | `MissBookkeeping`, `AmoIsolated`, `LockReleased`, `MshrRetires` |
| `bridge` | 16 units, 57 transfers of every alignment and length up to 6, two in a row | 142 000 | `TransfersExact`, `ResponseAwaited`, `BurstFits`, `TransfersEnd` |
| `htif` | 2 commands and an exit with 0, 3, -1, -8192 or 2^14 (with this `HalfSize` the first code that is cut, as 2^30 is in the code), 1 key, 1 breakpoint, 2 characters, with and without `freeze` and `test_bp` | 206 281 | `CommandsInOrder`, `AnswerMatches`, `FdsConsistent`, `ConsoleExact`, `ExitReported`, `SyscallReturns` |
| `vm` | 3 pages, 4 frames in LFSR order, 2 data | 89 500 | `FramesDisjoint`, `AssertionsHold`, `DataPreserved`, `AccessCompletes` |
| `l2_amo`, `l2_flushdrop` | see [findings](#7-findings) | | one violated property each |

What the properties say:

- `RefinesQueue`: the ring with its registered flags is a bounded queue of what it is
  offered. An item is kept exactly if `slave_ready` was up when it was offered, the
  output shows the oldest one, `slave_ready` is up exactly while there is room, and
  nothing but a reset drops an item (the composition has none; a ring of two whose
  full flag is never set, and so looks empty after the second write, violates it).
- `GrantStable`: a grant does not move until it is accepted. `BoundedBypass`: at most
  N transfers of others while an input waits. `InOrder`, `Delivered`: end to end,
  each item of an input leaves the output buffer once, in order, and eventually,
  although the clock stops whenever the parts do not ask for it.
- `TrailIsChain`, `AnswerIsArchitectural`: a walk reads one chain of directories
  from the root it started with, whatever is written to `satp` and the tables
  meanwhile, and its answer is the architecture's verdict on that chain: a page fault
  exactly when the last PTE demands one, an access fault only when the PMP hides the
  address that comes next, else the leaf and its level.
  `TranslationIsArchitectural`: a TLB miss is answered with a fault exactly when the
  architecture forbids the access, for every privilege state.
- `ResponseCoherent`: the answer to a request younger than the last SFENCE.VMA, be
  it a page with its permissions or a fault, is the end of a walk all of whose reads
  fall after that SFENCE. `EntriesCoherent` says the same of every entry, for every
  address it matches in every address space that can match it.
  `OneMatchWhenFlushed`: at most one entry matches while software has flushed
  everything after each change of a pointer to a table; stores of other PTEs,
  superpages included, need no flush for it. The assertion `chk_tlb_match_one_hot`
  (`rtl/orv64/orv64_tlb.sv:519`) has no such condition: between the store that makes
  a superpage and its SFENCE two entries may match, and either answer is allowed.
  `SfenceNotLost`: the TLB drops a flush request while another is pending; the core
  never sends one then, because a pending SFENCE holds back the next fetch.
- `ReadsCoherent`: no read returns data older than a write accepted before it.
  `CleanMeansInMemory`: a line that no way holds dirty is current in memory; the
  victim of a miss counts as dirty until its write-back is answered. `IndexExclusive`: s1, s2 and the
  MSHRs never share an index. `ResponsesDoNotCollide`: a refill never answers in
  the cycle in which a hit answers. `OneWayPerLine`: no line is in two ways.
- `MissBookkeeping`: an allocated MSHR is in exactly one of the command FIFOs, the
  write-back, the outstanding reads and the allocation register; a free one in none.
- `AmoIsolated`: between the halves of an atomic the pipeline is empty and no miss
  or write of its line is under way.
- `LockReleased`, `MshrRetires`: no deadlock between lock, pipeline and MSHRs.
- `TransfersExact`: the target holds what the finished transfers wrote, a transfer
  under way disturbs nothing outside its range (the neighbours in a partial chunk
  included), and a read returns what is there. `ResponseAwaited`: the assertion in
  `dtm_t::tick`. `BurstFits`: `burst_data` is never overrun. `TransfersEnd`: every
  transfer returns to its caller.
- `CommandsInOrder`: the host serves exactly the commands stored, once and in order;
  a torn value is never served. `AnswerMatches`: a guest that goes on finds the
  result of its own call. `FdsConsistent`: the proxy's table and the kernel's open
  files agree. `ConsoleExact`: each character once, in order, before its call
  returns. `ExitReported`: a code from 0 to 2^30 - 1 arrives and ends the run (the others
  do not, see section 7). `SyscallReturns`: calls return.
- `AssertionsHold`: no `assert` of `vm.c` fails: the free list never runs out, no
  fault is spurious, and at eviction every page has A, and D if it was changed.
  `FramesDisjoint`, `DataPreserved`: pages do not share frames and keep what was
  stored. `AccessCompletes`: no access faults for ever.

Why the bounds are enough. Rings of two slots wrap, fill and empty; two inputs are
the instance the chip uses, and the theorems on arbiter and flags cover every other
size. The walker has the
three levels of Sv39, pointers to itself, and leaves aligned and misaligned at each
level. Two TLB entries allow two matches and replacement. In `mmu_asid` the two
PTEs that change do so once (a page is unmapped, the global page moves), which gives
each entry, walk and SFENCE a before and an after; the theorems of `Mmu_proofs` hold
for any stores. In `mmu_super` three PTEs replace each other for ever. In the L2, all
interference is between transactions of different indices (shared ports, MSHRs,
FIFOs, lock) or between two lines of one index (replacement), so two of each, in
two runs, meet each case; a line has three bursts (`Last = 2`) where the code has
four, the least with a first, a last-but-one and a last burst (the two cycles that
`cache_read_hit_backpressure` tells apart). Where a
run's requests treat the indices alike, their permutations are a symmetry; `l2_lock`
checks liveness and uses none.

The bridge's transfers start and end at every offset within a chunk, are shorter
than one, or span three; two in a row meet every leftover of the first. In `htif`
two commands are the least that can be confused, and one breakpoint can fall into
each phase of the loop. Two commands open and close a descriptor; that a slot or a
number is used again takes three, and is covered by the theorem `TableConsistent`. Of
the exit codes one is 0, one small, one cut, and two negative: the assertion of
`handle_identify` fails on one and holds on the other, which takes a half of at least
2^14 values. In `vm` the free list gets down to the node where
`freelist_tail` is cleared.

`CHECK_DEADLOCK FALSE` appears where the system may stop: in `L2Bank`, where a clock
edge that changes no register while nothing is asked is legitimate, and in `htif`
and `vm`, whose programs end.

## 5. Fairness

- `ArbBuf`: weak fairness of an edge, while the buffers themselves ask for the
  clock, in which the channel behind the output accepts. The inputs owe nothing.
- `Fesvr2Socket`: weak fairness of the loop, which never waits.
- `Htif`: weak fairness of the host's loop, of the core's answer to a stall request
  and of the console process. Strong fairness of the guest: with `freeze` it runs
  only between a resume and the next stall, windows that last several round trips
  of the host. Strong fairness of the idle round that looks for breakpoints, which
  the code picks at random with probability 1/3. Keys and breakpoints owe nothing.
- `Vm`: weak fairness of core and supervisor; the test need not go on.
- `Ptw`, `Mmu`: weak fairness of each transition of the FSMs and of memory's answer.
  The FSMs have no state in which they wait for anything else, and the L1 takes
  responses. Nothing is assumed of software: requests, stores, SFENCEs and context
  changes need never happen and may happen for ever.
- `L2Bank` (`FairSpec`, `l2_lock` only): the NoC takes responses and memory takes
  requests; each write-back and each write response comes; the transfer of a burst
  is strongly fair, because memory holds a burst until the bank takes it and a flush
  at the head of the AR FIFO can refuse it in between. Atomics end: the core sends
  the store half of each.

## 6. The proofs

TLAPS proves, for every value of the constants that satisfies the named
assumptions, all of which TLC evaluates in the runs (`DepthAssumption`,
`NAssumption`, `BufAssumption`, `LevelsAssumption`, `TablesAssumption` of the walker
and of `Mmu`, `MmuAssumption`, `SfenceAssumption`, `GlobalAssumption`,
`L2Assumption`, `MemifAssumption`, `DtmAssumption`, `BridgeAssumption`,
`HtifAssumption`, `NodesAssumption`). Most only say that sizes are positive and sets
hold what their names say; `SfenceAssumption` and `GlobalAssumption` (section 3) and
`BridgeAssumption` (below) say more.

- **`RrArb_proofs`**: `TypeCorrect`, `GrantIsSound`, `BypassIsBounded`,
  `GrantIsStable`. The invariant adds `HeldGrant` (a frozen grant is one input that
  still requests, and whoever stands before it in the rotation came later and has
  not been passed) and `Budget` (`passed[i] + Dist(i) <= N`). `HeldGrant` is what
  makes the pointer taken from the wrong grant harmless. `LeastNatural` (from the
  well-foundedness of the naturals) gives the winner of the rotation.
- **`ArbBuf_proofs`**: about one FIFO, `FifoTypeCorrect`, `FlagsCorrect` and
  `FifoIsAQueue`: `FlagsAgree` is inductive with `FifoTypeOK` (on a write only, the
  tail moves to the head exactly if the ring becomes full; on a read only, the head
  to the tail exactly if it becomes empty), and with it each edge of the ring is the
  step of `BoundedQueue` with the inputs of that edge: content read from head to tail
  loses its first item exactly if the consumer is ready, takes the item offered at
  its end exactly if the full flag is clear, or both, wherever the ring wraps; and the
  flags and the slot at the head are the outputs the queue has (`ContentShown`). About the
  composition, `EndToEndOrder`, `OutputIsAQueue` (which adds that the output of the
  composition is never cleared) and `ArbiterKeepsItsPromises`. The last uses the theorems of `RrArb`: these assume a master that holds its request,
  and `Wires` (the inputs of the arbiter are the heads of the input buffers) with
  `QueuesOK` shows that the buffers do. `Ordered` says that the items of a port, in
  its own buffer and in the output together, carry alternate numbers.
- **`PtwTrail_proofs`**: `TypeCorrect`, `NoLeftover`, `ChainCorrect`,
  `AnswerCorrect`, for any number of levels and any tables. The invariant relates
  the level counter to the length of the trail, and the directory register to the
  last pointer read, while the walk goes on; once it has ended, the leaf and its level
  to the last PTE if there is no exception, and the exception to the chain and to the
  address that came next (`NextAddr`) if there is one. `TranslationCorrect` joins `AnswerCorrect` with the lemma
  `VerdictIsArchitectural`, that the checks of `PtePerm` agree with the architecture
  for any leaf, access and privilege state; the two together cover the cases (D of
  an atomic, for one) that neither decides alone.
- **`Mmu_proofs`**: `WalkerKeepsInStep`, `NoSfenceIsLost`, `EntriesAreCoherent`,
  `ResponsesAreCoherent`, `AtMostOneMatches`, for all tables, contexts, numbers of
  levels and of TLB entries and flush requests, and whatever is stored to the tables.
  For the first two the invariant adds that the walker's copy of the request has just the two fields of
  the TLB's (`RequestFields`), and that a request fetched after an SFENCE.VMA finds
  it served (`FreshIsFlushed`): SFENCE.VMA is fetched itself, so the next one always
  finds the flush register free.
  The other three follow from `CInv`, which TLC found true of both instances.
  What it says of a walk or an entry depends on a part of the state called `View`:
  the tables, `seen`, the SFENCE that waits, and whether a pointer changed. `OnPath`
  says that the directory a walk stands at is one a walk may read, by what the tables
  may ever hold, by `seen`, and by the tables as they are now; `Right` that a leaf may
  be the answer for *every* address and address space which an entry made of it will
  match: the higher parts of the VPN are the same for all of them, and
  `GlobalAssumption` covers the other address spaces. Both have a way out, `Doomed`:
  the SFENCE that waits will remove the entry. This is what an SFENCE in the middle of
  a walk needs. It empties `seen`, so that the walk is wrong at once, but the entry
  it makes carries a tag that the SFENCE will find (`CoveredIsDoomed`; a flush by
  address finds only the VPN the entry was made for, hence `SfenceAssumption`), and
  the request is not `fresh`. Each step is then one of four: the view stays
  (`SameView`), a store adds to what may be seen (`StoreKeepsRight`), an SFENCE dooms
  what it makes wrong (`FenceKeepsRight`), or it is served and what it leaves is right
  without the way out (`DoneKeepsRight`). For `AtMostOneMatches`, `EntriesApart` says
  that no two entries overlap, and that no entry matches the request of a walk. While
  no pointer changed, a walk by the present tables ends in one place only
  (`WalksMeet`), so that a new entry that overlaps an old one has its level and would
  have been a hit (`NewIsApart`). Walks are stated as functions from levels to tables
  (`Paths`) and not by recursion, so that nothing needs an induction over data; that
  two of them agree is the well-foundedness of the naturals (`GreatestBelow`).
- **`Vm_proofs`**: `AssertionsNeverFail`, `FramesAreDisjoint`, `DataIsPreserved`, for
  any number of pages, frames and data and any order of the free list. None of them
  is inductive. The invariant adds that a TLB entry of a page is the PTE in the
  table or none (`TlbFresh`: true only because each change of a PTE is followed by
  its flush), that the frames mapped and the frames in the list are all different,
  that there are enough nodes left for the pages not yet mapped (`Counted`), and
  what the A and D bits say about the content in each phase of a fault.
- **`L2Bank_proofs`**: `IndexIsExclusive`, `AmoIsIsolated`, for any number of
  indices, tags, ways and MSHRs and any set of requests. The invariant is
  `Shapes /\ IndexExclusive /\ AmoPhase /\ Accounted`. `AmoPhase` says where the
  load half of an atomic can be (s1, s2, the response register, an MSHR, or
  answered), in only one place at a time and, from the response register on, alone
  in the pipeline. `Accounted` says that every write owed is in s1, s2 or an MSHR:
  with the exclusion of the index it follows that none is owed on the line of the
  atomic. The proof first states what an edge does to each register
  (`PipeMoves` and its siblings) and never looks at the wires again.
  `BookkeepingIsExact`: a valid MSHR is in exactly one of the places of its way
  (about to ask, AR FIFO, W FIFO, being written, being read), and its flags say
  which. `OnePlace` is not inductive without `BookShapes` (no FIFO holds an MSHR
  twice) and `Collecting` (the refill that is being collected is one that is being
  read). `AnswersStayApart` then needs one more fact, `Apart`: in the cycle in which
  a refill completes and answers, stage 4 has no answer of its own, because the
  registered back pressure has kept it empty.
  `NoLineTwice`, `ReadsAreCoherent`, `CleanIsInMemory` have the hypothesis
  `NoAtomics` (no `AMO_LR` among the requests), as the runs that check the three
  properties have: with atomics they are false (finding 1 below). `LookupIInv` says
  that what a request read of the valid and tag RAMs is still so when stage 3
  decides (`Snapshot`), that a miss stays a miss until its refill ends (`Missing`),
  and that no burst is ever forwarded to a request in the pipeline (`NoForward`: the
  comparison with `mshr_mc_resp_ff` is never true, because the request would have
  been held back while the MSHR was there). `DataIInv` says that every valid way is
  fresh and that a victim stays in its way, dirty, until its write-back is answered
  (`VictimSafe`); that a FLUSH_ADDR may write back another way than the one that hit
  (`cache_bank.sv:1159`) does not lose data, only the flush.
- **`Fesvr2Socket_proofs`**: `TransfersAreExact`, `ResponseIsAwaited`,
  `BurstAlwaysFits`, for any target, any size of chunk and any set of transfers that
  satisfies `BridgeAssumption`. The proof follows one chunk. How many of its
  requests the bridge has served (`Pos`) fixes the state of the bridge, its address,
  its half word and its burst buffer (`Bridge`), what the standing response must be
  (`Answer`), and which units of the chunk are stored or fetched (`Fetched`).
  `InStep` says that the requests left in the coroutine are the tail of those
  `dtm_t` makes of the chunk, `Asked` that the chunks left are those of the transfer.
  Between two chunks the invariant is `Covered`: every unit of the transfer is done
  or in a chunk that is left, and a write chunk which reaches beyond the transfer
  has just been read, so that it puts back what it found. The head, the body and the
  tail that `memif_t` makes of any address and length are shown to be such chunks.
- **`Htif_proofs`**: `CommandsServedInOrder`, `AnswersMatch`, `TableConsistent`,
  `ConsoleIsExact`, for any program of the guest and any number of commands, keys
  and breakpoints. That the host never serves a torn `tohost` rests on the guest not
  storing while the halves are read (`Halves`, `Discipline`). One environment of the
  guest tests `tohost` first; the other stores without looking, and for it the
  invariant follows a call all the way through the host and back (`OneUnderWay`):
  the guest goes on only when the host is done with it. `Ledger` says that the
  commands served, the one under way and the one in `tohost` are those the guest has
  sent. All C ints are exit codes there: `ExitFacts` says which words they make, and
  that none is a system call's. The answer of the identity device to a negative code is
  one more response, to a guest that waits for none.

`BridgeAssumption` says what the callers of `memif_t` in `htif.cc`, `syscall.cc` and
`device.cc` ask for on this path: a transfer lies on one side of `MemBase`; below it
writes have an even number of units; eight-byte writes go to a register below
`MemBase` or to `tohost` and `fromhost`; and half a chunk fits the burst buffer.
Outside it `TransfersExact` is not true of this code: `write_chunk` drops an odd
tail below `MemBase`, and a transfer that crosses `MemBase` would reach the debug
port with an address that was never sent to it. The bound on the chunk is all that
keeps a burst within `burst_data`, since the bridge does not check.

Only model-checked are the liveness properties (`Delivered`, `SfenceServed`,
`RequestServed`, `LockReleased`, `MshrRetires`, `TransfersEnd`, `ExitReported`,
`SyscallReturns`, `AccessCompletes`): liveness under fairness is outside what the
provers do here. Every safety property of the passing runs is a theorem.

## 7. Findings

1. **The store of an atomic can be lost** (`l2_amo`). `cache_bank.sv:770`: "treat
   lr/sc/amo as program order". Two things come together. The drain before an atomic
   or barrier, which waits "until no outstanding request in the pipeline" (line 736),
   tests `rffce_no_outstanding_req`, a register that does not count the request in
   s1, so a request accepted just before can miss while the locked one moves on. And
   the store half does not wait for the valid-RAM port: if the refill of that miss
   writes the RAM in the same cycle, the store uses old valid bits, misses a valid
   line, and newer data is replaced by data from memory.
2. **A flush by index can be dropped** (`l2_flushdrop`). `cache_bank.sv:848`: "treat
   flush address as a write miss, if hit". The stall for a free MSHR tests
   `REQ_FLUSH_ADDR` twice instead of `REQ_FLUSH_ADDR` and `REQ_FLUSH_IDX`; a
   FLUSH_IDX that hits while all MSHRs are taken is answered and does nothing.

Found while modelling `Htif`, and no disagreement with any text of the repository,
which promises nothing about exit codes:

- **A negative exit code does not arrive.** `tohost_exit` (`syscalls.c:56-58`) stores
  `(uintptr_t)code << 1 | 1`, so that a negative int names device 0xff and command
  0xff. The weak `main` returns -1 (`syscalls.c:93`) and `_init` passes it to `exit`
  (line 122). The host takes the word for an identity request (`device.cc:39-58`): for
  -1 the assertion on the address fails and the host aborts; for a code like -8192,
  whose address is aligned, it writes a name there and answers, and the run goes on
  although the guest has ended.
- **A code from 2^30 on is cut.** `exitcode` is an int (`htif.h:96`,
  `syscall.cc:259`) and holds twice the code: such a code is reported as itself less
  2^31.

`ReadsCoherent`, `CleanMeansInMemory` and `OneWayPerLine` fail with atomics (the last
with two ways, where the store's miss brings its line a second time). They hold in
`l2_coherence` and `l2_ways`, and are proved, for requests without atomics.

## 8. What is not modelled

- Arithmetic and floating point: wide data paths, out of TLC's reach and without
  protocol state.
- Generated register stations, netlists, vendor libraries, and the fragments of
  cores that are not in the repository.
- RAM macros, debug ports, power gating and counters of the L2.
- In `htif_t::run`: background traffic, the performance report, the single-step event
  after a command, signals, and the socket branch (`has_socket` is always false).
  The breakpoint check of vector cores 1 to 3 reads the wrong register (line 570);
  no program for them is in the repository. Of the system calls, those that only
  pass a call on to the kernel; among them `fcntl`, whose `F_DUPFD` (`syscall.cc:847`)
  opens a number of the kernel that the table never records. The console character 0,
  for which `sys_write_console` would wait for ever (`syscall.cc:344-351`: a 0 in the
  shared word is no message, and nobody sets the flag it waits for), is excluded by `HtifAssumption`.
- In `vm.c`: the assertions on the range of a fault's or an eviction's address (lines
  112 and 141), because pages are all the addresses the model has.
- A kill of the fetch unit in the middle of an atomic (`orv64_fetch.sv:316`):
  `LockReleased` and `MshrRetires` take it that the store half is always sent.
- The other host software. Of its 63,700 lines of C and C++, 36,000 are two tables of
  DDR training writes (`es1y/train_1d*.cc`), 13,000 are generated headers and data
  sets (`encoding.h`, `debug_defines.h`, station headers), and most of the rest is
  bring-up: register writes in program order (`es1y.cc`), test and benchmark
  programs, and a command-line debugger. None of it has concurrency, failure
  handling or bookkeeping to model; the parts that have are `Memif`, `Dtm`,
  `Fesvr2Socket`, `Htif` and `Vm`. The hardware, which is the larger part of the
  models, is written in SystemVerilog and is not among these lines.
- The rest of section 1 is planned, below.

## 9. Plan

Done so far, in this order: the channel blocks on which all else rests, the
translation path, the L2 bank, the composed arbiter, the host bridge, the HTIF loop
and the virtual-memory supervisor; with the theorems above. Next, in this order:

1. `DmaFlush` (`rtl/dma/dma_flush.sv`), composed with an abstract bank that promises
   "an answered flush has reached memory". Questions: FLUSH_ALL waits for N - 1 of N
   answers (`dma_flush.sv:30`); FLUSH_ADDR allocates its MSHR with the way to
   replace and not the way that hit (`cache_bank.sv:1159`).
2. `Lru`: the tree functions against a reference (an enabled way is chosen, the most
   recent way is not), replacing the open choice in `Tlb` and `L2Bank`.
3. The reservation: an SC succeeds only if no write came between (`cache_bank.sv:714`
   computes `invalidate` and does not use it).
4. Front end: `orv64_inst_buffer`, `orv64_icache`, the AMO FSM of `orv64_fetch`, with
   kills at any moment; then `translation_change_rdy` becomes a theorem of the
   composition and not a guard of `Mmu`.
5. `orv64_dcache_bypass` and the store buffer: fences, exactly-once accesses.
6. PMP as operators against a reference (MPRV in `orv64_pmp_checker.sv:128`), CSR
   traps and delegation.
7. DMA threads, the NoCs (from `RrArb` and `OursFifo`), the boot FSM.
