---------------------------- MODULE Htif_proofs ----------------------------
(***************************************************************************)
(* Proofs about Htif, for every set of characters, exit codes and host     *)
(* descriptors and for any number of commands, keys and breakpoints.       *)
(*                                                                         *)
(* CommandsInOrder is not inductive.  That the host never serves a torn    *)
(* tohost rests on tohost not being overwritten while the host reads it    *)
(* (Discipline, Halves); that it is not overwritten rests, for the         *)
(* environment that stores without looking, on the answer having passed    *)
(* all the way through the host before the guest goes on (OneUnderWay).    *)
(***************************************************************************)
EXTENDS Htif, SequenceTheorems, WellFoundedInduction, TLAPS

Word == [hi : Nat, lo : Nat]
Mem == [name : {"none", "open", "close", "bad", "write_console"}, arg : Nat,
        st : {"call", "ret"}, no : Nat]
GuestPc == {"run", "call", "wait", "do_tohost", "do_store", "spin"}
Reading == {"hi", "lo1", "hi1", "test"}
Calling == {"dispatch", "con_put", "con_ack", "return", "respond"}
Serving == {"command"} \cup Calling
HostPc == {"loop", "stopped", "aborted", "stalling", "lo", "bp", "resume", "tick", "answer", "put"}
            \cup Reading \cup Serving

GuestRec == [env : {"bench", "v"}, pc : GuestPc, cmd : Word, no : Nat, code : Int,
             sent : Seq(Nat), bps : Nat]
HostRec == [pc : HostPc, freeze : BOOLEAN, test_bp : BOOLEAN, t : Word, t1 : Word, call : Mem]

\* The type invariant.
HtifTypeOK ==
  /\ tohost \in Word /\ fromhost \in Word /\ magic_mem \in Mem
  /\ h \in HostRec /\ g \in GuestRec
  /\ fromhost_queue \in Seq(Word) /\ pending_reads \in Seq(Word)
  /\ exitcode \in Int /\ stopped \in BOOLEAN
  /\ fds \in Seq(Nat \cup {-1}) /\ osfds \in SUBSET Nat
  /\ term \in [typed : Nat, read : Nat]
  /\ con \in [msg : Nat, done : BOOLEAN, got : Seq(Nat)]
  /\ issued \in Seq(Word) /\ handled \in Seq(Word)

\* What each environment stores in tohost.
Exits == {ExitCmd(c) : c \in ExitCodes}
BenchCmds == {SyscallCmd} \cup Exits
VCmds == {BcdRead} \cup {BcdWrite(ch) : ch \in Chars} \cup {ExitCmd(c) : c \in SmallCodes}
Cmds == IF g.env = "bench" THEN BenchCmds ELSE VCmds

\* Whose commands are where, and which environment runs which code.
Placed ==
  /\ tohost \in Cmds \cup {Zero}
  /\ g.pc = "call" => g.env = "bench"
  /\ g.pc \in {"do_tohost", "do_store"} => g.env = "v" /\ g.cmd \in VCmds
  /\ h.pc \in Serving => h.t \in Cmds
  /\ h.pc \in Calling => h.t = SyscallCmd
  /\ g.env = "bench" => pending_reads = <<>>
  /\ h.pc = "put" => fromhost_queue # <<>>

\* Each half the host has read in this round is still there, or was read while
\* tohost was 0; from the first half that is not 0 on, all are there.
Halves ==
  /\ h.pc \in Reading => h.t.lo \in {0, tohost.lo}
  /\ h.pc \in {"lo1", "hi1", "test"} =>
       h.t.hi \in {0, tohost.hi} /\ (h.t.lo # 0 => h.t.hi = tohost.hi)
  /\ h.pc \in {"hi1", "test"} =>
       h.t1.lo \in {0, tohost.lo} /\ (h.t # Zero => h.t1.lo = tohost.lo)
  /\ h.pc = "test" => (h.t # Zero => h.t1.hi = tohost.hi)

\* The guest is about to store only while tohost is 0.
Discipline == g.pc \in {"call", "do_store"} \/ (g.env = "bench" /\ g.pc = "run") => tohost = Zero

\* Every stored command has been served, or is the one in tohost.
Ledger == issued = IF tohost = Zero THEN handled ELSE Append(handled, tohost)

\* In the environment of syscalls.c at most one command is under way: in tohost,
\* in the host's hands, in its queue or answered in fromhost.
OneUnderWay ==
  g.env = "bench" =>
    /\ tohost # Zero => h.pc \notin Serving
    /\ tohost # Zero \/ h.pc \in Serving => fromhost_queue = <<>> /\ fromhost = Zero
    /\ fromhost_queue # <<>> => Len(fromhost_queue) = 1 /\ fromhost = Zero
    /\ g.pc \in {"run", "call"} => /\ tohost = Zero /\ h.pc \notin Serving
                                   /\ fromhost_queue = <<>> /\ fromhost = Zero
    /\ g.pc = "wait" => /\ tohost \in {Zero, SyscallCmd}
                        /\ h.pc \in Serving => h.t = SyscallCmd
    /\ g.pc = "spin" => /\ tohost # SyscallCmd
                        /\ h.pc \in Serving => h.t # SyscallCmd

\* The call has been answered (an unknown number leaves magic_mem as it was).
Served == magic_mem.st = "ret" \/ magic_mem.name = "bad"

\* Who may look at magic_mem finds it in the state it needs.
MagicMem ==
  g.env = "bench" =>
    /\ g.pc \in {"run", "spin"} => Served
    /\ h.pc = "respond" \/ fromhost_queue # <<>> \/ fromhost # Zero => Served
    /\ h.pc \in Calling => g.pc = "wait"
    /\ h.pc \in Calling \ {"respond"} => h.call = magic_mem
    /\ h.pc \in {"con_put", "con_ack"} => h.call.name = "write_console"

\* The character of a write that the console process has not taken yet.
Untaken ==
  /\ g.env = "bench" /\ g.pc \in {"call", "wait"} /\ magic_mem.name = "write_console"
  /\ \/ g.pc = "call" \/ tohost # Zero \/ h.pc \in {"command", "dispatch", "con_put"}
     \/ h.pc = "con_ack" /\ ~con.done

Handshake ==
  /\ magic_mem.name = "write_console" => magic_mem.arg # 0
  /\ h.pc = "con_ack" => con.msg = magic_mem.arg
  /\ h.pc # "con_ack" => con.msg = 0
  /\ g.sent = IF Untaken THEN Append(con.got, magic_mem.arg) ELSE con.got

IInv == /\ HtifTypeOK /\ Placed /\ Halves /\ Discipline /\ Ledger /\ OneUnderWay
        /\ MagicMem /\ Handshake /\ FdsConsistent

-----------------------------------------------------------------------------
(* Types. *)

\* What an exit stores: half of tohost can hold it, and it is odd.
LEMMA ExitFacts ==
  ASSUME NEW c \in ExitCodes
  PROVE  /\ c \in Int /\ ExitCmd(c) \in Word /\ ExitCmd(c).lo % 2 = 1
         /\ ExitCmd(c).hi \in {0, AllOnes}
         /\ c \in SmallCodes => ExitCmd(c).hi = 0
         /\ ExitCmd(c) # Zero /\ ExitCmd(c) # SyscallCmd
  <1>1. c \in Int /\ -(HalfSize \div 2) <= c /\ HalfSize \in Nat /\ HalfSize % 4 = 0
    BY HtifAssumption
  <1>2. CASE c < 0
    <2>1. ExitCmd(c) = [hi |-> AllOnes, lo |-> HalfSize + 2 * c + 1]
      BY <1>2 DEF ExitCmd
    <2>2. HalfSize + 2 * c + 1 \in Nat /\ (HalfSize + 2 * c + 1) % 2 = 1
      BY <1>1
    <2> QED BY <1>1, <1>2, <2>1, <2>2 DEF SmallCodes, Word, AllOnes, Zero, SyscallCmd
  <1>3. CASE ~(c < 0)
    <2>1. ExitCmd(c) = [hi |-> 0, lo |-> 2 * c + 1]
      BY <1>3 DEF ExitCmd
    <2>2. 2 * c + 1 \in Nat /\ (2 * c + 1) % 2 = 1
      BY <1>1, <1>3
    <2> QED BY <1>1, <2>1, <2>2 DEF Word, Zero, SyscallCmd, Magic
  <1> QED BY <1>2, <1>3

\* Every command is a pair of halves, and none is zero.
LEMMA CmdFacts ==
  /\ Zero \in Word /\ SyscallCmd \in Word /\ BcdRead \in Word
  /\ \A ch \in Nat : BcdWrite(ch) \in Word
  /\ \A w \in BenchCmds : w \in Word /\ w # Zero /\ w.hi \in {0, AllOnes}
  /\ \A w \in VCmds : w \in Word /\ w # Zero /\ w # SyscallCmd
  <1>1. /\ Zero \in Word /\ SyscallCmd \in Word /\ BcdRead \in Word
        /\ \A ch \in Nat : BcdWrite(ch) \in Word
    BY DEF Zero, SyscallCmd, Magic, BcdRead, BcdWrite, Word
  <1>2. ASSUME NEW w \in Exits
        PROVE  w \in Word /\ w.hi \in {0, AllOnes} /\ w # Zero /\ w # SyscallCmd
    BY ExitFacts DEF Exits
  <1>6. {ExitCmd(c) : c \in SmallCodes} \subseteq Exits
    BY DEF Exits, SmallCodes
  <1>3. SyscallCmd # Zero /\ SyscallCmd.hi = 0
    BY DEF SyscallCmd, Zero, Magic
  <1>4. BcdRead # Zero /\ BcdRead # SyscallCmd
    BY DEF SyscallCmd, Zero, BcdRead
  <1>5. ASSUME NEW ch \in Chars
        PROVE  BcdWrite(ch) \in Word /\ BcdWrite(ch) # Zero /\ BcdWrite(ch) # SyscallCmd
    BY <1>1, HtifAssumption DEF SyscallCmd, Zero, BcdWrite
  <1> QED BY <1>1, <1>2, <1>3, <1>4, <1>5, <1>6 DEF BenchCmds, VCmds

LEMMA GuestType == ASSUME HtifTypeOK, Guest PROVE HtifTypeOK'
  <1> DEFINE P == /\ tohost' \in Word /\ fromhost' \in Word /\ magic_mem' \in Mem
                  /\ g' \in GuestRec /\ issued' \in Seq(Word)
  <1>0. /\ tohost \in Word /\ fromhost \in Word /\ magic_mem \in Mem
        /\ g \in GuestRec /\ issued \in Seq(Word)
    BY DEF HtifTypeOK, GuestRec
  <1> SUFFICES P
    BY DEF HtifTypeOK, Guest, hostVars, GuestRec
  <1>1. ASSUME NEW c \in Calls, Syscall(c) PROVE P
    <2>1. c.name \in {"open", "close", "bad", "write_console"} /\ c.arg \in Nat
      BY HtifAssumption DEF Calls
    <2>2. magic_mem' \in Mem
      BY <1>0, <1>1, <2>1 DEF Syscall, Mem, GuestRec
    <2>3. Append(g.sent, c.arg) \in Seq(Nat)
      BY <1>0, <2>1, AppendProperties DEF GuestRec
    <2>4. g' \in GuestRec
      <3>1. PICK n \in Nat, x \in Seq(Nat) : g' = [g EXCEPT !.pc = "call", !.no = n, !.sent = x]
        <4> DEFINE x == IF c.name = "write_console" THEN Append(g.sent, c.arg) ELSE g.sent
        <4>1. g.no + 1 \in Nat /\ x \in Seq(Nat)
          BY <1>0, <2>3 DEF GuestRec
        <4>2. g' = [g EXCEPT !.pc = "call", !.no = g.no + 1, !.sent = x]
          BY <1>1, Zenon DEF Syscall
        <4> QED BY <4>1, <4>2, Zenon
      <3> QED BY <1>0, <3>1 DEF GuestRec, GuestPc
    <2> QED BY <1>0, <1>1, <2>2, <2>4 DEF Syscall
  <1>2. CASE SyscallStore
    <2>1. Append(issued, SyscallCmd) \in Seq(Word)
      BY <1>0, CmdFacts, AppendProperties
    <2> QED BY <1>0, <1>2, <2>1, CmdFacts DEF SyscallStore, Store, GuestPc, GuestRec
  <1>3. CASE TakeAnswer
    BY <1>0, <1>3, CmdFacts DEF TakeAnswer, GuestPc, GuestRec
  <1>4. CASE CallDoTohost
    <2>1. ASSUME NEW cmd \in {BcdRead} \cup {BcdWrite(ch) : ch \in Chars},
                 g' = [g EXCEPT !.pc = "do_tohost", !.cmd = cmd, !.no = @ + 1]
          PROVE  g' \in GuestRec
      <3>1. cmd \in Word
        BY CmdFacts, HtifAssumption
      <3>2. g.no + 1 \in Nat
        BY <1>0 DEF GuestRec
      <3>3. PICK n \in Nat : g' = [g EXCEPT !.pc = "do_tohost", !.cmd = cmd, !.no = n]
        BY <2>1, <3>2, Zenon
      <3> QED BY <1>0, <3>1, <3>3 DEF GuestRec, GuestPc
    <2>2. ASSUME NEW c \in SmallCodes,
                 g' = [g EXCEPT !.pc = "do_tohost", !.cmd = ExitCmd(c), !.code = c]
          PROVE  g' \in GuestRec
      <3>1. ExitCmd(c) \in Word /\ c \in Int
        BY ExitFacts DEF SmallCodes
      <3> QED BY <1>0, <2>2, <3>1 DEF GuestRec, GuestPc
    <2> QED BY <1>0, <1>4, <2>1, <2>2 DEF CallDoTohost
  <1>5. CASE DoTohostWait
    BY <1>0, <1>5, CmdFacts DEF DoTohostWait, GuestPc, GuestRec
  <1>6. CASE DoTohostStore
    <2>1. g.cmd \in Word /\ Append(issued, g.cmd) \in Seq(Word)
      BY <1>0, AppendProperties DEF GuestRec
    <2> QED BY <1>0, <1>6, <2>1 DEF DoTohostStore, Store, GuestPc, GuestRec
  <1>7. ASSUME NEW c \in ExitCodes, TohostExit(c) PROVE P
    <2>1. c \in Int /\ ExitCmd(c) \in Word
      BY ExitFacts
    <2>2. Append(issued, ExitCmd(c)) \in Seq(Word)
      BY <1>0, <2>1, AppendProperties
    <2> QED BY <1>0, <1>7, <2>1, <2>2 DEF TohostExit, Store, GuestPc, GuestRec
  <1> QED BY <1>1, <1>2, <1>3, <1>4, <1>5, <1>6, <1>7 DEF Guest

\* fds_t::alloc takes a free slot when there is one, and adds one otherwise.
LEMMA AllocFacts ==
  ASSUME fds \in Seq(Nat \cup {-1}), NEW fd \in Nat
  PROVE  \/ Alloc(fd) = Append(fds, fd) /\ \A i \in 1 .. Len(fds) : fds[i] # -1
         \/ \E k \in 1 .. Len(fds) : fds[k] = -1 /\ Alloc(fd) = [fds EXCEPT ![k] = fd]
  <1> DEFINE free == {i \in 1 .. Len(fds) : fds[i] = -1}
  <1>1. CASE free = {}
    BY <1>1 DEF Alloc
  <1>2. CASE free # {}
    <2>1. Len(fds) \in Nat /\ free \subseteq Nat
      BY LenProperties
    <2>2. PICK x \in free : \A y \in free : ~(<<y, x>> \in OpToRel(<, Nat))
      BY <1>2, <2>1, WFMin, NatLessThanWellFounded
    <2>3. ASSUME NEW y \in free PROVE x <= y
      <3>1. ~(y < x)
        BY <2>1, <2>2 DEF OpToRel
      <3> QED BY <2>1, <3>1
    <2> DEFINE k == CHOOSE i \in free : \A j \in free : i <= j
    <2>4. k \in free
      BY <2>3
    <2>5. Alloc(fd) = [fds EXCEPT ![k] = fd]
      BY <1>2, Zenon DEF Alloc
    <2> QED BY <2>4, <2>5, Zenon
  <1> QED BY <1>1, <1>2

\* A slot of the table can be overwritten.
LEMMA FdsUpdate ==
  ASSUME fds \in Seq(Nat \cup {-1}), NEW k \in 1 .. Len(fds), NEW v \in Nat \cup {-1}
  PROVE  /\ [fds EXCEPT ![k] = v] \in Seq(Nat \cup {-1})
         /\ Len([fds EXCEPT ![k] = v]) = Len(fds)
         /\ \A i \in 1 .. Len(fds) : [fds EXCEPT ![k] = v][i] = IF i = k THEN v ELSE fds[i]
  BY ExceptSeq, LenProperties

LEMMA HostType == ASSUME HtifTypeOK, Placed, Host PROVE HtifTypeOK'
  <1> DEFINE P == /\ h' \in HostRec /\ tohost' \in Word /\ fromhost' \in Word /\ magic_mem' \in Mem
                  /\ fromhost_queue' \in Seq(Word) /\ pending_reads' \in Seq(Word)
                  /\ exitcode' \in Int /\ stopped' \in BOOLEAN
                  /\ fds' \in Seq(Nat \cup {-1}) /\ osfds' \in SUBSET Nat
                  /\ term' \in [typed : Nat, read : Nat]
                  /\ con' \in [msg : Nat, done : BOOLEAN, got : Seq(Nat)]
                  /\ handled' \in Seq(Word)
  <1>0. /\ h \in HostRec /\ tohost \in Word /\ fromhost \in Word /\ magic_mem \in Mem
        /\ fromhost_queue \in Seq(Word) /\ pending_reads \in Seq(Word)
        /\ exitcode \in Int /\ stopped \in BOOLEAN
        /\ fds \in Seq(Nat \cup {-1}) /\ osfds \in SUBSET Nat
        /\ term \in [typed : Nat, read : Nat]
        /\ con \in [msg : Nat, done : BOOLEAN, got : Seq(Nat)]
        /\ handled \in Seq(Word)
    BY DEF HtifTypeOK, HostRec
  <1> SUFFICES P
    <2>1. UNCHANGED <<g, issued>>
      BY DEF Host, Loop, ReadTohost, Test, ResumeBp, Command, Dispatch, WriteConsole, Return,
             Respond, Tick, Answer, PutAnswer
    <2> QED BY <2>1 DEF HtifTypeOK, HostRec
  <1>a. ASSUME NEW pc \in HostPc, Goto(pc) PROVE h' \in HostRec
    BY <1>0, <1>a DEF Goto, HostRec
  <1>1. CASE Loop
    BY <1>0, <1>1, <1>a DEF Loop, HostPc
  <1>2. CASE ReadTohost
    <2>1. /\ h.t \in Word /\ h.t1 \in Word
          /\ [h.t EXCEPT !.lo = tohost.lo] \in Word /\ [h.t EXCEPT !.hi = tohost.hi] \in Word
          /\ [h.t1 EXCEPT !.lo = tohost.lo] \in Word /\ [h.t1 EXCEPT !.hi = tohost.hi] \in Word
      BY <1>0 DEF HostRec, Word
    <2>2. ASSUME NEW pc \in HostPc, NEW w \in Word,
                 h' = [h EXCEPT !.pc = pc, !.t = w] \/ h' = [h EXCEPT !.pc = pc, !.t1 = w]
          PROVE  h' \in HostRec
      BY <1>0, <2>2 DEF HostRec
    <2>3. {"lo", "hi", "lo1", "hi1", "test"} \subseteq HostPc
      BY DEF HostPc, Reading
    <2>4. ASSUME h.pc = "lo" /\ h' = [h EXCEPT !.pc = "hi", !.t.lo = tohost.lo] PROVE h' \in HostRec
      <3>1. h' = [h EXCEPT !.pc = "hi", !.t = [h.t EXCEPT !.lo = tohost.lo]]
        BY <1>0, <2>4 DEF HostRec
      <3> QED BY <3>1, <2>1, <2>2, <2>3, Zenon
    <2>5. ASSUME h.pc = "hi" /\ h' = [h EXCEPT !.pc = "lo1", !.t.hi = tohost.hi] PROVE h' \in HostRec
      <3>1. h' = [h EXCEPT !.pc = "lo1", !.t = [h.t EXCEPT !.hi = tohost.hi]]
        BY <1>0, <2>5 DEF HostRec
      <3> QED BY <3>1, <2>1, <2>2, <2>3, Zenon
    <2>6. ASSUME h.pc = "lo1" /\ h' = [h EXCEPT !.pc = "hi1", !.t1.lo = tohost.lo] PROVE h' \in HostRec
      <3>1. h' = [h EXCEPT !.pc = "hi1", !.t1 = [h.t1 EXCEPT !.lo = tohost.lo]]
        BY <1>0, <2>6 DEF HostRec
      <3> QED BY <3>1, <2>1, <2>2, <2>3, Zenon
    <2>7. ASSUME h.pc = "hi1" /\ h' = [h EXCEPT !.pc = "test", !.t1.hi = tohost.hi] PROVE h' \in HostRec
      <3>1. h' = [h EXCEPT !.pc = "test", !.t1 = [h.t1 EXCEPT !.hi = tohost.hi]]
        BY <1>0, <2>7 DEF HostRec
      <3> QED BY <3>1, <2>1, <2>2, <2>3, Zenon
    <2> QED BY <1>0, <1>2, <1>a, <2>3, <2>4, <2>5, <2>6, <2>7 DEF ReadTohost
  <1>3. CASE Test
    <2>1. Append(handled, h.t) \in Seq(Word)
      BY <1>0, AppendProperties DEF HostRec
    <2>2. h' \in HostRec
      BY <1>3, <1>a DEF Test, HostPc, Serving
    <2> QED BY <1>0, <1>3, <2>1, <2>2, CmdFacts DEF Test
  <1>4. CASE ResumeBp
    BY <1>0, <1>4, <1>a DEF ResumeBp, HostPc
  <1>5. CASE Command
    <2>1. Append(pending_reads, h.t) \in Seq(Word) /\ h.t.lo \in Nat
      BY <1>0, AppendProperties DEF HostRec, Word
    <2>2. h' \in HostRec
      <3>1. ASSUME h' = [h EXCEPT !.pc = "dispatch", !.call = magic_mem] PROVE h' \in HostRec
        BY <1>0, <3>1 DEF HostRec, HostPc, Serving, Calling
      <3> QED BY <1>5, <1>a, <3>1 DEF Command, Identify, HostPc, Serving, Calling
    <2>3. /\ exitcode' \in Int /\ pending_reads' \in Seq(Word)
          /\ fromhost_queue' \in Seq(Word)
      <3>1. exitcode' = exitcode \/ exitcode' = ExitCodeOf(h.t)
        BY <1>5 DEF Command
      <3>2. ExitCodeOf(h.t) \in Int
        BY <2>1, HtifAssumption DEF ExitCodeOf
      <3>3. pending_reads' = pending_reads \/ pending_reads' = Append(pending_reads, h.t)
        BY <1>5 DEF Command
      <3>4. \/ fromhost_queue' = fromhost_queue
            \/ fromhost_queue' = Append(fromhost_queue, Response(h.t, 1))
        BY <1>5 DEF Command, Identify
      <3>5. Append(fromhost_queue, Response(h.t, 1)) \in Seq(Word)
        <4>1. Response(h.t, 1) \in Word
          BY <1>0 DEF Response, HostRec, Word
        <4> QED BY <1>0, <4>1, AppendProperties
      <3> QED BY <1>0, <2>1, <3>1, <3>2, <3>3, <3>4, <3>5, Zenon
    <2> QED BY <1>0, <1>5, <2>2, <2>3, Zenon DEF Command
  <1>6. CASE Dispatch
    <2>1. h' \in HostRec
      BY <1>6, <1>a DEF Dispatch, BadSyscall, HostPc, Serving, Calling
    <2>2. fds' \in Seq(Nat \cup {-1}) /\ osfds' \in SUBSET Nat
      <3>1. ASSUME SysOpen PROVE fds' \in Seq(Nat \cup {-1}) /\ osfds' \in SUBSET Nat
        <4>1. ASSUME NEW fd \in HostFd \ osfds,
                     osfds' = osfds \cup {fd}, fds' = Alloc(fd)
              PROVE  fds' \in Seq(Nat \cup {-1}) /\ osfds' \in SUBSET Nat
          <5>1. fd \in Nat
            BY HtifAssumption
          <5>2. Append(fds, fd) \in Seq(Nat \cup {-1})
            BY <1>0, <5>1, AppendProperties
          <5>3. ASSUME NEW k \in 1 .. Len(fds) PROVE [fds EXCEPT ![k] = fd] \in Seq(Nat \cup {-1})
            BY <1>0, <5>1, FdsUpdate
          <5>4. Alloc(fd) \in Seq(Nat \cup {-1})
            <6>1. \/ Alloc(fd) = Append(fds, fd)
                  \/ \E k \in 1 .. Len(fds) : Alloc(fd) = [fds EXCEPT ![k] = fd]
              BY <1>0, <5>1, AllocFacts
            <6> QED BY <6>1, <5>2, <5>3, Zenon
          <5> QED BY <1>0, <4>1, <5>1, <5>4
        <4> QED BY <1>0, <3>1, <4>1 DEF SysOpen
      <3>2. ASSUME SysClose(h.call.arg) PROVE fds' \in Seq(Nat \cup {-1}) /\ osfds' \in SUBSET Nat
        <4>1. h.call.arg \in Nat /\ Len(fds) \in Nat
          BY <1>0, LenProperties DEF HostRec, Mem
        <4>2. CASE Lookup(h.call.arg) \notin osfds
          BY <1>0, <3>2, <4>2 DEF SysClose
        <4>3. CASE Lookup(h.call.arg) \in osfds
          <5>1. -1 \notin osfds
            BY <1>0
          <5>2. ~(h.call.arg >= Len(fds))
            BY <4>3, <5>1 DEF Lookup
          <5>3. h.call.arg + 1 \in 1 .. Len(fds)
            BY <4>1, <5>2
          <5>4. [fds EXCEPT ![h.call.arg + 1] = -1] \in Seq(Nat \cup {-1})
            BY <1>0, <5>3, FdsUpdate
          <5> QED BY <1>0, <3>2, <4>3, <5>4 DEF SysClose
        <4> QED BY <4>2, <4>3
      <3> QED BY <1>0, <1>6, <3>1, <3>2 DEF Dispatch
    <2> QED BY <1>0, <1>6, <2>1, <2>2 DEF Dispatch
  <1>7. CASE WriteConsole
    <2>1. h' \in HostRec
      BY <1>7, <1>a DEF WriteConsole, ConsolePut, ConsoleAck, HostPc, Serving, Calling
    <2>2. h.call.arg \in Nat
      BY <1>0 DEF HostRec, Mem
    <2>3. con' \in [msg : Nat, done : BOOLEAN, got : Seq(Nat)]
      <3>1. \E m \in Nat : con' = [con EXCEPT !.msg = m]
        BY <1>7, <2>2 DEF WriteConsole, ConsolePut, ConsoleAck
      <3> QED BY <1>0, <3>1
    <2> QED BY <1>0, <1>7, <2>1, <2>3 DEF WriteConsole
  <1>8. CASE Return
    <2>1. h' \in HostRec
      BY <1>8, <1>a DEF Return, HostPc, Serving, Calling
    <2>2. h.call \in Mem
      BY <1>0 DEF HostRec
    <2>3. magic_mem' \in Mem
      BY <1>8, <2>2 DEF Return, Mem
    <2> QED BY <1>0, <1>8, <2>1, <2>3 DEF Return
  <1>9. CASE Respond
    <2>1. Response(h.t, 1) \in Word
      BY <1>0 DEF Response, HostRec, Word
    <2>2. Append(fromhost_queue, Response(h.t, 1)) \in Seq(Word)
      BY <1>0, <2>1, AppendProperties
    <2> QED BY <1>0, <1>9, <1>a, <2>2 DEF Respond, HostPc
  <1>10. CASE Tick
    <2>1. h' \in HostRec
      BY <1>10, <1>a DEF Tick, HostPc
    <2>2. ASSUME pending_reads # <<>>, term' = [term EXCEPT !.read = @ + 1]
          PROVE  /\ term' \in [typed : Nat, read : Nat]
                 /\ Append(fromhost_queue, Response(Head(pending_reads), 256 + term'.read)) \in Seq(Word)
                 /\ Tail(pending_reads) \in Seq(Word)
      <3>1. term' \in [typed : Nat, read : Nat]
        <4>1. term \in [typed : Nat, read : Nat] /\ term.read + 1 \in Nat
          BY <1>0
        <4>2. PICK n \in Nat : term' = [term EXCEPT !.read = n]
          BY <2>2, <4>1, Zenon
        <4> QED BY <4>1, <4>2
      <3>2. Head(pending_reads) \in Word /\ Tail(pending_reads) \in Seq(Word)
        BY <1>0, <2>2, HeadTailProperties
      <3>3. Response(Head(pending_reads), 256 + term'.read) \in Word
        BY <3>1, <3>2 DEF Response, Word
      <3> QED BY <1>0, <3>1, <3>2, <3>3, AppendProperties
    <2> QED BY <1>0, <1>10, <2>1, <2>2 DEF Tick
  <1>11. CASE Answer
    BY <1>0, <1>11, <1>a DEF Answer, HostPc
  <1>12. CASE PutAnswer
    <2>1. fromhost_queue # <<>>
      BY <1>12 DEF PutAnswer, Placed
    <2>2. Head(fromhost_queue) \in Word /\ Tail(fromhost_queue) \in Seq(Word)
      BY <1>0, <2>1, HeadTailProperties
    <2> QED BY <1>0, <1>12, <1>a, <2>2 DEF PutAnswer, HostPc
  <1> QED BY <1>1, <1>2, <1>3, <1>4, <1>5, <1>6, <1>7, <1>8, <1>9, <1>10, <1>11, <1>12 DEF Host

\* Every step keeps the types.
LEMMA TypeStep == ASSUME HtifTypeOK, Placed, [Next]_vars PROVE HtifTypeOK'
  <1>1. CASE Guest
    BY <1>1, GuestType
  <1>2. CASE CoreStalls
    BY <1>2 DEF CoreStalls, HtifTypeOK, hostVars
  <1>3. CASE Breakpoint
    <2>1. g' \in GuestRec
      <3>1. g \in GuestRec /\ g.bps + 1 \in Nat
        BY DEF HtifTypeOK, GuestRec
      <3>2. PICK n \in Nat : g' = [g EXCEPT !.bps = n]
        BY <1>3, <3>1, Zenon DEF Breakpoint
      <3> QED BY <3>1, <3>2 DEF GuestRec
    <2> QED BY <1>3, <2>1 DEF Breakpoint, HtifTypeOK, hostVars, GuestRec
  <1>4. CASE Type
    <2>1. term' \in [typed : Nat, read : Nat]
      <3>1. term \in [typed : Nat, read : Nat] /\ term.typed + 1 \in Nat
        BY DEF HtifTypeOK
      <3>2. PICK n \in Nat : term' = [term EXCEPT !.typed = n]
        BY <1>4, <3>1, Zenon DEF Type
      <3> QED BY <3>1, <3>2
    <2> QED BY <1>4, <2>1 DEF Type, HtifTypeOK, hostVars
  <1>5. CASE Console
    <2>1. con' \in [msg : Nat, done : BOOLEAN, got : Seq(Nat)]
      <3>1. con.msg \in Nat /\ con.got \in Seq(Nat)
        BY DEF HtifTypeOK
      <3>2. Append(con.got, con.msg) \in Seq(Nat)
        BY <3>1, AppendProperties
      <3> QED BY <1>5, <3>2 DEF Console, HtifTypeOK
    <2> QED BY <1>5, <2>1 DEF Console, HtifTypeOK, hostVars
  <1>6. CASE Host
    BY <1>6, HostType
  <1>7. CASE UNCHANGED vars
    BY <1>7 DEF vars, hostVars, HtifTypeOK
  <1> QED BY <1>1, <1>2, <1>3, <1>4, <1>5, <1>6, <1>7 DEF Next

-----------------------------------------------------------------------------
(* What the steps do to the records, field by field. *)
LEMMA GotoFacts ==
  ASSUME HtifTypeOK, NEW pc, Goto(pc)
  PROVE  h'.pc = pc /\ h'.t = h.t /\ h'.t1 = h.t1 /\ h'.call = h.call
  BY DEF HtifTypeOK, HostRec, Goto

\* Each read takes one half of tohost and keeps the other halves.
LEMMA ReadFacts ==
  ASSUME HtifTypeOK, ReadTohost
  PROVE  /\ h'.call = h.call
         /\ \/ h.pc = "stalling" /\ h'.pc = "lo"
            \/ h.pc = "lo" /\ h'.pc = "hi" /\ h'.t.lo = tohost.lo
            \/ /\ h.pc = "hi" /\ h'.pc = "lo1"
               /\ h'.t.lo = h.t.lo /\ h'.t.hi = tohost.hi
            \/ /\ h.pc = "lo1" /\ h'.pc = "hi1" /\ h'.t = h.t
               /\ h'.t1.lo = tohost.lo
            \/ /\ h.pc = "hi1" /\ h'.pc = "test" /\ h'.t = h.t
               /\ h'.t1.lo = h.t1.lo /\ h'.t1.hi = tohost.hi
  <1>0. /\ h \in HostRec /\ h.t \in Word /\ h.t1 \in Word /\ h.call \in Mem /\ tohost \in Word
    BY DEF HtifTypeOK, HostRec
  <1>1. CASE h.pc = "lo" /\ h' = [h EXCEPT !.pc = "hi", !.t.lo = tohost.lo]
    <2>1. h' = [h EXCEPT !.pc = "hi", !.t = [h.t EXCEPT !.lo = tohost.lo]]
      BY <1>0, <1>1 DEF HostRec
    <2>2. h'.pc = "hi" /\ h'.call = h.call /\ h'.t = [h.t EXCEPT !.lo = tohost.lo]
      BY <1>0, <2>1 DEF HostRec
    <2> QED BY <1>0, <1>1, <2>2 DEF Word
  <1>2. CASE h.pc = "hi" /\ h' = [h EXCEPT !.pc = "lo1", !.t.hi = tohost.hi]
    <2>1. h' = [h EXCEPT !.pc = "lo1", !.t = [h.t EXCEPT !.hi = tohost.hi]]
      BY <1>0, <1>2 DEF HostRec
    <2>2. h'.pc = "lo1" /\ h'.call = h.call /\ h'.t = [h.t EXCEPT !.hi = tohost.hi]
      BY <1>0, <2>1 DEF HostRec
    <2> QED BY <1>0, <1>2, <2>2 DEF Word
  <1>3. CASE h.pc = "lo1" /\ h' = [h EXCEPT !.pc = "hi1", !.t1.lo = tohost.lo]
    <2>1. h' = [h EXCEPT !.pc = "hi1", !.t1 = [h.t1 EXCEPT !.lo = tohost.lo]]
      BY <1>0, <1>3 DEF HostRec
    <2>2. /\ h'.pc = "hi1" /\ h'.call = h.call /\ h'.t = h.t
          /\ h'.t1 = [h.t1 EXCEPT !.lo = tohost.lo]
      BY <1>0, <2>1 DEF HostRec
    <2> QED BY <1>0, <1>3, <2>2 DEF Word
  <1>4. CASE h.pc = "hi1" /\ h' = [h EXCEPT !.pc = "test", !.t1.hi = tohost.hi]
    <2>1. h' = [h EXCEPT !.pc = "test", !.t1 = [h.t1 EXCEPT !.hi = tohost.hi]]
      BY <1>0, <1>4 DEF HostRec
    <2>2. /\ h'.pc = "test" /\ h'.call = h.call /\ h'.t = h.t
          /\ h'.t1 = [h.t1 EXCEPT !.hi = tohost.hi]
      BY <1>0, <2>1 DEF HostRec
    <2> QED BY <1>0, <1>4, <2>2 DEF Word
  <1>5. CASE h.pc = "stalling" /\ Goto("lo")
    BY <1>5, GotoFacts
  <1> QED BY <1>1, <1>2, <1>3, <1>4, <1>5 DEF ReadTohost

\* A command is the sum of its halves.
LEMMA WordEqual == \A w, x \in Word : w = x <=> w.hi = x.hi /\ w.lo = x.lo
  BY DEF Word

\* Every step leaves the guest's environment alone.
LEMMA EnvFacts == ASSUME HtifTypeOK, [Next]_vars PROVE g'.env = g.env
  <1>1. CASE Guest
    BY <1>1 DEF HtifTypeOK, GuestRec, Guest, Syscall, SyscallStore, TakeAnswer, CallDoTohost,
                DoTohostWait, DoTohostStore, TohostExit
  <1>2. CASE Breakpoint
    BY <1>2 DEF HtifTypeOK, GuestRec, Breakpoint
  <1>3. CASE Host
    BY <1>3 DEF Host, Loop, ReadTohost, Test, ResumeBp, Command, Dispatch, WriteConsole, Return,
                Respond, Tick, Answer, PutAnswer
  <1>4. CASE CoreStalls \/ Type \/ Console \/ UNCHANGED vars
    BY <1>4 DEF CoreStalls, Type, Console, vars
  <1> QED BY <1>1, <1>2, <1>3, <1>4 DEF Next

-----------------------------------------------------------------------------
(* The halves of tohost. *)

\* What a guest step does to tohost: a store, or nothing.
LEMMA GuestStores ==
  ASSUME HtifTypeOK, Placed, Discipline, Guest
  PROVE  /\ UNCHANGED <<h, handled>>
         /\ \/ tohost' = tohost /\ issued' = issued
            \/ /\ tohost = Zero /\ tohost' \in Cmds /\ issued' = Append(issued, tohost')
               /\ g'.pc \notin {"call", "do_store"}
               /\ g.env = "bench" => g'.pc # "run"
  <1> UNCHANGED <<h, handled>>
    BY DEF Guest, hostVars
  <1>1. ASSUME NEW c \in Calls, Syscall(c) PROVE tohost' = tohost /\ issued' = issued
    BY <1>1 DEF Syscall
  <1>2. CASE TakeAnswer \/ CallDoTohost \/ DoTohostWait
    BY <1>2 DEF TakeAnswer, CallDoTohost, DoTohostWait
  <1>3. CASE SyscallStore
    <2>1. g'.pc = "wait"
      BY <1>3 DEF SyscallStore, HtifTypeOK, GuestRec
    <2> QED BY <1>3, <2>1 DEF SyscallStore, Store, Discipline, Placed, Cmds, BenchCmds
  <1>4. CASE DoTohostStore
    <2>1. g'.pc \notin {"call", "do_store"}
      BY <1>4 DEF DoTohostStore, HtifTypeOK, GuestRec
    <2>2. g.env = "v" /\ g.cmd \in Cmds /\ tohost = Zero
      BY <1>4 DEF DoTohostStore, Discipline, Placed, Cmds
    <2> QED BY <1>4, <2>1, <2>2 DEF DoTohostStore, Store
  <1>5. ASSUME NEW c \in ExitCodes, TohostExit(c)
        PROVE  /\ tohost = Zero /\ tohost' \in Cmds /\ issued' = Append(issued, tohost')
               /\ g'.pc = "spin"
    <2>1. g'.pc = "spin"
      BY <1>5 DEF TohostExit, HtifTypeOK, GuestRec
    <2>2. ExitCmd(c) \in Cmds
      BY <1>5 DEF TohostExit, Cmds, BenchCmds, Exits
    <2> QED BY <1>5, <2>1, <2>2 DEF TohostExit, Store, Discipline
  <1> QED BY <1>1, <1>2, <1>3, <1>4, <1>5 DEF Guest

\* Commands are not 0.
LEMMA CmdsNotZero == \A w \in Cmds : w # Zero /\ w \in Word
  BY CmdFacts DEF Cmds

\* The host's view of tohost stays consistent: only the guest can change tohost
\* while the host reads it, and only from 0.
LEMMA HalvesStep == ASSUME HtifTypeOK, Placed, Discipline, Halves, [Next]_vars PROVE Halves'
  <1>0. /\ tohost \in Word /\ h.t \in Word /\ h.t1 \in Word
    BY DEF HtifTypeOK, HostRec
  <1>1. CASE Guest
    <2>1. CASE tohost' = tohost
      BY <2>1, <1>1, GuestStores DEF Halves
    <2>2. CASE tohost = Zero
      <3>1. h' = h
        BY <1>1, GuestStores
      <3>2. Zero.lo = 0 /\ Zero.hi = 0
        BY DEF Zero
      <3>3. h.pc \in Reading => h'.t.lo = 0
        BY <2>2, <3>1, <3>2 DEF Halves
      <3>4. h.pc \in {"lo1", "hi1", "test"} => h'.t.hi = 0 /\ h'.t = Zero
        BY <1>0, <2>2, <3>1, <3>2, <3>3, WordEqual DEF Halves, Reading, Word
      <3>5. h.pc \in {"hi1", "test"} => h'.t1.lo = 0
        BY <2>2, <3>1, <3>2 DEF Halves
      <3>6. h'.pc \in Reading => h'.t.lo = 0
        BY <3>1, <3>3
      <3>7. h'.pc \in {"lo1", "hi1", "test"} => h'.t.hi = 0 /\ h'.t = Zero
        BY <3>1, <3>4
      <3>8. h'.pc \in {"hi1", "test"} => h'.t1.lo = 0
        BY <3>1, <3>5
      <3>9. h'.t = Zero => h'.t.lo = 0
        BY <3>2
      <3> QED BY <3>6, <3>7, <3>8, <3>9, Zenon DEF Halves
    <2> QED BY <1>1, <2>1, <2>2, GuestStores
  <1>2. CASE ReadTohost
    <2>1. tohost' = tohost
      BY <1>2 DEF ReadTohost
    <2> QED BY <1>0, <1>2, <2>1, ReadFacts, WordEqual DEF Halves, Reading, Zero, Word
  <1>3. CASE Test
    BY <1>3, GotoFacts DEF Test, Halves, Reading
  <1>4. CASE Host /\ ~ReadTohost /\ ~Test
    <2>1. h'.pc \notin Reading
      <3>1. CASE Loop \/ ResumeBp \/ Answer \/ PutAnswer \/ Tick \/ Respond \/ Return
        BY <3>1, GotoFacts DEF Loop, ResumeBp, Answer, PutAnswer, Tick, Respond, Return, Reading
      <3>2. CASE Command
        <4>1. ASSUME h' = [h EXCEPT !.pc = "dispatch", !.call = magic_mem] PROVE h'.pc = "dispatch"
          BY <4>1 DEF HtifTypeOK, HostRec
        <4> QED BY <3>2, <4>1, GotoFacts DEF Command, Identify, Reading
      <3>3. CASE Dispatch
        BY <3>3, GotoFacts DEF Dispatch, BadSyscall, Reading
      <3>4. CASE WriteConsole
        BY <3>4, GotoFacts DEF WriteConsole, ConsolePut, ConsoleAck, Reading
      <3> QED BY <1>4, <3>1, <3>2, <3>3, <3>4 DEF Host
    <2> QED BY <2>1 DEF Halves, Reading
  <1>5. CASE CoreStalls \/ Breakpoint \/ Type \/ Console \/ UNCHANGED vars
    BY <1>5 DEF CoreStalls, Breakpoint, Type, Console, vars, hostVars, Halves
  <1> QED BY <1>1, <1>2, <1>3, <1>4, <1>5 DEF Next

-----------------------------------------------------------------------------
(* Commands: where they come from and who has them. *)

\* What the host takes for a command is tohost, whole.
LEMMA WholeCommand ==
  ASSUME HtifTypeOK, Halves, h.pc = "test", IsCommand
  PROVE  h.t = tohost /\ tohost # Zero
  <1>1. tohost \in Word /\ h.t \in Word /\ h.t1 \in Word
    BY DEF HtifTypeOK, HostRec
  <1>2. h.t1.lo = tohost.lo /\ h.t1.hi = tohost.hi /\ h.t = h.t1 /\ h.t # Zero
    BY DEF Halves, IsCommand
  <1> QED BY <1>1, <1>2, WordEqual

\* The guest's next position, for its environment.
LEMMA GuestMoves ==
  ASSUME HtifTypeOK, Placed, Guest
  PROVE  /\ g'.pc = "call" => g.env = "bench"
         /\ g'.pc \in {"do_tohost", "do_store"} => g.env = "v" /\ g'.cmd \in VCmds
  <1>0. g \in GuestRec
    BY DEF HtifTypeOK
  <1>1. ASSUME NEW c \in Calls, Syscall(c) PROVE g'.pc = "call" /\ g.env = "bench"
    BY <1>0, <1>1 DEF Syscall, GuestRec
  <1>2. CASE SyscallStore
    BY <1>0, <1>2 DEF SyscallStore, GuestRec
  <1>3. CASE TakeAnswer
    BY <1>0, <1>3 DEF TakeAnswer, GuestRec
  <1>4. CASE CallDoTohost
    <2>1. ASSUME NEW cmd \in {BcdRead} \cup {BcdWrite(ch) : ch \in Chars},
                 g' = [g EXCEPT !.pc = "do_tohost", !.cmd = cmd, !.no = @ + 1]
          PROVE  g'.pc = "do_tohost" /\ g'.cmd \in VCmds
      BY <1>0, <2>1 DEF GuestRec, VCmds
    <2>2. ASSUME NEW c \in SmallCodes,
                 g' = [g EXCEPT !.pc = "do_tohost", !.cmd = ExitCmd(c), !.code = c]
          PROVE  g'.pc = "do_tohost" /\ g'.cmd \in VCmds
      BY <1>0, <2>2 DEF GuestRec, VCmds, Exits
    <2>3. g.env = "v" /\ g'.pc = "do_tohost" /\ g'.cmd \in VCmds
      BY <1>4, <2>1, <2>2 DEF CallDoTohost
    <2> QED BY <2>3
  <1>5. CASE DoTohostWait
    BY <1>0, <1>5 DEF DoTohostWait, GuestRec, Placed
  <1>6. CASE DoTohostStore
    BY <1>0, <1>6 DEF DoTohostStore, GuestRec
  <1>7. ASSUME NEW c \in ExitCodes, TohostExit(c) PROVE g'.pc = "spin"
    BY <1>0, <1>7 DEF TohostExit, GuestRec
  <1> QED BY <1>1, <1>2, <1>3, <1>4, <1>5, <1>6, <1>7 DEF Guest

\* Which device a command of an environment goes to.
LEMMA Devices ==
  ASSUME Placed, h.pc \in Serving
  PROVE  /\ h.t.hi = 0 /\ h.t.lo % 2 = 0 => h.t = SyscallCmd /\ g.env = "bench"
         /\ h.t = SyscallCmd => g.env = "bench"
         /\ g.env = "bench" => h.t.hi \in {0, AllOnes}
         /\ h.t.hi = AllOnes => g.env = "bench"
         /\ h.t.hi = AllOnes \/ h.t.lo % 2 = 1 => h.t # SyscallCmd
  <1>1. ASSUME NEW c \in ExitCodes
        PROVE  /\ ExitCmd(c).hi \in {0, AllOnes} /\ ExitCmd(c).lo % 2 = 1
               /\ ExitCmd(c) # SyscallCmd /\ (c \in SmallCodes => ExitCmd(c).hi = 0)
    BY ExitFacts
  <1>2. BcdRead.hi = 256 /\ \A ch \in Chars : BcdWrite(ch).hi = 257
    BY DEF BcdRead, BcdWrite
  <1>3. SyscallCmd.hi = 0 /\ SyscallCmd.lo = 2
    BY DEF SyscallCmd, Magic
  <1>4. h.t \in Cmds
    BY DEF Placed
  <1>5. SyscallCmd.lo % 2 = 0 /\ AllOnes \notin {0, 256, 257}
    BY <1>3 DEF AllOnes
  <1> QED BY <1>1, <1>2, <1>3, <1>4, <1>5, CmdFacts DEF Cmds, BenchCmds, VCmds, Exits, SmallCodes

LEMMA PlacedStep ==
  ASSUME HtifTypeOK, Placed, Discipline, Halves, [Next]_vars PROVE Placed'
  <1>0. g'.env = g.env /\ Cmds' = Cmds
    BY EnvFacts DEF Cmds
  <1> DEFINE GuestPart == /\ g'.pc = "call" => g'.env = "bench"
                          /\ g'.pc \in {"do_tohost", "do_store"} => g'.env = "v" /\ g'.cmd \in VCmds
             HostPart == /\ tohost' \in Cmds \cup {Zero}
                         /\ h'.pc \in Serving => h'.t \in Cmds
                         /\ h'.pc \in Calling => h'.t = SyscallCmd
                         /\ g.env = "bench" => pending_reads' = <<>>
                         /\ h'.pc = "put" => fromhost_queue' # <<>>
  <1> SUFFICES GuestPart /\ HostPart
    BY <1>0, Zenon DEF Placed
  <1>1. CASE Guest
    <2>1. GuestPart
      BY <1>0, <1>1, GuestMoves
    <2>2. UNCHANGED <<h, pending_reads, fromhost_queue>>
      BY <1>1 DEF Guest, hostVars
    <2>3. tohost' \in Cmds \cup {Zero}
      BY <1>1, GuestStores DEF Placed
    <2> QED BY <2>1, <2>2, <2>3 DEF Placed
  <1>2. CASE CoreStalls \/ Type \/ Console \/ UNCHANGED vars
    BY <1>2 DEF CoreStalls, Type, Console, vars, hostVars, Placed
  <1>3. CASE Breakpoint
    <2>1. g'.pc = g.pc /\ g'.cmd = g.cmd
      BY <1>3 DEF Breakpoint, HtifTypeOK, GuestRec
    <2> QED BY <1>0, <1>3, <2>1 DEF Breakpoint, hostVars, Placed
  <1>4. CASE Host
    <2>1. g' = g
      BY <1>4 DEF Host, Loop, ReadTohost, Test, ResumeBp, Command, Dispatch, WriteConsole, Return,
                  Respond, Tick, Answer, PutAnswer
    <2>2. GuestPart
      BY <2>1 DEF Placed
    <2>3. HostPart
      <3> USE DEF Serving, Calling
      <3>1. CASE Loop \/ ResumeBp
        BY <3>1, GotoFacts DEF Loop, ResumeBp, Placed
      <3>2. CASE ReadTohost
        BY <3>2, ReadFacts DEF ReadTohost, Placed
      <3>3. CASE Test
        BY <3>3, GotoFacts, WholeCommand DEF Test, Placed
      <3>4. CASE Command
        <4>1. ASSUME h' = [h EXCEPT !.pc = "dispatch", !.call = magic_mem]
              PROVE  h'.pc = "dispatch" /\ h'.t = h.t
          BY <4>1 DEF HtifTypeOK, HostRec
        <4>2. h.pc = "command" /\ h.t \in Cmds
          BY <3>4 DEF Command, Placed
        <4> QED BY <3>4, <4>1, <4>2, GotoFacts, Devices DEF Command, Identify, AllOnes, Placed
      <3>5. CASE Dispatch
        BY <3>5, GotoFacts DEF Dispatch, BadSyscall, Placed
      <3>6. CASE WriteConsole
        BY <3>6, GotoFacts DEF WriteConsole, ConsolePut, ConsoleAck, Placed
      <3>7. CASE Return
        BY <3>7, GotoFacts DEF Return, Placed
      <3>8. CASE Respond
        BY <3>8, GotoFacts DEF Respond, Placed
      <3>9. CASE Tick
        BY <3>9, GotoFacts DEF Tick, Placed
      <3>10. CASE Answer
        BY <3>10, GotoFacts DEF Answer, Placed
      <3>11. CASE PutAnswer
        BY <3>11, GotoFacts DEF PutAnswer, Placed
      <3> QED BY <1>4, <3>1, <3>2, <3>3, <3>4, <3>5, <3>6, <3>7, <3>8, <3>9, <3>10, <3>11 DEF Host
    <2> QED BY <2>2, <2>3
  <1> QED BY <1>1, <1>2, <1>3, <1>4 DEF Next

\* A step other than a store and a serve leaves the histories and tohost alone.
LEMMA LedgerStep ==
  ASSUME HtifTypeOK, Placed, Discipline, Halves, Ledger, [Next]_vars PROVE Ledger'
  <1>1. CASE Guest
    <2>1. CASE tohost' = tohost /\ issued' = issued
      BY <1>1, <2>1, GuestStores DEF Ledger
    <2>2. CASE tohost = Zero /\ tohost' \in Cmds /\ issued' = Append(issued, tohost')
      BY <1>1, <2>2, GuestStores, CmdsNotZero DEF Ledger
    <2> QED BY <1>1, <2>1, <2>2, GuestStores
  <1>2. CASE Test
    BY <1>2, WholeCommand DEF Test, Ledger
  <1>3. CASE Host /\ ~Test
    <2>1. UNCHANGED <<tohost, issued, handled>>
      BY <1>3 DEF Host, Loop, ReadTohost, ResumeBp, Command, Dispatch, WriteConsole, Return,
                  Respond, Tick, Answer, PutAnswer
    <2> QED BY <2>1 DEF Ledger
  <1>4. CASE CoreStalls \/ Breakpoint \/ Type \/ Console \/ UNCHANGED vars
    BY <1>4 DEF CoreStalls, Breakpoint, Type, Console, vars, hostVars, Ledger
  <1> QED BY <1>1, <1>2, <1>3, <1>4 DEF Next

\* The guest comes to a store only after it has seen tohost at 0, or has taken
\* the answer to its last call.
LEMMA DisciplineStep ==
  ASSUME HtifTypeOK, Placed, Discipline, Halves, OneUnderWay, [Next]_vars PROVE Discipline'
  <1>0. g \in GuestRec /\ g'.env = g.env
    BY EnvFacts DEF HtifTypeOK
  <1>1. CASE Guest
    <2>1. ASSUME NEW c \in Calls, Syscall(c) PROVE Discipline'
      BY <2>1 DEF Syscall, Discipline
    <2>2. CASE TakeAnswer
      <3>1. g.env = "bench" => tohost = Zero
        BY <2>2 DEF TakeAnswer, OneUnderWay
      <3>2. tohost' = tohost /\ g'.pc = "run"
        BY <1>0, <2>2 DEF TakeAnswer, GuestRec
      <3> QED BY <1>0, <3>1, <3>2 DEF Discipline
    <2>3. CASE CallDoTohost
      <3>1. g'.pc = "do_tohost" /\ g.env = "v"
        BY <1>0, <2>3 DEF CallDoTohost, GuestRec
      <3> QED BY <1>0, <3>1 DEF Discipline
    <2>4. CASE DoTohostWait
      BY <1>0, <2>4 DEF DoTohostWait, GuestRec, Discipline
    <2>5. ASSUME tohost' # tohost PROVE Discipline'
      BY <1>0, <1>1, <2>5, GuestStores DEF Discipline
    <2>6. ASSUME SyscallStore \/ DoTohostStore \/ \E c \in ExitCodes : TohostExit(c)
          PROVE  Discipline'
      <3>1. tohost = Zero
        BY <2>6 DEF SyscallStore, DoTohostStore, TohostExit, Discipline
      <3> QED BY <2>5, <3>1 DEF Discipline
    <2> QED BY <1>1, <2>1, <2>2, <2>3, <2>4, <2>6 DEF Guest
  <1>2. CASE Host
    <2>1. g' = g
      BY <1>2 DEF Host, Loop, ReadTohost, Test, ResumeBp, Command, Dispatch, WriteConsole, Return,
                  Respond, Tick, Answer, PutAnswer
    <2>2. tohost' = tohost \/ tohost' = Zero
      BY <1>2 DEF Host, Loop, ReadTohost, Test, ResumeBp, Command, Dispatch, WriteConsole, Return,
                  Respond, Tick, Answer, PutAnswer
    <2> QED BY <2>1, <2>2 DEF Discipline
  <1>3. CASE Breakpoint
    BY <1>0, <1>3 DEF Breakpoint, GuestRec, Discipline
  <1>4. CASE CoreStalls \/ Type \/ Console \/ UNCHANGED vars
    BY <1>4 DEF CoreStalls, Type, Console, vars, hostVars, Discipline
  <1> QED BY <1>1, <1>2, <1>3, <1>4 DEF Next

\* Host steps leave the guest's program alone.
LEMMA HostKeepsGuest ==
  ASSUME Host PROVE g' = g /\ issued' = issued
  BY DEF Host, Loop, ReadTohost, Test, ResumeBp, Command, Dispatch, WriteConsole, Return,
         Respond, Tick, Answer, PutAnswer

\* The answer to a call goes through the host's hands one at a time.
LEMMA OneUnderWayStep ==
  ASSUME HtifTypeOK, Placed, Discipline, Halves, OneUnderWay, [Next]_vars PROVE OneUnderWay'
  <1>0. g \in GuestRec /\ g'.env = g.env /\ fromhost_queue \in Seq(Word)
    BY EnvFacts DEF HtifTypeOK
  <1> SUFFICES ASSUME g.env = "bench" PROVE OneUnderWay'
    BY <1>0 DEF OneUnderWay
  <1>1. CASE Guest
    <2>0. UNCHANGED <<h, fromhost_queue>>
      BY <1>1 DEF Guest, hostVars
    <2>1. ASSUME NEW c \in Calls, Syscall(c) PROVE OneUnderWay'
      <3>1. g.pc = "run" /\ g'.pc = "call" /\ UNCHANGED <<tohost, fromhost>>
        BY <1>0, <2>1 DEF Syscall, GuestRec
      <3> QED BY <2>0, <3>1 DEF OneUnderWay
    <2>2. CASE SyscallStore
      <3>1. g.pc = "call" /\ g'.pc = "wait" /\ tohost' = SyscallCmd /\ fromhost' = fromhost
        BY <1>0, <2>2 DEF SyscallStore, Store, GuestRec
      <3> QED BY <2>0, <3>1 DEF OneUnderWay
    <2>3. CASE TakeAnswer
      <3>1. g.pc = "wait" /\ g'.pc = "run" /\ tohost' = tohost /\ fromhost # Zero /\ fromhost' = Zero
        BY <1>0, <2>3 DEF TakeAnswer, GuestRec
      <3> QED BY <2>0, <3>1 DEF OneUnderWay
    <2>4. ASSUME NEW c \in ExitCodes, TohostExit(c) PROVE OneUnderWay'
      <3>1. /\ g.pc = "run" /\ g'.pc = "spin" /\ tohost' = ExitCmd(c) /\ fromhost' = fromhost
        BY <1>0, <2>4 DEF TohostExit, Store, GuestRec
      <3>2. ExitCmd(c) # SyscallCmd
        BY ExitFacts
      <3> QED BY <2>0, <3>1, <3>2 DEF OneUnderWay
    <2>5. ~CallDoTohost /\ ~DoTohostWait /\ ~DoTohostStore
      BY DEF CallDoTohost, DoTohostWait, DoTohostStore, Placed
    <2> QED BY <1>1, <2>1, <2>2, <2>3, <2>4, <2>5 DEF Guest
  <1>2. CASE CoreStalls \/ Type \/ Console \/ UNCHANGED vars
    BY <1>2 DEF CoreStalls, Type, Console, vars, hostVars, OneUnderWay
  <1>3. CASE Breakpoint
    <2>1. g'.pc = g.pc
      BY <1>0, <1>3 DEF Breakpoint, GuestRec
    <2> QED BY <1>3, <2>1 DEF Breakpoint, hostVars, OneUnderWay
  <1>4. CASE Host
    <2>0. g' = g
      BY <1>4, HostKeepsGuest
    <2> USE DEF Serving, Calling
    <2>1. CASE Loop \/ ResumeBp \/ Answer
      <3>1. UNCHANGED <<tohost, fromhost, fromhost_queue>> /\ h'.pc \notin Serving
        BY <2>1, GotoFacts DEF Loop, ResumeBp, Answer
      <3> QED BY <2>0, <3>1 DEF OneUnderWay
    <2>2. CASE ReadTohost
      <3>1. UNCHANGED <<tohost, fromhost, fromhost_queue>> /\ h'.pc \notin Serving
        BY <2>2, ReadFacts DEF ReadTohost
      <3> QED BY <2>0, <3>1 DEF OneUnderWay
    <2>3. CASE Test
      <3>1. UNCHANGED <<fromhost, fromhost_queue>> /\ h'.t = h.t
        BY <2>3, GotoFacts DEF Test
      <3>2. CASE IsCommand
        <4>1. tohost' = Zero /\ h.t = tohost /\ tohost # Zero
          BY <2>3, <3>2, WholeCommand DEF Test
        <4>2. SyscallCmd # Zero
          BY DEF SyscallCmd, Zero, Magic
        <4> QED BY <2>0, <3>1, <4>1, <4>2 DEF OneUnderWay
      <3>3. CASE ~IsCommand
        <4>1. tohost' = tohost /\ h'.pc \notin Serving
          BY <2>3, <3>3, GotoFacts DEF Test
        <4> QED BY <2>0, <3>1, <4>1 DEF OneUnderWay
      <3> QED BY <3>2, <3>3
    <2>4. CASE (Command /\ ~Identify) \/ Dispatch \/ WriteConsole \/ Return
      <3>1. UNCHANGED <<tohost, fromhost, fromhost_queue>> /\ h.pc \in Serving
        BY <2>4 DEF Command, Dispatch, BadSyscall, WriteConsole, ConsolePut, ConsoleAck, Return
      <3>2. h'.t = h.t
        <4>1. ASSUME h' = [h EXCEPT !.pc = "dispatch", !.call = magic_mem] PROVE h'.t = h.t
          BY <4>1 DEF HtifTypeOK, HostRec
        <4> QED BY <2>4, <4>1, GotoFacts
                DEF Command, Dispatch, BadSyscall, WriteConsole, ConsolePut, ConsoleAck, Return
      <3> QED BY <2>0, <3>1, <3>2 DEF OneUnderWay
    <2>5. CASE Respond
      <3>1. /\ UNCHANGED <<tohost, fromhost>> /\ h.pc = "respond" /\ h'.pc = "resume"
            /\ fromhost_queue' = Append(fromhost_queue, Response(h.t, 1)) /\ h.t = SyscallCmd
        BY <2>5, GotoFacts DEF Respond, Placed
      <3>2. fromhost_queue = <<>> /\ fromhost = Zero /\ tohost = Zero /\ g.pc \notin {"run", "call", "spin"}
        BY <3>1 DEF OneUnderWay
      <3>3. Len(fromhost_queue') = 1
        BY <3>1, <3>2
      <3> QED BY <2>0, <3>1, <3>2, <3>3 DEF OneUnderWay
    <2>6. CASE Tick
      <3>1. UNCHANGED <<tohost, fromhost, fromhost_queue>> /\ h'.pc \notin Serving
        BY <2>6, GotoFacts DEF Tick, Placed
      <3> QED BY <2>0, <3>1 DEF OneUnderWay
    <2>7. CASE PutAnswer
      <3>1. /\ tohost' = tohost /\ h'.pc \notin Serving /\ fromhost_queue # <<>>
            /\ fromhost_queue' = Tail(fromhost_queue)
        BY <2>7, GotoFacts DEF PutAnswer, Placed
      <3>2. Len(fromhost_queue) = 1 /\ tohost = Zero /\ g.pc \notin {"run", "call"}
        BY <3>1 DEF OneUnderWay
      <3>3. fromhost_queue' = <<>>
        BY <1>0, <3>1, <3>2, HeadTailProperties, EmptySeq
      <3> QED BY <2>0, <3>1, <3>2, <3>3 DEF OneUnderWay
    <2>8. CASE Command /\ Identify
      <3>1. /\ UNCHANGED <<tohost, fromhost>> /\ h.pc = "command" /\ h.t.hi = AllOnes
            /\ \/ h'.pc = "resume" /\ fromhost_queue' = Append(fromhost_queue, Response(h.t, 1))
               \/ h'.pc = "aborted" /\ fromhost_queue' = fromhost_queue
        BY <2>8, GotoFacts DEF Command, Identify
      <3>2. h.t # SyscallCmd
        BY <3>1, Devices
      <3>3. fromhost_queue = <<>> /\ fromhost = Zero /\ tohost = Zero /\ g.pc \notin {"run", "call", "wait"}
        BY <3>1, <3>2 DEF OneUnderWay
      <3>4. Len(Append(fromhost_queue, Response(h.t, 1))) = 1 /\ tohost # SyscallCmd
        BY <3>3 DEF Zero, SyscallCmd, Magic
      <3> QED BY <2>0, <3>1, <3>3, <3>4 DEF OneUnderWay
    <2> QED BY <1>4, <2>1, <2>2, <2>3, <2>4, <2>5, <2>6, <2>7, <2>8 DEF Host
  <1> QED BY <1>1, <1>2, <1>3, <1>4 DEF Next

-----------------------------------------------------------------------------
(* The answer of a call. *)

\* dispatch works on the call that the guest is waiting for.
LEMMA MagicMemStep ==
  ASSUME HtifTypeOK, Placed, Discipline, Halves, OneUnderWay, MagicMem, [Next]_vars PROVE MagicMem'
  <1>0. g \in GuestRec /\ g'.env = g.env /\ h \in HostRec
    BY EnvFacts DEF HtifTypeOK
  <1> SUFFICES ASSUME g.env = "bench" PROVE MagicMem'
    BY <1>0 DEF MagicMem
  <1>1. CASE Guest
    <2>0. UNCHANGED <<h, fromhost_queue>>
      BY <1>1 DEF Guest, hostVars
    <2>1. ASSUME NEW c \in Calls, Syscall(c) PROVE MagicMem'
      <3>1. g.pc = "run" /\ g'.pc = "call" /\ UNCHANGED <<tohost, fromhost>>
        BY <1>0, <2>1 DEF Syscall, GuestRec
      <3> QED BY <2>0, <3>1 DEF OneUnderWay, MagicMem, Serving, Calling
    <2>2. CASE SyscallStore
      <3>1. g.pc = "call" /\ g'.pc = "wait" /\ UNCHANGED <<fromhost, magic_mem>>
        BY <1>0, <2>2 DEF SyscallStore, GuestRec
      <3> QED BY <2>0, <3>1 DEF MagicMem, Served
    <2>3. CASE TakeAnswer
      <3>1. /\ g.pc = "wait" /\ g'.pc = "run" /\ fromhost # Zero /\ fromhost' = Zero
            /\ magic_mem' = magic_mem
        BY <1>0, <2>3 DEF TakeAnswer, GuestRec
      <3> QED BY <2>0, <3>1 DEF OneUnderWay, MagicMem, Served, Serving
    <2>4. ASSUME NEW c \in ExitCodes, TohostExit(c) PROVE MagicMem'
      <3>1. g.pc = "run" /\ g'.pc = "spin" /\ UNCHANGED <<fromhost, magic_mem>>
        BY <1>0, <2>4 DEF TohostExit, GuestRec
      <3> QED BY <2>0, <3>1 DEF MagicMem, Served
    <2>5. ~CallDoTohost /\ ~DoTohostWait /\ ~DoTohostStore
      BY DEF CallDoTohost, DoTohostWait, DoTohostStore, Placed
    <2> QED BY <1>1, <2>1, <2>2, <2>3, <2>4, <2>5 DEF Guest
  <1>2. CASE CoreStalls \/ Type \/ Console \/ UNCHANGED vars
    BY <1>2 DEF CoreStalls, Type, Console, vars, hostVars, MagicMem, Served
  <1>3. CASE Breakpoint
    <2>1. g'.pc = g.pc
      BY <1>0, <1>3 DEF Breakpoint, GuestRec
    <2> QED BY <1>3, <2>1 DEF Breakpoint, hostVars, MagicMem, Served
  <1>4. CASE Host
    <2>0. g' = g
      BY <1>4, HostKeepsGuest
    <2> USE DEF Calling
    <2>1. CASE Loop \/ ResumeBp \/ Answer
      <3>1. UNCHANGED <<magic_mem, fromhost, fromhost_queue>> /\ h'.pc \notin Calling
        BY <2>1, GotoFacts DEF Loop, ResumeBp, Answer
      <3> QED BY <2>0, <3>1 DEF MagicMem, Served
    <2>2. CASE ReadTohost
      <3>1. UNCHANGED <<magic_mem, fromhost, fromhost_queue>> /\ h'.pc \notin Calling
        BY <2>2, ReadFacts DEF ReadTohost
      <3> QED BY <2>0, <3>1 DEF MagicMem, Served
    <2>3. CASE Test
      <3>1. UNCHANGED <<magic_mem, fromhost, fromhost_queue>> /\ h'.pc \notin Calling
        BY <2>3, GotoFacts DEF Test
      <3> QED BY <2>0, <3>1 DEF MagicMem, Served
    <2>4. CASE Command /\ ~Identify
      <3>1. UNCHANGED <<magic_mem, fromhost, fromhost_queue>> /\ h.pc = "command"
        BY <2>4 DEF Command
      <3>2. ASSUME h.t.hi = 0, h.t.lo % 2 = 0, h' = [h EXCEPT !.pc = "dispatch", !.call = magic_mem]
            PROVE  h'.pc = "dispatch" /\ h'.call = magic_mem /\ g.pc = "wait"
        <4>1. h.t = SyscallCmd
          BY <3>1, <3>2, Devices DEF Serving
        <4>2. g.pc \in GuestPc
          BY <1>0 DEF GuestRec
        <4>3. g.pc = "wait"
          BY <3>1, <4>1, <4>2 DEF OneUnderWay, Serving, GuestPc, Placed
        <4> QED BY <1>0, <3>2, <4>3 DEF HostRec
      <3>3. h'.pc = "resume" \/ (h'.pc = "dispatch" /\ h'.call = magic_mem /\ g.pc = "wait")
        BY <2>4, <3>2, GotoFacts DEF Command
      <3> QED BY <2>0, <3>1, <3>3 DEF MagicMem, Served
    <2>5. CASE Dispatch
      <3>1. UNCHANGED <<magic_mem, fromhost, fromhost_queue>> /\ h.pc = "dispatch" /\ h'.call = h.call
        BY <2>5, GotoFacts DEF Dispatch, BadSyscall
      <3>2. \/ h'.pc = "return"
            \/ h'.pc = "respond" /\ h.call.name = "bad"
            \/ h'.pc = "con_put" /\ h.call.name = "write_console"
        BY <2>5, GotoFacts DEF Dispatch, BadSyscall
      <3> QED BY <2>0, <3>1, <3>2 DEF MagicMem, Served
    <2>6. CASE WriteConsole
      <3>1. UNCHANGED <<magic_mem, fromhost, fromhost_queue>> /\ h'.call = h.call
        BY <2>6, GotoFacts DEF WriteConsole, ConsolePut, ConsoleAck
      <3>2. \/ h.pc = "con_put" /\ h'.pc = "con_ack"
            \/ h.pc = "con_ack" /\ h'.pc = "return"
        BY <2>6, GotoFacts DEF WriteConsole, ConsolePut, ConsoleAck
      <3> QED BY <2>0, <3>1, <3>2 DEF MagicMem, Served
    <2>7. CASE Return
      <3>1. /\ UNCHANGED <<fromhost, fromhost_queue>> /\ h.pc = "return" /\ h'.pc = "respond"
            /\ magic_mem' = [h.call EXCEPT !.st = "ret"]
        BY <2>7, GotoFacts DEF Return
      <3>2. magic_mem'.st = "ret"
        BY <1>0, <3>1 DEF HostRec, Mem
      <3> QED BY <2>0, <3>1, <3>2 DEF MagicMem, Served
    <2>8. CASE Respond
      <3>1. UNCHANGED <<magic_mem, fromhost>> /\ h.pc = "respond" /\ h'.pc = "resume"
        BY <2>8, GotoFacts DEF Respond
      <3> QED BY <2>0, <3>1 DEF MagicMem, Served
    <2>9. CASE Tick
      <3>1. UNCHANGED <<magic_mem, fromhost, fromhost_queue>> /\ h'.pc \notin Calling
        BY <2>9, GotoFacts DEF Tick, Placed
      <3> QED BY <2>0, <3>1 DEF MagicMem, Served
    <2>10. CASE PutAnswer
      <3>1. magic_mem' = magic_mem /\ h'.pc \notin Calling /\ fromhost_queue # <<>>
        BY <2>10, GotoFacts DEF PutAnswer, Placed
      <3> QED BY <2>0, <3>1 DEF MagicMem, Served
    <2>11. CASE Command /\ Identify
      <3>1. UNCHANGED <<magic_mem, fromhost>> /\ h.pc = "command" /\ h'.pc \notin Calling
        BY <2>11, GotoFacts DEF Command, Identify
      <3>2. h.t # SyscallCmd
        BY <2>11, <3>1, Devices DEF Identify, Serving
      <3>3. g.pc = "spin"
        BY <1>0, <3>1, <3>2 DEF OneUnderWay, Serving, Placed, GuestRec, GuestPc
      <3> QED BY <2>0, <3>1, <3>3 DEF MagicMem, Served
    <2> QED BY <1>4, <2>1, <2>2, <2>3, <2>4, <2>5, <2>6, <2>7, <2>8, <2>9, <2>10, <2>11 DEF Host
  <1> QED BY <1>1, <1>2, <1>3, <1>4 DEF Next

-----------------------------------------------------------------------------
(* The console. *)

\* The guest's side of a console write.
LEMMA GuestWrites ==
  ASSUME HtifTypeOK, Placed, OneUnderWay, MagicMem, Handshake, Guest PROVE Handshake'
  <1>0. g \in GuestRec /\ g'.env = g.env /\ UNCHANGED <<h, con>>
    BY EnvFacts DEF HtifTypeOK, Next, Guest, hostVars
  <1>1. ASSUME NEW c \in Calls, Syscall(c) PROVE Handshake'
    <2>1. /\ g.env = "bench" /\ g.pc = "run" /\ g'.pc = "call" /\ tohost' = tohost
          /\ magic_mem'.name = c.name /\ magic_mem'.arg = c.arg
          /\ g'.sent = IF c.name = "write_console" THEN Append(g.sent, c.arg) ELSE g.sent
      BY <1>0, <1>1 DEF Syscall, GuestRec
    <2>2. c.name = "write_console" => c.arg # 0
      BY HtifAssumption DEF Calls
    <2>3. h.pc \notin Serving /\ ~Untaken
      BY <2>1 DEF OneUnderWay, Untaken
    <2>4. Untaken' <=> c.name = "write_console"
      BY <1>0, <2>1 DEF Untaken
    <2> QED BY <1>0, <2>1, <2>2, <2>3, <2>4 DEF Handshake, Serving, Calling
  <1>2. CASE SyscallStore
    <2>1. /\ g.pc = "call" /\ g'.pc = "wait" /\ magic_mem' = magic_mem /\ g'.sent = g.sent
          /\ tohost' # Zero
      BY <1>0, <1>2 DEF SyscallStore, Store, GuestRec, SyscallCmd, Zero, Magic
    <2>2. Untaken' <=> Untaken
      BY <1>0, <2>1 DEF Untaken
    <2> QED BY <1>0, <2>1, <2>2 DEF Handshake
  <1>3. CASE TakeAnswer
    <2>1. /\ g.pc = "wait" /\ g'.pc = "run" /\ magic_mem' = magic_mem /\ g'.sent = g.sent
          /\ fromhost # Zero
      BY <1>0, <1>3 DEF TakeAnswer, GuestRec
    <2>2. ~Untaken /\ ~Untaken'
      BY <2>1 DEF Untaken, OneUnderWay, Serving, Calling
    <2> QED BY <1>0, <2>1, <2>2 DEF Handshake
  <1>4. CASE CallDoTohost \/ DoTohostWait \/ DoTohostStore
    <2>1. g.env = "v" /\ magic_mem' = magic_mem /\ g'.sent = g.sent
      BY <1>0, <1>4 DEF CallDoTohost, DoTohostWait, DoTohostStore, GuestRec, Placed
    <2>2. ~Untaken /\ ~Untaken'
      BY <1>0, <2>1 DEF Untaken
    <2> QED BY <1>0, <2>1, <2>2 DEF Handshake
  <1>5. ASSUME NEW c \in ExitCodes, TohostExit(c) PROVE Handshake'
    <2>1. g.pc = "run" /\ g'.pc = "spin" /\ magic_mem' = magic_mem /\ g'.sent = g.sent
      BY <1>0, <1>5 DEF TohostExit, GuestRec
    <2>2. ~Untaken /\ ~Untaken'
      BY <2>1 DEF Untaken
    <2> QED BY <1>0, <2>1, <2>2 DEF Handshake
  <1> QED BY <1>1, <1>2, <1>3, <1>4, <1>5 DEF Guest

\* Where Untaken may be lost: only by the console taking the character.
LEMMA UntakenMoves ==
  ASSUME HtifTypeOK, Handshake, g' = g, con' = con,
         magic_mem'.name = magic_mem.name, magic_mem'.arg = magic_mem.arg,
         Untaken' <=> Untaken, h.pc = "con_ack" <=> h'.pc = "con_ack"
  PROVE  Handshake'
  BY DEF Handshake

LEMMA HandshakeStep ==
  ASSUME HtifTypeOK, Placed, Discipline, Halves, OneUnderWay, MagicMem, Handshake, [Next]_vars
  PROVE  Handshake'
  <1>0. /\ g \in GuestRec /\ g'.env = g.env /\ h \in HostRec /\ magic_mem \in Mem
        /\ con \in [msg : Nat, done : BOOLEAN, got : Seq(Nat)]
    BY EnvFacts DEF HtifTypeOK
  \* The console and the host's write are busy only for the call that is waited for.
  <1>c. h.pc \in {"con_put", "con_ack"} =>
          /\ g.env = "bench" /\ g.pc = "wait" /\ tohost = Zero
          /\ h.call = magic_mem /\ magic_mem.name = "write_console"
    BY Devices DEF Placed, MagicMem, OneUnderWay, Serving, Calling
  <1>1. CASE Guest
    BY <1>1, GuestWrites
  <1>2. CASE CoreStalls \/ Type \/ UNCHANGED vars
    BY <1>2 DEF CoreStalls, Type, vars, hostVars, Handshake, Untaken
  <1>3. CASE Breakpoint
    <2>1. g'.pc = g.pc /\ g'.sent = g.sent
      BY <1>0, <1>3 DEF Breakpoint, GuestRec
    <2> QED BY <1>0, <1>3, <2>1 DEF Breakpoint, hostVars, Handshake, Untaken
  <1>4. CASE Console
    <2>0. UNCHANGED <<tohost, magic_mem, h, g>>
      BY <1>4 DEF Console, hostVars
    <2>1. CASE con.msg # 0 /\ ~con.done /\ con' = [con EXCEPT !.done = TRUE, !.got = Append(@, con.msg)]
      <3>1. con'.msg = con.msg /\ con'.done = TRUE /\ con'.got = Append(con.got, con.msg)
        BY <1>0, <2>1
      <3>2. h.pc = "con_ack" /\ con.msg = magic_mem.arg
        BY <2>1 DEF Handshake
      <3>3. Untaken /\ ~Untaken'
        BY <1>c, <2>0, <2>1, <3>1, <3>2 DEF Untaken
      <3> QED BY <2>0, <3>1, <3>2, <3>3 DEF Handshake
    <2>2. CASE con.msg = 0 /\ con.done /\ con' = [con EXCEPT !.done = FALSE]
      <3>1. con'.msg = con.msg /\ con'.got = con.got
        BY <1>0, <2>2
      <3>2. h.pc # "con_ack"
        BY <1>c, <2>2 DEF Handshake
      <3>3. Untaken' <=> Untaken
        BY <2>0, <3>2 DEF Untaken
      <3> QED BY <2>0, <3>1, <3>2, <3>3 DEF Handshake
    <2> QED BY <1>4, <2>1, <2>2 DEF Console
  <1>5. CASE Host
    <2>0. g' = g
      BY <1>5, HostKeepsGuest
    <2>1. CASE Loop \/ ResumeBp \/ Answer \/ Tick \/ PutAnswer
      <3>1. /\ UNCHANGED <<magic_mem, tohost, con>>
            /\ h.pc \notin Serving /\ h'.pc \notin Serving
        BY <2>1, GotoFacts DEF Loop, ResumeBp, Answer, Tick, PutAnswer, Serving, Calling
      <3> QED BY <2>0, <3>1, UntakenMoves DEF Untaken, Serving, Calling
    <2>2. CASE ReadTohost
      <3>1. /\ UNCHANGED <<magic_mem, tohost, con>>
            /\ h.pc \notin Serving /\ h'.pc \notin Serving
        BY <2>2, ReadFacts DEF ReadTohost, Serving, Calling
      <3> QED BY <2>0, <3>1, UntakenMoves DEF Untaken, Serving, Calling
    <2>3. CASE Test
      <3>1. UNCHANGED <<magic_mem, con>> /\ h.pc = "test"
        BY <2>3 DEF Test
      <3>2. \/ h'.pc = "command" /\ tohost # Zero
            \/ h'.pc \in {"tick", "bp"} /\ tohost' = tohost
        BY <2>3, GotoFacts, WholeCommand DEF Test
      <3>3. g.env = "bench" /\ tohost # Zero => g.pc # "call"
        BY DEF OneUnderWay
      <3> QED BY <2>0, <3>1, <3>2, <3>3, UntakenMoves DEF Untaken
    <2>4. CASE Command
      <3>1. UNCHANGED <<magic_mem, con, tohost>> /\ h.pc = "command"
        BY <2>4 DEF Command
      <3>2. h'.pc \in {"dispatch", "resume", "aborted"}
        <4>1. ASSUME h' = [h EXCEPT !.pc = "dispatch", !.call = magic_mem] PROVE h'.pc = "dispatch"
          BY <1>0, <4>1 DEF HostRec
        <4> QED BY <2>4, <4>1, GotoFacts DEF Command, Identify
      <3>3. ASSUME g.env = "bench", g.pc \in {"call", "wait"} PROVE h'.pc = "dispatch"
        <4>1. h.t = SyscallCmd
          BY <3>1, <3>3 DEF OneUnderWay, Serving
        <4>2. h.t.hi = 0 /\ h.t.lo % 2 # 1
          BY <4>1 DEF SyscallCmd, Magic
        <4>3. h' = [h EXCEPT !.pc = "dispatch", !.call = magic_mem]
          BY <2>4, <4>2 DEF Command, Identify, AllOnes
        <4> QED BY <1>0, <4>3 DEF HostRec
      <3> QED BY <2>0, <3>1, <3>2, <3>3, UntakenMoves DEF Untaken
    <2>5. CASE Dispatch
      <3>1. UNCHANGED <<magic_mem, con, tohost>> /\ h.pc = "dispatch"
        BY <2>5 DEF Dispatch
      <3>2. /\ h'.pc \in {"return", "respond", "con_put"}
            /\ h'.pc = "con_put" <=> h.call.name = "write_console"
        BY <2>5, GotoFacts DEF Dispatch, BadSyscall
      <3>3. g.env = "bench" => h.call = magic_mem
        BY <3>1 DEF MagicMem, Calling
      <3>4. g.env = "bench" => tohost = Zero /\ g.pc # "call"
        BY <3>1 DEF OneUnderWay, Serving, Calling
      <3> QED BY <2>0, <3>1, <3>2, <3>3, <3>4, UntakenMoves DEF Untaken
    <2>6. CASE WriteConsole
      <3>1. UNCHANGED <<magic_mem, tohost>>
        BY <2>6 DEF WriteConsole
      <3>2. CASE ConsolePut
        <4>1. /\ h.pc = "con_put" /\ h'.pc = "con_ack" /\ ~con.done
              /\ con'.msg = h.call.arg /\ con'.done = con.done /\ con'.got = con.got
          BY <1>0, <3>2, GotoFacts DEF ConsolePut
        <4>2. Untaken' <=> Untaken
          BY <2>0, <3>1, <4>1 DEF Untaken
        <4> QED BY <1>c, <2>0, <3>1, <4>1, <4>2 DEF Handshake
      <3>3. CASE ConsoleAck
        <4>1. /\ h.pc = "con_ack" /\ h'.pc = "return" /\ con.done
              /\ con'.msg = 0 /\ con'.done = con.done /\ con'.got = con.got
          BY <1>0, <3>3, GotoFacts DEF ConsoleAck
        <4>2. ~Untaken /\ ~Untaken'
          BY <1>c, <2>0, <3>1, <4>1 DEF Untaken
        <4> QED BY <1>c, <2>0, <3>1, <4>1, <4>2 DEF Handshake
      <3> QED BY <2>6, <3>2, <3>3 DEF WriteConsole
    <2>7. CASE Return
      <3>1. /\ UNCHANGED <<con, tohost>> /\ h.pc = "return" /\ h'.pc = "respond"
            /\ magic_mem' = [h.call EXCEPT !.st = "ret"]
        BY <2>7, GotoFacts DEF Return
      <3>2. h.t = SyscallCmd /\ g.env = "bench"
        BY <3>1, Devices DEF Placed, Serving, Calling
      <3>3. magic_mem'.name = magic_mem.name /\ magic_mem'.arg = magic_mem.arg
        BY <1>0, <3>1, <3>2 DEF MagicMem, HostRec, Mem, Calling
      <3>4. tohost = Zero /\ g.pc # "call"
        BY <3>1, <3>2 DEF OneUnderWay, Serving, Calling
      <3> QED BY <2>0, <3>1, <3>3, <3>4, UntakenMoves DEF Untaken
    <2>8. CASE Respond
      <3>1. UNCHANGED <<con, tohost, magic_mem>> /\ h.pc = "respond" /\ h'.pc = "resume"
        BY <2>8, GotoFacts DEF Respond
      <3> QED BY <2>0, <3>1, UntakenMoves DEF Untaken
    <2> QED BY <1>5, <2>1, <2>2, <2>3, <2>4, <2>5, <2>6, <2>7, <2>8 DEF Host
  <1> QED BY <1>1, <1>2, <1>3, <1>4, <1>5 DEF Next

-----------------------------------------------------------------------------
(* The table of files. *)

\* Every slot in use holds an open file, every open file is in a slot, and no
\* two slots hold the same.
Table(f, o) ==
  /\ \A i \in 1 .. Len(f) : f[i] # -1 => f[i] \in o
  /\ \A x \in o : x # -1 /\ \E i \in 1 .. Len(f) : f[i] = x
  /\ \A i, j \in 1 .. Len(f) : f[i] # -1 /\ f[i] = f[j] => i = j

LEMMA TableIsConsistent == FdsConsistent <=> Table(fds, osfds)
  BY DEF FdsConsistent, Table

LEMMA FdsStep == ASSUME HtifTypeOK, FdsConsistent, [Next]_vars PROVE FdsConsistent'
  <1>0. /\ fds \in Seq(Nat \cup {-1}) /\ osfds \in SUBSET Nat /\ Len(fds) \in Nat
        /\ \A i \in 1 .. Len(fds) : fds[i] \in Nat \cup {-1}
    BY LenProperties, ElementOfSeq DEF HtifTypeOK
  <1>t. Table(fds, osfds)
    BY TableIsConsistent
  <1> SUFFICES Table(fds', osfds')
    BY DEF Table, FdsConsistent
  <1>1. CASE UNCHANGED <<fds, osfds>>
    BY <1>1, <1>t
  <1>2. ASSUME NEW fd \in HostFd \ osfds, osfds' = osfds \cup {fd}, fds' = Alloc(fd)
        PROVE  Table(fds', osfds')
    <2>0. fd \in Nat /\ fd # -1 /\ fd \notin osfds
      BY HtifAssumption
    <2>1. CASE Alloc(fd) = Append(fds, fd)
      <3>1. /\ Len(fds') = Len(fds) + 1
            /\ \A i \in 1 .. Len(fds) : fds'[i] = fds[i]
            /\ fds'[Len(fds) + 1] = fd
        BY <1>0, <1>2, <2>0, <2>1, AppendProperties
      <3>2. \A i \in 1 .. Len(fds') : i \in 1 .. Len(fds) \/ i = Len(fds) + 1
        BY <1>0, <3>1
      <3>3. \A i \in 1 .. Len(fds) : i \in 1 .. Len(fds')
        BY <1>0, <3>1
      <3>4. Len(fds) + 1 \in 1 .. Len(fds')
        BY <1>0, <3>1
      <3> HIDE DEF Table
      <3>5. \A i \in 1 .. Len(fds) : fds[i] # fd
        BY <1>t, <2>0 DEF Table
      <3> QED BY <1>2, <1>t, <2>0, <3>1, <3>2, <3>3, <3>4, <3>5 DEF Table
    <2>2. ASSUME NEW k \in 1 .. Len(fds), fds[k] = -1, Alloc(fd) = [fds EXCEPT ![k] = fd]
          PROVE  Table(fds', osfds')
      <3>1. /\ Len(fds') = Len(fds)
            /\ \A i \in 1 .. Len(fds) : fds'[i] = IF i = k THEN fd ELSE fds[i]
        BY <1>0, <1>2, <2>0, <2>2, FdsUpdate
      <3>2. \A i \in 1 .. Len(fds) : fds[i] # fd
        BY <1>t, <2>0 DEF Table
      <3> QED BY <1>2, <1>t, <2>0, <2>2, <3>1, <3>2 DEF Table
    <2> QED BY <1>0, <2>0, <2>1, <2>2, AllocFacts
  <1>3. ASSUME SysClose(h.call.arg) PROVE Table(fds', osfds')
    <2>1. h.call.arg \in Nat
      BY DEF HtifTypeOK, HostRec, Mem
    <2>2. CASE Lookup(h.call.arg) \in osfds
      <3> DEFINE k == h.call.arg + 1
      <3>1. k \in 1 .. Len(fds) /\ Lookup(h.call.arg) = fds[k] /\ fds[k] # -1
        BY <1>0, <2>1, <2>2 DEF Lookup
      <3>2. osfds' = osfds \ {fds[k]} /\ fds' = [fds EXCEPT ![k] = -1]
        BY <1>3, <2>2, <3>1 DEF SysClose
      <3>3. /\ Len(fds') = Len(fds)
            /\ \A i \in 1 .. Len(fds) : fds'[i] = IF i = k THEN -1 ELSE fds[i]
        BY <1>0, <3>1, <3>2, FdsUpdate
      <3> HIDE DEF k
      <3> QED BY <1>t, <3>1, <3>2, <3>3 DEF Table
    <2>3. CASE Lookup(h.call.arg) \notin osfds
      BY <1>1, <1>3, <2>3 DEF SysClose
    <2> QED BY <2>2, <2>3
  <1>4. CASE Dispatch
    BY <1>1, <1>2, <1>3, <1>4 DEF Dispatch, SysOpen
  <1>5. CASE ~Dispatch
    <2>1. UNCHANGED <<fds, osfds>>
      BY <1>5 DEF Next, Guest, CoreStalls, Breakpoint, Type, Console, vars, hostVars, Host, Loop,
                  ReadTohost, Test, ResumeBp, Command, WriteConsole, Return, Respond, Tick,
                  Answer, PutAnswer
    <2> QED BY <1>1, <2>1
  <1> QED BY <1>4, <1>5

-----------------------------------------------------------------------------
(* The theorems. *)

LEMMA InitIInv == ASSUME Init PROVE IInv
  <1> USE CmdFacts DEF Init
  <1>1. magic_mem \in Mem
    BY DEF Mem
  <1>2. h \in HostRec /\ h.pc = "loop"
    BY <1>1 DEF HostRec, HostPc
  <1>3. g \in GuestRec /\ g.pc = "run" /\ g.sent = <<>>
    BY EmptySeq DEF GuestRec, GuestPc
  <1>4. fds \in Seq(Nat \cup {-1})
    OBVIOUS
  <1>5. HtifTypeOK
    <2>1. \A S : <<>> \in Seq(S)
      BY EmptySeq
    <2>2. /\ term \in [typed : Nat, read : Nat]
          /\ con \in [msg : Nat, done : BOOLEAN, got : Seq(Nat)]
      BY <2>1
    <2>3. exitcode \in Int /\ stopped \in BOOLEAN /\ osfds \in SUBSET Nat
      <3>1. exitcode = 0 /\ stopped = FALSE /\ osfds = {3, 4, 5}
        BY Zenon
      <3>2. {3, 4, 5} \in SUBSET Nat /\ 0 \in Int /\ FALSE \in BOOLEAN
        BY SMT
      <3> QED BY <3>1, <3>2, Zenon
    <2>4. fromhost_queue \in Seq(Word) /\ pending_reads \in Seq(Word)
          /\ issued \in Seq(Word) /\ handled \in Seq(Word)
      BY <2>1
    <2>5. tohost \in Word /\ fromhost \in Word
      OBVIOUS
    <2> QED BY <1>1, <1>2, <1>3, <1>4, <2>2, <2>3, <2>4, <2>5, Zenon DEF HtifTypeOK
  <1>6. Placed /\ Halves /\ Discipline /\ Ledger
    BY <1>2, <1>3 DEF Placed, Halves, Discipline, Ledger, Reading, Serving, Calling
  <1>7. OneUnderWay /\ MagicMem
    BY <1>2, <1>3 DEF OneUnderWay, MagicMem, Served, Serving, Calling
  <1>8. Handshake
    BY <1>2, <1>3 DEF Handshake, Untaken
  <1>9. FdsConsistent
    BY TableIsConsistent DEF Table
  <1> QED BY <1>5, <1>6, <1>7, <1>8, <1>9 DEF IInv

LEMMA Inductive == IInv /\ [Next]_vars => IInv'
  BY TypeStep, PlacedStep, HalvesStep, DisciplineStep, LedgerStep, OneUnderWayStep, MagicMemStep,
     HandshakeStep, FdsStep, Zenon DEF IInv

LEMMA Invariance == Spec => []IInv
  BY InitIInv, Inductive, PTL DEF Spec

\* A sequence is a prefix of itself and of what is appended to it.
LEMMA PrefixAppend ==
  ASSUME NEW S, NEW s \in Seq(S), NEW e \in S
  PROVE  IsPrefix(s, s) /\ IsPrefix(s, Append(s, e))
  <1>1. Len(s) \in Nat /\ Len(Append(s, e)) = Len(s) + 1 /\ Append(s, e) \in Seq(S)
    BY AppendProperties, LenProperties
  <1>2. SubSeq(Append(s, e), 1, Len(s)) = s
    BY <1>1, AppendProperties
  <1>3. SubSeq(s, 1, Len(s)) = s
    BY <1>1, SubSeqFull
  <1> QED BY <1>1, <1>2, <1>3 DEF IsPrefix

\* The host serves exactly the stored commands, in their order, each once,
\* although it reads tohost in halves while the guest goes on (ReadTohost, Test).
THEOREM CommandsServedInOrder == Spec => []CommandsInOrder
<1>1. IInv => CommandsInOrder
  <2> SUFFICES ASSUME IInv PROVE CommandsInOrder
    OBVIOUS
  <2>1. handled \in Seq(Word) /\ tohost \in Word
    BY DEF IInv, HtifTypeOK
  <2> QED BY <2>1, PrefixAppend DEF IInv, Ledger, CommandsInOrder
<1> QED BY <1>1, Invariance, PTL

\* A system call that has returned finds its own result in magic_mem (Return,
\* PutAnswer, TakeAnswer).
THEOREM AnswersMatch == Spec => []AnswerMatches
<1>1. IInv => AnswerMatches
  BY DEF IInv, MagicMem, Served, AnswerMatches
<1> QED BY <1>1, Invariance, PTL

\* The proxy's table and the kernel agree about the open files (SysOpen, SysClose).
THEOREM TableConsistent == Spec => []FdsConsistent
<1>1. IInv => FdsConsistent
  BY DEF IInv
<1> QED BY <1>1, Invariance, PTL

\* The console process gets every character once and in order, before the call
\* that writes it returns (ConsolePut, ConsoleAck, Console).
THEOREM ConsoleIsExact == Spec => []ConsoleExact
<1>1. IInv => ConsoleExact
  <2> SUFFICES ASSUME IInv PROVE ConsoleExact
    OBVIOUS
  <2>1. con.got \in Seq(Nat) /\ magic_mem.arg \in Nat
    BY DEF IInv, HtifTypeOK, Mem
  <2> QED BY <2>1, PrefixAppend DEF IInv, Handshake, Untaken, ConsoleExact
<1> QED BY <1>1, Invariance, PTL
=============================================================================
