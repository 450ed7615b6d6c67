-------------------------------- MODULE Htif --------------------------------
(***************************************************************************)
(* htif_t::run with its devices, and the guest it serves.  The two share   *)
(* the words tohost and fromhost and the guest's magic_mem; the host reads *)
(* memory four bytes at a time (read_chunk of dtm), so tohost is two halves*)
(* here.  The guest is one program, built with one of two environments:    *)
(* "bench" (syscalls.c, proxied system calls) or "v" (vm.c, do_tohost).    *)
(***************************************************************************)
EXTENDS Integers, Sequences, SequencesExt

CONSTANTS Chars,        \* characters of the console, positive
          ExitCodes,    \* codes the guest may exit with: C ints
          HalfSize,     \* how many values half of tohost has, as an int: 2^32
          MaxCmd,       \* bound on the guest's commands before it exits
          MaxKeys,      \* bound on the characters typed
          MaxBp,        \* bound on the breakpoints the guest runs into
          HostFd        \* numbers the host's kernel hands out

ASSUME HtifAssumption == /\ Chars \subseteq Nat \ {0}
                         /\ HalfSize \in Nat /\ HalfSize % 4 = 0
                         /\ ExitCodes \subseteq -(HalfSize \div 2) .. HalfSize \div 2 - 1
                         /\ HostFd \subseteq Nat

VARIABLES tohost, fromhost, magic_mem,      \* shared memory
          h,                                \* the host's run loop
          fromhost_queue, pending_reads, exitcode, stopped,
          fds, osfds,                       \* fds_t, and the kernel's open set
          term,                             \* external: characters typed, read
          con,                              \* external: the console process
          g,                                \* the guest program
          stall,                            \* external: the core's stall input
          issued, handled                   \* commands stored, commands served

hostVars == <<h, fromhost_queue, pending_reads, exitcode, stopped, fds, osfds>>
vars == <<tohost, fromhost, magic_mem, hostVars, term, con, g, stall, issued, handled>>

\* A command: hi carries device and command, lo the payload (the payload's upper
\* bits are those of a sign extension, or 0).
Zero == [hi |-> 0, lo |-> 0]
Magic == 2                              \* the (even) address of magic_mem
SyscallCmd == [hi |-> 0, lo |-> Magic]
AllOnes == 65535                        \* device 0xff, command 0xff

\* (code << 1) | 1 of an int made a uintptr_t: the sign fills the upper half.
ExitCmd(c) == IF c < 0 THEN [hi |-> AllOnes, lo |-> HalfSize + 2 * c + 1]
                       ELSE [hi |-> 0, lo |-> 2 * c + 1]

\* The codes that twice the code still fits an int with.
SmallCodes == {c \in ExitCodes : 0 <= c /\ c < HalfSize \div 4}

BcdRead == [hi |-> 256, lo |-> 0]
BcdWrite(ch) == [hi |-> 257, lo |-> ch]

\* command_t::respond keeps device and command of the tohost it answers.
Response(cmd, resp) == [hi |-> cmd.hi, lo |-> resp]

\* The system calls that differ in what they do to the host's state.  (fcntl with
\* F_DUPFD, which opens a kernel number that fds never records, is left out.)
Calls == {[name |-> "open", arg |-> 0], [name |-> "bad", arg |-> 0]}
           \cup {[name |-> "close", arg |-> i] : i \in 3 .. 4}
           \cup {[name |-> "write_console", arg |-> ch] : ch \in Chars}

Init ==
  /\ tohost = Zero /\ fromhost = Zero
  /\ magic_mem = [name |-> "none", arg |-> 0, st |-> "ret", no |-> 0]
  /\ \E frz, bp \in BOOLEAN :
       h = [pc |-> "loop", freeze |-> frz, test_bp |-> bp, t |-> Zero, t1 |-> Zero, call |-> magic_mem]
  /\ fromhost_queue = <<>> /\ pending_reads = <<>>
  /\ exitcode = 0 /\ stopped = FALSE
  /\ fds = <<3, 4, 5>> /\ osfds = {3, 4, 5}
  /\ term = [typed |-> 0, read |-> 0]
  /\ con = [msg |-> 0, done |-> FALSE, got |-> <<>>]
  /\ \E e \in {"bench", "v"} :
       g = [env |-> e, pc |-> "run", cmd |-> Zero, no |-> 0, code |-> 0,
            sent |-> <<>>, bps |-> 0]
  /\ stall = "off"
  /\ issued = <<>> /\ handled = <<>>

-----------------------------------------------------------------------------
(* The guest.  It executes only while the core is not stalled.             *)
GuestRuns == stall \notin {"stalled", "bp"}

Store(cmd) == tohost' = cmd /\ issued' = Append(issued, cmd)

\* syscalls.c syscall(): fill magic_mem, point tohost at it, wait for fromhost.
Syscall(c) ==
  /\ g.env = "bench" /\ g.pc = "run" /\ g.no < MaxCmd
  /\ magic_mem' = [name |-> c.name, arg |-> c.arg, st |-> "call", no |-> g.no + 1]
  /\ g' = [g EXCEPT !.pc = "call", !.no = @ + 1,
                    !.sent = IF c.name = "write_console" THEN Append(@, c.arg) ELSE @]
  /\ UNCHANGED <<tohost, fromhost, issued>>

SyscallStore ==
  /\ g.pc = "call"
  /\ Store(SyscallCmd)
  /\ g' = [g EXCEPT !.pc = "wait"]
  /\ UNCHANGED <<fromhost, magic_mem>>

\* Mutant: the guest forgets to take its answer out of fromhost.
TakeAnswerKept ==
  /\ g.pc = "wait" /\ fromhost # Zero
  /\ g' = [g EXCEPT !.pc = "run"]
  /\ UNCHANGED <<tohost, fromhost, magic_mem, issued>>

\* while (fromhost == 0); fromhost = 0;
TakeAnswer ==
  /\ g.pc = "wait" /\ fromhost # Zero
  /\ fromhost' = Zero
  /\ g' = [g EXCEPT !.pc = "run"]
  /\ UNCHANGED <<tohost, magic_mem, issued>>

\* tohost_exit of syscalls.c stores without looking.
TohostExit(c) ==
  /\ g.env = "bench" /\ g.pc = "run"
  /\ Store(ExitCmd(c))
  /\ g' = [g EXCEPT !.pc = "spin", !.code = c]
  /\ UNCHANGED <<fromhost, magic_mem>>

\* vm.c cputchar and terminate go through do_tohost; so does a console read,
\* which then waits for its character.  Its exit codes are the small test numbers.
CallDoTohost ==
  /\ g.env = "v" /\ g.pc = "run"
  /\ \/ /\ g.no < MaxCmd
        /\ \E cmd \in {BcdRead} \cup {BcdWrite(ch) : ch \in Chars} :
             g' = [g EXCEPT !.pc = "do_tohost", !.cmd = cmd, !.no = @ + 1]
     \/ \E c \in SmallCodes :
          g' = [g EXCEPT !.pc = "do_tohost", !.cmd = ExitCmd(c), !.code = c]
  /\ UNCHANGED <<tohost, fromhost, magic_mem, issued>>

\* while (tohost) fromhost = 0;
DoTohostWait ==
  /\ g.pc = "do_tohost"
  /\ IF tohost # Zero THEN fromhost' = Zero /\ UNCHANGED g
     ELSE g' = [g EXCEPT !.pc = "do_store"] /\ UNCHANGED fromhost
  /\ UNCHANGED <<tohost, magic_mem, issued>>

DoTohostStore ==
  /\ g.pc = "do_store"
  /\ Store(g.cmd)
  /\ g' = [g EXCEPT !.pc = CASE g.cmd = BcdRead -> "wait"
                             [] g.cmd.hi = 257 -> "run"
                             [] OTHER -> "spin"]
  /\ UNCHANGED <<fromhost, magic_mem>>

Guest ==
  /\ GuestRuns
  /\ \/ \E c \in Calls : Syscall(c)
     \/ SyscallStore \/ TakeAnswer \/ CallDoTohost \/ DoTohostWait \/ DoTohostStore
     \/ \E c \in ExitCodes : TohostExit(c)
  /\ UNCHANGED <<hostVars, term, con, stall, handled>>

-----------------------------------------------------------------------------
(* The core's stall handshake and breakpoints, the keyboard and the console. *)
Breakpoint == /\ h.test_bp /\ stall = "off" /\ g.pc # "spin" /\ g.bps < MaxBp
              /\ stall' = "bp" /\ g' = [g EXCEPT !.bps = @ + 1]
              /\ UNCHANGED <<tohost, fromhost, magic_mem, hostVars, term, con,
                             issued, handled>>

CoreStalls == /\ stall = "asked" /\ stall' = "stalled"
              /\ UNCHANGED <<tohost, fromhost, magic_mem, hostVars, term, con, g,
                             issued, handled>>

Type == /\ term.typed < MaxKeys
        /\ term' = [term EXCEPT !.typed = @ + 1]
        /\ UNCHANGED <<tohost, fromhost, magic_mem, hostVars, con, g, stall,
                       issued, handled>>

\* The console takes a message and asserts done; it releases done when the
\* message has been cleared.
Console == /\ \/ /\ con.msg # 0 /\ ~con.done
                 /\ con' = [con EXCEPT !.done = TRUE, !.got = Append(@, con.msg)]
              \/ /\ con.msg = 0 /\ con.done
                 /\ con' = [con EXCEPT !.done = FALSE]
           /\ UNCHANGED <<tohost, fromhost, magic_mem, hostVars, term, g, stall,
                          issued, handled>>

-----------------------------------------------------------------------------
(* The host.  Each memory access is a step.                                *)
Goto(pc) == h' = [h EXCEPT !.pc = pc]

\* while (!signal_exit && exitcode == 0); freeze asks the core to stall first.
Loop ==
  /\ h.pc = "loop"
  /\ \/ /\ exitcode # 0
        /\ stopped' = TRUE /\ Goto("stopped") /\ UNCHANGED stall
     \/ /\ exitcode = 0 /\ h.freeze
        /\ stall' = IF stall = "bp" THEN "stalled" ELSE "asked"
        /\ Goto("stalling") /\ UNCHANGED stopped
     \/ /\ exitcode = 0 /\ ~h.freeze
        /\ Goto("lo") /\ UNCHANGED <<stall, stopped>>
  /\ UNCHANGED <<tohost, fromhost, magic_mem, fromhost_queue, pending_reads,
                 exitcode, fds, osfds, term, con, g, issued, handled>>

\* Poll B2S_DEBUG_STALL_OUT; read tohost twice, each time the low half first.
ReadTohost ==
  /\ \/ h.pc = "stalling" /\ stall = "stalled" /\ Goto("lo")
     \/ h.pc = "lo" /\ h' = [h EXCEPT !.pc = "hi", !.t.lo = tohost.lo]
     \/ h.pc = "hi" /\ h' = [h EXCEPT !.pc = "lo1", !.t.hi = tohost.hi]
     \/ h.pc = "lo1" /\ h' = [h EXCEPT !.pc = "hi1", !.t1.lo = tohost.lo]
     \/ h.pc = "hi1" /\ h' = [h EXCEPT !.pc = "test", !.t1.hi = tohost.hi]
  /\ UNCHANGED <<tohost, fromhost, magic_mem, fromhost_queue, pending_reads, exitcode,
                 stopped, fds, osfds, term, con, g, stall, issued, handled>>

\* Mutant: one read of tohost is enough.
IsCommandOnce == h.t # Zero

\* (tohost == tohost_1) && (tohost != 0x0)
IsCommand == h.t = h.t1 /\ h.t # Zero

\* freeze lets the core go on, from a breakpoint too.
Release == stall' = IF h.freeze THEN "off" ELSE stall

\* Clear tohost and go to the device, or idle; one idle round in three looks for
\* a breakpoint.
Test ==
  /\ h.pc = "test"
  /\ IF IsCommand
     THEN /\ tohost' = Zero /\ handled' = Append(handled, h.t)
          /\ Goto("command") /\ UNCHANGED stall
     ELSE /\ Release
          /\ Goto("tick") \/ (h.test_bp /\ Goto("bp"))
          /\ UNCHANGED <<tohost, handled>>
  /\ UNCHANGED <<fromhost, magic_mem, fromhost_queue, pending_reads, exitcode, stopped,
                 fds, osfds, term, con, g, issued>>

\* A core that is stalled, with counters that stand still, is resumed.
ResumeBp ==
  /\ h.pc = "bp"
  /\ stall' = IF stall \in {"bp", "stalled"} THEN "off" ELSE stall
  /\ Goto("tick")
  /\ UNCHANGED <<tohost, fromhost, magic_mem, fromhost_queue, pending_reads, exitcode,
                 stopped, fds, osfds, term, con, g, issued, handled>>

\* Mutant: the code is shifted when it is stored, so that success reads as 0.
ExitCodeShifted(cmd) == cmd.lo \div 2

\* htif->exitcode = cmd.payload(): the low bit is kept, success is 1, and a payload
\* that an int cannot hold is cut.
ExitCodeOf(cmd) == IF cmd.lo < HalfSize \div 2 THEN cmd.lo ELSE cmd.lo - HalfSize

\* handle_identify, which every device has, also the one that is not there: a name
\* goes to the address in the payload, here above the guest's memory, and 1 is
\* answered.  The address is asserted to be aligned to 64 bytes.
Identify ==
  /\ h.t.hi = AllOnes
  /\ IF (h.t.lo \div 256) % 64 = 0
     THEN fromhost_queue' = Append(fromhost_queue, Response(h.t, 1)) /\ Goto("resume")
     ELSE Goto("aborted") /\ UNCHANGED fromhost_queue

\* device_list.handle_command: device 0 is the syscall proxy, device 1 the
\* console; a bcd write goes to the terminal, a bcd read waits for a key.
Command ==
  /\ h.pc = "command"
  /\ \/ /\ h.t.hi = 0 /\ h.t.lo % 2 = 1
        /\ exitcode' = ExitCodeOf(h.t) /\ Goto("resume")
        /\ UNCHANGED <<fromhost_queue, pending_reads>>
     \/ /\ h.t.hi = 0 /\ h.t.lo % 2 = 0
        /\ h' = [h EXCEPT !.pc = "dispatch", !.call = magic_mem]
        /\ UNCHANGED <<exitcode, fromhost_queue, pending_reads>>
     \/ /\ h.t.hi = 256
        /\ pending_reads' = Append(pending_reads, h.t)
        /\ Goto("resume") /\ UNCHANGED <<exitcode, fromhost_queue>>
     \/ /\ h.t.hi = 257
        /\ Goto("resume") /\ UNCHANGED <<exitcode, fromhost_queue, pending_reads>>
     \/ Identify /\ UNCHANGED <<exitcode, pending_reads>>
  /\ UNCHANGED <<tohost, fromhost, magic_mem, stopped, fds, osfds, term, con, g, stall,
                 issued, handled>>

\* fds_t::alloc: the first free slot, or one more.
Alloc(fd) ==
  LET free == {i \in 1 .. Len(fds) : fds[i] = -1}
  IN  IF free = {} THEN Append(fds, fd)
      ELSE [fds EXCEPT ![CHOOSE i \in free : \A j \in free : i <= j] = fd]

\* fds_t::lookup of the guest's number.
Lookup(fd) == IF fd >= Len(fds) THEN -1 ELSE fds[fd + 1]

\* sys_openat: the kernel opens with its lowest free number, or fails.
SysOpen ==
  \/ \E fd \in HostFd \ osfds :
       /\ \A x \in HostFd \ osfds : fd <= x
       /\ osfds' = osfds \cup {fd}
       /\ fds' = Alloc(fd)
  \/ UNCHANGED <<osfds, fds>>

\* Mutant: the slot of a closed file is not given back.
SysCloseKeeps(fd) ==
  /\ osfds' = osfds \ {Lookup(fd)}
  /\ UNCHANGED fds

\* sys_close: close(lookup) < 0 returns early.
SysClose(fd) ==
  IF Lookup(fd) \notin osfds THEN UNCHANGED <<osfds, fds>>
  ELSE /\ osfds' = osfds \ {Lookup(fd)}
       /\ fds' = [fds EXCEPT ![fd + 1] = -1]

\* Mutant: an unknown number ends the command without an answer.
BadSyscallSilent == h.call.name = "bad" /\ Goto("resume")

\* An unknown number returns from dispatch at once; the caller still answers.
BadSyscall == h.call.name = "bad" /\ Goto("respond")

\* dispatch: the handler of the call that was read from magic_mem.
Dispatch ==
  /\ h.pc = "dispatch"
  /\ \/ h.call.name = "open" /\ SysOpen /\ Goto("return") /\ UNCHANGED con
     \/ h.call.name = "close" /\ SysClose(h.call.arg) /\ Goto("return") /\ UNCHANGED con
     \/ BadSyscall /\ UNCHANGED <<fds, osfds, con>>
     \/ h.call.name = "write_console" /\ Goto("con_put") /\ UNCHANGED <<fds, osfds, con>>
  /\ UNCHANGED <<tohost, fromhost, magic_mem, fromhost_queue, pending_reads, exitcode,
                 stopped, term, g, stall, issued, handled>>

\* Mutant: the message is written while done of the last one still stands.
ConsolePutEarly == h.pc = "con_put" /\ con' = [con EXCEPT !.msg = h.call.arg] /\ Goto("con_ack")

\* sys_write_console: wait for done to fall, then put the message.
ConsolePut == /\ h.pc = "con_put" /\ ~con.done
              /\ con' = [con EXCEPT !.msg = h.call.arg] /\ Goto("con_ack")

\* Wait for done, then clear the message.
ConsoleAck == /\ h.pc = "con_ack" /\ con.done
              /\ con' = [con EXCEPT !.msg = 0] /\ Goto("return")

WriteConsole ==
  /\ ConsolePut \/ ConsoleAck
  /\ UNCHANGED <<tohost, fromhost, magic_mem, fromhost_queue, pending_reads, exitcode,
                 stopped, fds, osfds, term, g, stall, issued, handled>>

\* dispatch writes magicmem back; handle_syscall answers 1.
Return ==
  /\ h.pc = "return"
  /\ magic_mem' = [h.call EXCEPT !.st = "ret"] /\ Goto("respond")
  /\ UNCHANGED <<tohost, fromhost, fromhost_queue, pending_reads, exitcode, stopped, fds,
                 osfds, term, con, g, stall, issued, handled>>

Respond ==
  /\ h.pc = "respond"
  /\ fromhost_queue' = Append(fromhost_queue, Response(h.t, 1)) /\ Goto("resume")
  /\ UNCHANGED <<tohost, fromhost, magic_mem, pending_reads, exitcode, stopped, fds,
                 osfds, term, con, g, stall, issued, handled>>

\* After a command freeze releases the core; then device_list.tick: one pending
\* read may find a character.
Tick ==
  /\ h.pc \in {"resume", "tick"}
  /\ IF h.pc = "resume" THEN Release ELSE UNCHANGED stall
  /\ Goto("answer")
  /\ IF pending_reads # <<>> /\ term.read < term.typed
     THEN /\ term' = [term EXCEPT !.read = @ + 1]
          /\ fromhost_queue' = Append(fromhost_queue,
                                      Response(Head(pending_reads), 256 + term'.read))
          /\ pending_reads' = Tail(pending_reads)
     ELSE UNCHANGED <<term, fromhost_queue, pending_reads>>
  /\ UNCHANGED <<tohost, fromhost, magic_mem, exitcode, stopped, fds, osfds, con, g,
                 issued, handled>>

\* The front of the queue goes to fromhost once that is 0.  Only the host sets
\* fromhost, and no answer has a zero low half, so the two halves of the test
\* read as one.
Answer ==
  /\ h.pc = "answer"
  /\ IF fromhost_queue # <<>> /\ fromhost = Zero THEN Goto("put") ELSE Goto("loop")
  /\ UNCHANGED <<tohost, fromhost, magic_mem, fromhost_queue, pending_reads, exitcode,
                 stopped, fds, osfds, term, con, g, stall, issued, handled>>

PutAnswer ==
  /\ h.pc = "put"
  /\ fromhost' = Head(fromhost_queue)
  /\ fromhost_queue' = Tail(fromhost_queue)
  /\ Goto("loop")
  /\ UNCHANGED <<tohost, magic_mem, pending_reads, exitcode, stopped, fds, osfds, term,
                 con, g, stall, issued, handled>>

Host == Loop \/ ReadTohost \/ Test \/ ResumeBp \/ Command \/ Dispatch \/ WriteConsole \/ Return
          \/ Respond \/ Tick \/ Answer \/ PutAnswer

Next == Guest \/ CoreStalls \/ Breakpoint \/ Type \/ Console \/ Host

\* The host's loop, the core's answer to a stall and the console process go
\* on by themselves.  With freeze the guest runs only between a resume and the
\* next stall, over and over: strong fairness says that it does get to execute
\* in those windows, which span several round trips of the host.  The random
\* choice of an idle round falls on the breakpoints again and again.  Nobody has
\* to type, and no breakpoint has to be met.
Spec == /\ Init /\ [][Next]_vars
        /\ WF_vars(Host) /\ SF_vars(Test /\ h'.pc = "bp")
        /\ SF_vars(Guest) /\ WF_vars(CoreStalls) /\ WF_vars(Console)

-----------------------------------------------------------------------------
\* The host serves exactly the commands the guest stored, in their order, each
\* once: a tohost read in two halves while the guest stores is never served,
\* and clearing tohost before serving loses nothing.
CommandsInOrder == IsPrefix(handled, issued)

\* A guest that has left the wait of its n-th system call finds the result of
\* that call in magic_mem (an unknown number leaves magic_mem as it was).
AnswerMatches ==
  g.env = "bench" /\ g.pc \in {"run", "spin"} =>
    magic_mem.st = "ret" \/ magic_mem.name = "bad"

\* The proxy's table names each open file of the host once and nothing else.
FdsConsistent ==
  LET open == {i \in 1 .. Len(fds) : fds[i] # -1}
  IN  /\ {fds[i] : i \in open} = osfds
      /\ \A i, j \in open : fds[i] = fds[j] => i = j

\* The console process gets every character once and in order, and has got it
\* when the call that writes it returns.
ConsoleExact == /\ IsPrefix(con.got, g.sent)
                /\ g.pc \in {"run", "spin"} => con.got = g.sent

\* A guest that exits with a small code ends the run with that code.  (A negative
\* code reads as a command to a device that is not there and a large one is cut:
\* the guest of syscalls.c may exit with either, and neither code arrives.)
ExitReported ==
  \A c \in SmallCodes :
    (g.pc = "spin" /\ g.code = c) ~> (stopped /\ exitcode \div 2 = c)

\* A proxied system call returns.
SyscallReturns == (g.env = "bench" /\ g.pc = "wait") ~> (g.pc # "wait")
=============================================================================
