# A TLA+ model of VeMIPS

VeMIPS is an embeddable emulator of a MIPS32 Release 6 processor. A host program
loads an ELF file into a `system`, calls `clock()`, and handles the exceptions
the guest raises. The same guest program can be run by an interpreter or by
JIT1, which writes x86-64 code; a GDB stub lets a debugger stop, inspect and
step the guest.

This directory holds TLA+ modules translated from the source, the TLC
configurations that check them on small instances, and proofs, checked by
TLAPS, that hold for every value of the constants. Paths below are relative to
the root of the repository.

## Inventory

| component | state | operations | what is hard |
| --- | --- | --- | --- |
| `system` (`src/mips/system.cpp`) | options, memory, processor, debugger | constructor, `clock`, `initialize` (ELF segments, stack) | the quantum of `clock` under early returns; `debugger::wait` in the constructor |
| GDB stub (`src/mips/debugger.cpp`) | `m_paused`, `m_threads_to_pause`, `m_should_kill`, `m_step`, breakpoints, pending stops | `wait`, `should_interrupt_execution`, `handle_stop`, `handle_kill`, resume and step | two threads that share atomics, polled handshakes, a client that trusts the replies |
| packet stream of the stub (`debugger.cpp:195-303`, `:401-860`) | buffer, `in_packet`, `remaining_checksum`, `m_ack_mode`, thread selected | one `recv` after the other, one handler per command | TCP cuts the stream anywhere; refused packets come again |
| interpreter loop (`src/mips/processor/processor.cpp`) | `program_counter_`, `branch_target_`, flags, counters | `execute_internal`, `handle_exception` | delay slots, forbidden slots, exceptions in a delay slot, entering and leaving at any instruction |
| instructions (`src/mips/instructions/processor_inst.cpp`) | registers | one handler per instruction | operands that coincide, limits of a word |
| instruction cache (`src/mips/interpreter/cache`) | buckets of lines, round-robin offset, the line held by the loop | `fetch_line`, `contains_static` | a line that is held may be filled again |
| JIT1, chunks (`src/mips/processor/jit/jit1`) | chunks, directory map, recent-chunk caches, patches between chunks | `get_instruction`, `fetch_instruction`, `write_chunk` | lookups keyed by part of an address |
| JIT1, emitted code (the same, `jit1_*.cpp`) | host registers, slots of guest registers | one emitter per instruction, prologue and epilogue | agreement with the interpreter, in order and in values |
| load-link (`processor.hpp`, `processor_inst.cpp`, `jit1_memory.cpp`) | `load_link_` | LL, SC, LLWP, SCWP, every store | which stores break the link |
| guest memory (`processor.hpp`, `system.cpp`, `memory_source.cpp`) | bytes, executable ranges, stack size | fetch, store | bounds at the edge of the address space, the stack below address 0, read-only code |
| coprocessor 1 (`src/mips/coprocessor`, `coprocessor1_inst.cpp`) | 32 registers, `FCSR`, the status of the host's unit | moves, conversions, arithmetic, comparisons | signals, limits, NaNs |
| VeMIX (`src/emulator/system_vemix.cpp`) | program break, exit state, user value | the Linux system calls of the guest, unhandled exceptions | error paths, a break that meets the stack, two ways back to the host |
| side-by-side mode (`src/emulator/main.cpp`) | two systems, who still executes | clock both, compare | one may end before the other |
| allocators and caches (`src/runtime`) | free lists, directory tables, associative caches | allocate, release, get, set | see *Not modelled* |
| loader (`src/elf`) | the segments of a binary | parse | malformed files |
| host MMU, platform (`src/mips/platform`, `host_mmu`) | host page mappings | map, guard | operating-system calls |
| statistics, options | counters, options | parse, report | none |
| `mipsdbg`, `tablegen`, `tools/vevcbridge`, `sdk`, `vemips_sdk`, `build` | none at run time | debugger launcher, instruction tables, tool-chain wrappers, builds | not part of the emulator |

How they interact: `system::clock` calls `processor::execute`, which either
interprets or calls into a JIT chunk. Both read guest memory through the
processor, call instruction handlers and raise `CPU_Exception`, which a derived
`system` (VeMIX) handles. The debugger's server thread shares five flags and
two lists with the emulator thread; everything else is single threaded.

What makes each component correct:

* stub: a pause takes hold promptly, a stop is reported once and truthfully, a
  resume is not lost, a step is one instruction, no instruction runs under a
  breakpoint, both threads always make progress;
* packet stream: every command is carried out once and in order however the
  stream is cut, and what a client waits for answers what it asked;
* instruction cache: what is executed at an address is what memory holds there;
* interpreter loop: the program counter, the branch target and the flags
  describe a state from which execution may be left and entered again; an
  exception in a delay slot resumes where the architecture says; ticks count
  instructions;
* JIT1: every lookup finds the code of the address asked for, and emitted code
  does what the interpreter does, in the same order and with the same values;
* load-link: a store conditional succeeds only if nothing was stored to the
  linked word since the load;
* memory: an access stays inside the guest's memory, a null pointer faults, and
  stores leave executable ranges alone;
* coprocessor 1: conversions, comparisons and choices give what the architecture
  has, and what raises writes no register;
* VeMIX: the break stays below the stack and what the program is told of it is
  so; output is what was asked for, up to the first fault; a program that ends
  is reported as it ended.

## Plan

In the order of importance for the program. Every step is done; what was
dropped and why is at the end.

1. `Debugger` with the abstract `StopResume`: the only two threads.
2. `LoadLink` with the abstract `Reservation`.
3. `Guest`, `Architecture`, `Interpreter`, `GeneratedCode`: the order in which
   the two engines run instructions.
4. `JitLookup`: recent-chunk cache, directory map, patches between chunks.
5. `Words`, `InstructionSet` and, for either engine, the values of the integer
   instructions; `GuestMemory` and, for either engine, loads and stores;
   `SideBySide` composes the engines and compares them.
6. `FloatingPoint` and, for either engine, coprocessor 1; `Coprocessor` composes
   them.
7. `PacketStream`: framing, acknowledgements and commands of the stub.
8. `Vemix`: system calls under both engines, in the rounds of the side-by-side
   mode.
9. `InstructionCache`, and its composition with `Interpreter`.
10. Proofs about `Debugger`, `LoadLink`, `Interpreter`, `InstructionCache`,
    `GeneratedCode`, `JitLookup`, `PacketStream`, `Vemix`, `SideBySide`.

Dropped: modules of the allocators, which once the callers were read turned out
to have no state that can go wrong, of the count of `clock()`, a sequential
loop, and of the loader. See *Not modelled*.

## Modules

| module | models | kind |
| --- | --- | --- |
| `StopResume` | what a debugger promises of a guest | abstract |
| `Debugger` | emulator thread and server thread of the GDB stub, and a client | detailed |
| `DebuggerProofs` | theorems about `Debugger` | proofs |
| `PacketStream` | the server thread from bytes to answers, and a client | detailed |
| `PacketStreamProofs` | theorems about `PacketStream` | proofs |
| `Reservation` | what load-link and store-conditional promise | abstract |
| `LoadLink` | LL, SC, LLWP, SCWP, every path of a store | detailed |
| `LoadLinkProofs` | theorems about `LoadLink` | proofs |
| `Guest` | instructions as far as control flow goes | shared |
| `Architecture` | the order of instructions in MIPS32 Release 6 | abstract |
| `Interpreter` | `processor::execute_internal` without a JIT | detailed |
| `CacheGeometry` | how the cache takes addresses apart | shared |
| `InstructionCache` | `hash_cache` and the line that the interpreter holds | detailed |
| `CachedInterpreter` | `Interpreter` and `InstructionCache` | composition |
| `InterpreterProofs` | theorems about `Interpreter`, `InstructionCache` and `CachedInterpreter` | proofs |
| `GeneratedCode` | the same loop with JIT1, and the emitted code | detailed |
| `ExceptionHistory` | `GeneratedCode` with a history of where an exception should resume | detailed |
| `GeneratedCodeProofs` | theorems about `GeneratedCode` | proofs |
| `JitLookup` | directory of chunks, ring of recent chunks, patched jumps | detailed |
| `JitLookupProofs` | theorems about `JitLookup` | proofs |
| `Words`, `InstructionSet` | machine words; fields of an instruction and the ways it ends | shared |
| `InterpretedInstructions`, `InterpretedMemory` | the handlers of the integer set, of loads and stores | functions |
| `Slots`, `EmittedInstructions`, `EmittedMemory` | where emitted code keeps registers, and what it does for the same instructions | functions |
| `GuestMemory`, `AccessDifferences` | places, bounds and read-only blocks; where the engines differ about them | functions |
| `SideBySide` | both engines on one instruction, and their comparison | composition |
| `SideBySideProofs` | theorems about `SideBySide` and `Coprocessor` | proofs |
| `FloatingPoint`, `InterpretedCoprocessor`, `EmittedCoprocessor` | numbers, handlers and emitted code of coprocessor 1 | functions |
| `Coprocessor` | both engines on one instruction of coprocessor 1 | composition |
| `Vemix` | system calls and exits of two systems in the side-by-side mode | detailed |
| `VemixProofs` | theorems about `Vemix` | proofs |
| `MC*` | constants for TLC | instances |

### Debugger

`emu` says where the emulator thread is: in `debugger::wait` (`enter`,
`report`, `spin`), back from it (`resumed`), at the head of the loop of
`system::clock` (`clock`), in the code JIT1 emits before an instruction (`poll`,
`match`), at the instruction (`exec`), behind it in `execute_internal` (`ret`,
or `drop` when generated code returned early). `srv` says the same of the
server thread. Every access to `m_paused`, `m_threads_to_pause` and
`m_should_kill` that the other thread can see is an action of its own; what is
done under `m_breakpoint_lock` is one action. `m_threads_to_pause` counts
modulo `Modulus`, 2^32 in the code.

The client is the environment. It believes the guest `running`, `halted` or
`stopping`, resumes only a halted guest and sends Ctrl-C only to a running one;
`Careful` says whether it lifts breakpoints before it steps, as GDB does. It may
disconnect, and a second one finds the flags as the first left them.

`KeepsPromise` states that the stub implements `StopResume`: halted is
`m_paused`, and a step may run as many instructions as `left` allows.

### LoadLink

Memory is a set of byte addresses, from `-Stack` to `Top` without 0; values are
left out, since LL and SC only compare addresses. `Mode` is the option
`llsc_type`. `Paths` names the code that may execute a store: the interpreter's
`handle_llsc`, or the two sequences JIT1 emits for an address known at
translation and for one in a register. `Addend` is what emitted code has added to
an address when it compares it with the link: the size of the stack without an
MMU, nothing with the host's. A misaligned address is kept as it is, since
`misaligned_address_handling_` is constant and says so (`processor.hpp:363`).
`Linkable` and `Storable` are what the guest does: the words it links and the
pairs of address and size it stores to.

`disturbed` records what a correct link would have to know. The code has three
gaps through which a store to the linked bytes may pass unseen, and `Missable`
names them: emitted code compares the moved address; a linked upper word is equal
to no address of a line; a misaligned store begins in the line before. What comes
through a gap is "missed", anything else that touches the linked bytes is
"bytes". `ConditionalIsAtomic` says that there are no other gaps, for any guest;
`NothingMissed` that nothing is missed at all, which TLC refutes and which is
proved for the configurations `Safe` describes. `KeepsReservation` has the same
exception: every step is one of `Reservation`, but a store that passes through a
gap (`Unseen`).

### Interpreter and GeneratedCode

`Guest` reduces an instruction to what both engines ask of it: its `OpFlags`,
and whether emitted code raises its exceptions itself (`emitted`) or calls the
interpreter's handler (`called`). A branch may always go either way and to any
address. `Architecture` orders such instructions: delay slots, forbidden slots,
and what follows an exception whose handler returns.

In `Interpreter` an action is one iteration of the loop with its destructors,
since nothing can be observed in between. `flags` holds `branch_delay` and
`no_cti`; `left` is `target_instructions_ - instruction_count_`. `Raise(TRUE)`
is an exception `handle_exception` deals with, `Raise(FALSE)` one it throws on
to the host, which may call `clock()` again.

In `GeneratedCode` the state is in two places. `entry` and `value` are the local
program counter and the `scoped_flag` of `execute_internal`; `at`, `ebx`, `esi`
and `rdi` are what the emitted code knows: the label it is at, flags, branch
target, count. `Enter` and `Tick` move the state from one to the other,
`Retire`, `Jump` and `Raise` are the code of an instruction. What the code asks
of its predecessor (`AfterSetsNoCTI`, `AfterDelayBranch`) is fixed when it is
written, what it asks of `ebx` when it runs; several properties are about the
difference. `quantum` and `ran` are history. `ExceptionHistory` adds a variable
`resume` to it, where the program should go on after the exception it raised
last, and nothing else.

The refinement mapping to `Architecture` reads the program counter and the
slot from whichever place holds them.

### InstructionCache

An address is a number of an instruction: 64 of them are a line, which is in
`lines[b]` of its bucket `b`, at one of two places. `Enter` and `Execute` are the
two calls of `get_cache_line()`. `held` is the pointer `cache_line`, `held_base`
the copy of its base that the loop tests in place of the line; a fetch may fill
the line that is held, with `write_offset` to say which is next. `served` is
history: the address executed last and the entry that was taken for it.
`CachedInterpreter` runs the cache beside `Interpreter`: entering `execute()`
fetches a line, and every iteration executes an entry, also one that raises.
`Interpreter` alone takes its instruction from memory, which `ServesMemory`
justifies; the line goes with the call, since `Enter` fetches anew.

### JitLookup

An address is a page of `ChunkSize` bytes and a byte in it. The directory is
asked for the address of an instruction, not for its page, so a page has as many
chunks as addresses it was entered at while the ring of recent chunks had
forgotten it; the model names a chunk by its directory entry. `base` is the page
the chunk was emitted for, `recent` and `oldest` are `last_cached` and its index
(taken modulo the size, as the code does at every use), `links` holds what jumps
have been patched with. `Emit` is one round of the loop of `write_chunk()`: it
asks `fetch_instruction` for the target of a jump out of the page, which may
itself turn the ring. `patching` is the jump whose call of `get_instruction` has
led to the emission. The jump at the end of a chunk is written for
`last_address + 4`, the fourth byte of the next page, which makes the directory
keep a chunk for that address of its own. `want` is history: the address asked
for last. What a chunk computes is left to `GeneratedCode`, which needs to know
no more than that jumps arrive where they should: `RunsRight`.

### PacketStream

The stream is a sequence of bytes (`wire`); `Recv` takes any prefix of it up to
`ChunkSize` into `chunk`, as TCP may, and the server then looks at one byte per
action as `reader_func` does, with the first byte of a `recv()` treated apart.
`buffer`, `inPacket` and `remaining` are `packet_buffer`, `in_packet` and
`remaining_checksum`. A whole packet is tested, refused or handed to
`handle_packet`, whose commands (`Queried`, `Controlled`, `Read`, ...) change
`session` and give an answer that is sent in two steps, "+" and packet, because
the emulator thread may send a stop report between them (`Report`). Characters
are bytes and checksums are computed, since framing is about nothing else;
bodies are shortened. The client is the environment: it sends one packet at a
time, sends a refused one again up to `MaxResends` times and then gives up, and
acknowledges what it reads unless it asked not to. `issued`, `handled` and
`answered` are history. What a resume does to the guest is in `Debugger`.

### SideBySide

`InterpretedInstructions` and `EmittedInstructions` have one operator per
instruction, from the same record of operands and a register file to registers
and the way it ends: next, no control instruction behind it, a delay or compact
branch, an exception, the end of the emulator. On the side of JIT1 the file is
the machine of `Slots`: memory slots and one host register for $30, which
emitters may overwrite before they read it, and which is not in its slot when a
handler is called. Emitters that choose between forms by comparing operands have
the same IFs; scratch registers are left out. `InterpretedMemory` and
`EmittedMemory` do the same for loads and stores on a `GuestMemory`, whose place
0 is the lowest address of the stack, below guest address 0.

`SideBySide` starts from every pair of states that agree, runs one instruction
in both and compares. If they agree again the next instruction starts from such
a pair: one step stands for any program, except behind a difference. Which
differences there are is written out, each with a name (`Differs`,
`AccessDiffers` and `AccessDifferences`): `EnginesAgree` says that there are no
others. `Compared` is what the program itself compares.

### Coprocessor

`FloatingPoint` gives a number by its bits, in a single of one word and a double
of two, with the limits, order, rounding to integers and NaNs of the formats.
What the host computes in an addition or a square root is any number with any
signals, chosen by `Outcome`, the same for both engines; what the source itself
computes (conversions, comparisons, minimum and maximum, sign, class, the
control registers) is modelled exactly. `h.status` is what `_statusfp()`
returns: the handlers read it, most do not clear it. `h.traps` tells builds with
and without `FPU_EXCEPTION_SUPPORT` apart. A unit has registers of two words,
`FCSR` in its fields, `raw` for reserved bits moved into it, and `clocks` for
`needs_clock_`. MAXA and MINA may end in the `xassert` of the source
(`Asserts`): the instruction then ends there, as it does in a debug build, and
writes nothing. In a release build the assertion is an assumption of the
compiler (`common.hpp:310`) and what follows is undefined. `Coprocessor` extends
`SideBySide` by `fpu`, the units of both engines, and runs one instruction of
the unit (`UnitSpec`) from machines that agree; `UnitsAgree` lists the four
cases in which they do not agree behind it. `entered` says whether JIT1 enters a
chunk, the only place where it clocks the coprocessor.

### Vemix

Two systems run one program in the rounds of `main_sxs_impl`: `Program` sets the
registers of a call, `Interpret` and `Emitted` run it, `LeaveChunk` is the return
of generated code to `execute_instruction()`, `Compare` ends the round. What a
call does is one function of the system (`Handle`); what differs is how it comes
back. The interpreter throws out of the handler. Generated code notes a trapped
exception, leaves, and looks at the state of the system first and at the
exception second. Addresses and sizes are words of 8 bits, and `brk`, `sbrk` and
`writev` compute with them as the code does, rounding and wrapping included.
`Written` is the loop of `writev` over the records, `WriteVector` one turn of it
with its two loops over eight bytes and over one. `Known` and `Asked` do not come
from the code: they say, without any cutting, which bytes the records name, and
`WritesThePrefix` compares the two. The side-by-side mode makes the system with
JIT1 silent (`main.cpp:114`): it fetches the bytes and drops them. `silent_` is
left out of the model, so `WritesThePrefix` speaks of systems that are not silent.

## Runs

| run | instance | shows |
| --- | --- | --- |
| `DebuggerSession` | three instructions, two breakpoints at one address | in a session without Ctrl-C: stops are reported, truthfully and once; a step is one instruction; `StopResume` is implemented; every resume completes |
| `DebuggerInterrupts` | two instructions, one Ctrl-C, kill, one reconnect | pauses take hold within one instruction; the guest never stops without the client knowing |
| `PacketStream` | three commands, two resends, one Ctrl-C, one stop | every command is carried out once and in order and answered; framing recovers; a client is never left without a word |
| `LoadLinkFine` | a line of stack, three lines of 8 bytes and one past memory, all three paths with the stack added to moved addresses, any word linked, stores of every width at every address | SC succeeds only after a load that did not fault, and only if no store to a linked byte was made but through the three gaps; it does not fail without a store near them; all but a store through a gap is a step of `Reservation` |
| `Interpreter` | a ring of six instructions of which four are of any kind, quanta of 1 and 2, a cache of two lines for three | the slot invariant, whole exits, `Architecture` implemented, and what is executed is what memory holds |
| `GeneratedCode` | all legal programs of four instructions: those that raise nothing with quanta of 1 to 3, those that raise with quantum 1, as a debugger steps them | exact counts, `Architecture` implemented wherever a quantum ends |
| `JitLookup` | three pages of two instructions, a ring of two, three entries | code that runs and patched jumps belong to the address asked for |
| `SideBySide` | every integer instruction, load and store, all choices of $0, $2, $3, $30, six memories, one with two blocks of code that begin and end between words | the engines agree but for the named cases; what raises changes nothing; null faults; read-only code changes by a store that reaches past an end of its block only |
| `Coprocessor` | every instruction of coprocessor 1, 32 numbers of two files, three units, five states of the host, both kinds of build, three memories | the engines agree but for four cases; what raises writes no register; for every number and NaN, roundings, conversions and comparisons write, flag and raise what they should and nothing else, but for the named cases |
| `Vemix` | every system call and exception, two stacks, four `iovec` records | the engines agree on what the program sees; its end, its break and its output are as reported |

and two runs that find a behaviour the documentation excludes, quoted in
`PROJECT.json` under `findings`:

| run | property | what happens |
| --- | --- | --- |
| `DebuggerStopRace` | `StopCompletes` | a Ctrl-C that arrives while the emulator still sleeps in `wait` is never counted, and the server spins for ever |
| `GeneratedCodeException` | `ExceptionIsWhole` | the second instruction of a quantum raises, and execution resumes where generated code was entered (`processor.cpp:661`) |

Seven more properties say what the source says of itself, in a help text, a comment
or an assertion, and does not keep to. They are stated in the modules but not
among the properties of a run, which they would stop: added as an `INVARIANT` to
the configuration named here, TLC finds a behaviour that violates them.

| property | configuration | what happens |
| --- | --- | --- |
| `NothingMissed` | `LoadLinkFine.cfg` | LL, a store to a linked byte through any of the three gaps, and an SC that succeeds |
| `MismatchIsFound` | `SideBySide.cfg` | `processor::compare` gives `memcmp` the number of registers for that of their bytes (`processor.cpp:939`): SUBU $30, $2, $30 leaves a mismatch in $30 that it does not see |
| `ReadOnlyExecutable` | `SideBySide.cfg` | with `--rox`, a store over an end of a block of code changes it: only a store wholly inside one block is refused (`system.cpp:181`) |
| `AssertionsHold` | `Coprocessor.cfg` | MAXA of an infinity and a NaN fails the assertion that its result is finite (`coprocessor1_inst.cpp:561`) |
| `RefusesWhatIsOutside` | `Coprocessor.cfg` | a build without traps takes a number above the highest integer for one in range (`coprocessor1_inst.cpp:1139`) |
| `ConvertsByMode` | `Coprocessor.cfg` | CVT truncates in every rounding mode (`coprocessor1_inst.cpp:169`) |
| `MovesExactly` | `Coprocessor.cfg` | MOV writes a default number for a signal that an earlier instruction left (`coprocessor1_support.hpp:735`) |

### Bounds

* Debugger: two or three instructions are enough for a breakpoint on the
  instruction the guest stands on, on the next one and on neither.
  `Modulus = 4` (3 with interrupts) lets the counter
  wrap; the code only asks whether it is 0. `MaxInterrupts` (1),
  `MaxReconnects` (1) and `MaxDuplicates` (2) bound what the client sends;
  `late` and `ran` are capped at 2, since the properties distinguish 0, 1 and
  more.
* PacketStream: `ChunkSize = 7` (512 in the code) cuts every packet at every
  place and joins two; `MaxBufferSize = 5` (8192) is passed by the longest
  packet and not by the others. Three commands let one be carried out while the
  next waits and a damaged one lie between two good ones; two resends meet a
  client that is refused, refused again, and gives up.
* LoadLink: addresses -8 to 31, memory from -8 to 23 with a stack of 8 bytes, so
  that stores of every width fall into the linked line, across its ends, next to
  it, where the stack moves them to, and past the end of memory; address 0 always
  faults.
* Interpreter, GeneratedCode: four instructions hold a branch, its slot, its
  target and the instruction behind; in a ring a program meets every way into an
  instruction. Quanta of up to three instructions end before a branch, in its
  slot and behind it. *Legal* programs put no control instruction into a slot,
  as compilers do; the interpreter is checked on all kinds in its first four
  places. `ran` is capped at one more than the quantum. Three lines of two
  instructions in one bucket of two places make the cache of the interpreter
  fill the line it holds and the one it does not (64 instructions, 16 buckets).
* JitLookup: three pages and a ring of two make the ring forget; the guest of
  `MCJitLookup` jumps between pages, inside a page and backwards, and the three
  entries meet a page at its start, in its middle and where a jump already leads.
  `Window` is the number of pages the directory tells apart, 2^16 of 2^24.
  Registers and hosts hold addresses of instructions, multiples of four.
* SideBySide: words of 4 bits have every boundary of larger ones: sign, carry,
  overflow, a shift by all but one. The files hold every value in $2 with small
  amounts and the limits of signed and unsigned words in $3, and with the limits
  in $30; $31 is not what a link makes of it. Eight bytes of memory are half of
  the address space, with no stack, one that is a multiple of four and one that
  is not; read-only code is a block in the upper half, or two that meet and
  begin and end between words, as the program headers of a binary may have them.
  Addresses in the code are wider than memory in the same way.
* Coprocessor: words of 8 bits; a single has 4 bits of exponent and a double 5,
  so that, as in the code, a number reaches beyond the integers of its width
  and is less precise than they are. The registers hold zeros, subnormals,
  halves, numbers at and around the limits of the integers (the doubles 127.5,
  128 and -32768 among them), infinities, the two NaNs that the source knows and
  others, of either sign. The status of the host that conversions and copies find
  is empty, has one of three signals, or two.
* Vemix: words of 8 bits, data up to 100, a break that starts at 40, addresses
  32 to 107 readable. The four records of `writev` are readable, fault in a chunk
  of eight bytes, fault in the last byte, and are empty; the requests reach the
  end of the address space, the stack and the base of the break. Increments
  within 3 of the limits of a signed word are left out: rounding them overflows,
  which C leaves undefined.

### Fairness and deadlock

Both threads of the debugger are OS threads that are always scheduled again,
hence weak fairness of `Emulator` and `Server`. The client is fair only in
reading what it is sent; it need not ever send anything. The server waits for
the emulator by polling, so a step of the one never disables the other for good
except where a property says so. `PacketStream` assumes the same of the server
thread (whose `recv()` returns when there are bytes), of the client's reading
(`Receive`) and of its noticing that the connection ended (`SeesClosed`); it
assumes no fairness of stop reports, of Ctrl-C or of new commands.

`CHECK_DEADLOCK FALSE` is set for the debugger because the guest may end or be
killed, for `PacketStream` because connections close and commands run out, and
for `SideBySide` and `Coprocessor` because one instruction is all there is. The
other specifications are safety only, and TLC checks that they never stop.

## Proofs

All theorems are for every value of the constants allowed by the named
assumptions (`CodeAssumption`, `LoadLinkAssumption`, `GuestAssumption`, ...),
which say that constants have the types the code gives them. `BodyAssumption` of
`PacketStream` says that a body is a sequence of bytes. TLC evaluates each of them
for the constants of its run.

* `DebuggerProofs!TypeCorrect`, `PauseIsPrompt`, `StopsAreTold`. `PauseLatency`
  is not inductive: the instruction that may still run must be accounted to the
  places behind the check. `LateInv` adds that none has run since at `resumed`,
  `match` and `exec`. `NoSilentStop` follows from `NewsInv`: a client that
  waits while `m_paused` is set has a packet on the wire, a reply coming, or a
  stop in `pending` on the way to `report`, and one that has sent a breakpoint or
  a kill does not wait. Unlike the session theorems it holds under Ctrl-C, kill
  and lost connections.
* `DebuggerProofs!SessionHolds`, `ReportsAreTrue`, `StepsAreSingle`, `HaltsHold`,
  `StubKeepsPromise`. The invariant `SessionInv` has three parts: `Quiet` (what
  is on the wire and when), `Phase` (client decides, guest runs, stop on its
  way, stop reported) and `StepPhase` (where the step counter stands while a
  step is under way). The next three follow from it, and under it every action
  is a step of `StopResume` or a stutter. They are about sessions: no Ctrl-C, no
  kill, no reconnect, and a client that lifts breakpoints before it steps.
* `PacketStreamProofs!BufferIsBounded`, `FramingHolds`. Each recv() adds at most
  a chunk, but the limit is tested before it: `SpaceInv` bounds the buffer
  together with the bytes still to be looked at. `FrameInv` says that outside of
  a packet and its checksum the buffer holds no "$": what arrives there is
  appended too, and only the clear after every packet, good or bad, makes it so.
* `PacketStreamProofs!CommandsAreCarriedOutOnce`, `AnswersAlwaysFit`: the two
  properties of the conversation, for every size of the buffers, every way TCP
  cuts the stream, any number of commands, resends, Ctrl-C and stops, and every
  set of commands whose bodies are plain (`PlainBodies`). `TurnInv` says whose turn
  it is: `Rest` (nothing is owed), `Sent` (a packet is on its way or being taken
  in), `Refusal` (it was refused and the client does not know yet), `Taken` (it was
  carried out, and "+" or the answer is to be sent), `Told` (the answer is on its
  way) and `Over` (the client gave up, or waits for good). Each action leads from
  a phase to the same or the next. What makes a phase inductive is what it says
  of the bytes: at most `Limit` = 7 bytes of noise (acknowledgements of stops and
  answers, one Ctrl-C) are in front of a packet, because a client that waits does
  not send any unasked. While a packet comes in, the buffer is either a copy of
  what was sent (`Clean`) or its bytes add up to what `Damage` allows (`Dirty`):
  noise in front that the loop took for the begin of the packet, and signs
  missing that began a `recv()`. That the checksum of such a packet is never right
  is `DamageShows`; that it stays damaged, byte by byte, `DamageStays`. The
  bound on signs in `PlainBodies` is what `DamageShows` needs: the checksum adds up
  modulo 256, and with 3 "+" and 15 "-" dropped behind noise of one byte a wrong
  packet would be taken for right. A plain body has no "#" (GDB escapes it), at
  most 20 "+" and 12 "-", and is that of one command only. GDB's `qSupported`
  has the most, about a dozen "+" and half as many "-";
  `BodiesArePlain` has TLC check the bodies of the run.
* `LoadLinkProofs!TypeCorrect` for every configuration; `LinkNamesFreshBytes`,
  `ConditionalAtomic` and `LinkKeepsReservation` for every one that has links,
  whatever the guest links and stores, aligned or not, with a stack or without:
  only what comes through one of the three gaps is not seen. `SafeMissesNothing`
  and `SafeIsReservation` are for the configurations in which there are no gaps,
  described by `Safe`: coarse links; or fine ones under code that compares
  addresses unmoved, and a guest that links double words and stores aligned.
  `SuccessFollowsALoad` is for fine links, with `LoadedInv`: while there is a
  link, `loaded` tells whether the bytes it was taken for are memory;
  `LinkSurvives` for fine links, with `KeptInv`: as long as nothing near them was
  stored, the link is the first of the linked bytes. The lemma `Overlap` is the
  reason rounding works: an aligned access that reaches into a double word starts
  in its line.
* `InterpreterProofs!TypeCorrect`, `SlotHolds`, `Implements`, `ExitsWhole`.
  `SlotInv` with the type invariant is inductive: a taken branch sets `no_cti`
  and a known target together, and a second branch is refused while `no_cti` is
  set, so `branch_target_` is not overwritten. `Implements` and `ExitsWhole`
  assume that no host re-enters after a reserved instruction it threw out; with
  `ReentersRI = TRUE` TLC refutes both.
* `InterpreterProofs!CacheServesMemory`, `LinesAreDistinct`, about the cache alone
  (`Cache!Spec`). Every line holds what memory has from its base on
  (`LinesRight`), and the line that is held has the base the loop remembers
  (`HeldRight`): a fill may hit the line that is held, but then it is held for its
  new base. That a base is in its bucket once (`NoBaseTwice`) makes the order of
  the search irrelevant. `CacheIsTransparent`: the composition implements
  `Interpreter` and `InstructionCache`, so that all that is proved of them holds
  of the interpreter with its cache, `ExecutesMemory` among it.
* `GeneratedCodeProofs!LegalConforms`, `LegalCounts`, `TypeCorrect`: every
  property of the run, for programs that put no control instruction into a slot
  (`Legal`) and of which those that may raise run one instruction at a time
  (`Stepped`), as in the run. `Settled` says that whoever set the flag of a slot
  is right before the instruction that will ask for it, so that the question
  asked when the code was written and the one asked when it runs agree.
  `CountInv` says for programs that may raise that a chunk with its instruction
  still to run is where it was entered, with the flags it was entered with: what
  the catch of `execute_internal` restores is then what the instruction found.
  For programs that raise nothing it is the balance of the count. That a
  forbidden slot is remembered past an exception is allowed by the invariant and
  harmless: nothing asks for it in a legal program. Both assumptions are needed:
  see *Disagreements*. Of an exception behind other instructions of a quantum
  nothing is proved: there the code does not keep the order (run
  `GeneratedCodeException`).
* `JitLookupProofs!TypeCorrect`, `CodeRunsRight`, `JumpsLeadRight`,
  `RingIsRight`. The invariant adds to the two properties of the run that the
  ring names a page once (`RecentRight`), that a chunk sits in the directory
  entry of its page (`BaseRight`), that an emission under way is for the address
  wanted (`AtRight`) and that a jump that waits for it wants that address
  (`PatchRight`). They assume `NoAlias`: the address space is no
  larger than what the directory tells apart.
* `VemixProofs!TypeCorrect`, `SystemsAgree`, `EndsAreTold`, `BreakMoves`,
  `WritesPrefix`: every property of the run, for every width of at least 8 bits
  (an error number must fit a register), every memory and every set of requests.
  `EnginesAgree` speaks of the ends of rounds only. `RoundInv` says what holds
  inside: both systems enter a round alike, what the interpreter has done is
  the call applied to the system it found, and what generated code notes before
  it leaves its chunk says how the interpreter came back. That one call changes
  both systems alike and ends in ways that correspond is the lemma
  `HandledAlike`. `BreakMoves` needs of the arithmetic that rounding never takes a
  break below what was asked unless it wraps, and that an increment keeps its
  sign. For `WritesPrefix`, `WriteInv` says that what a system has written is
  `Written` of the request; `WrittenIsCut` shows, record by record, that this is
  a prefix of the bytes named that stops exactly before the first one that
  cannot be read (`IsCut`), because an end inside eight bytes is met again by the
  loop over single bytes. The induction over the records is `SetInduction`, from
  the well-foundedness of `<`, over the set of numbers for which a claim holds;
  `FiniteRecursion` gives the loop, a recursive function, its values.

* `SideBySideProofs!EnginesAlwaysAgree`, `NullAlwaysFaults`, `ExceptionsUndo`,
  `ExecutableAlwaysStands`: every property of the run, for words of 4, 8, 16 and
  32 bits, any set of registers, operands and contents, any configuration of
  memory that `system::options::validate` and `system::initialize` accept. Nothing
  is executed twice, so the invariant is small: while nothing is executed the two
  machines agree (`Ready`). The work is in the step. `Agreed(m, r)` relates the
  machine of emitted code to the register file of the interpreter, `Alike` the
  two ends of an instruction, and there is a lemma for each group of
  instructions that says under which of the named differences they are not
  alike; `InstructionsAlike` and `AccessesAlike` put them together. What the
  emitters leave out for $0, or for the same register twice, rests on laws of
  words: that a word is told by its bits (`BitsTell`, an induction over their
  number), that one wrap takes back an overflow (`SumsAre`), what shifts and
  divisions leave of zero. For exceptions the differing cases have to be gone
  through as well (`DifferingInstructions`). For memory, `LoadPointerIs` and
  `StorePointerIs` show that each of the emitted tests of an address finds what
  the interpreter finds (`Reached`). Blocks of code begin and end anywhere.
  Two theorems have a hypothesis, `SmallMemory`: guest memory ends below the sign
  bit of an address, for `EnginesAlwaysAgree` and `NullAlwaysFaults`. The code sets
  no limit on `total_memory`, but 2 GB and more are memory that a negative offset
  from $0 leads to, which emitted code adds up at another width. The memories of
  the run are of this kind.

* `SideBySideProofs!UnitsAlwaysAgree`, `UnitExceptionsUndo`: the two comparisons of
  the run `Coprocessor`, for words and formats of any width, any registers and
  units, any status of the host and any result of its arithmetic. `UnitReady` is
  `Ready` for the machines with their units. A unit that JIT1 has not clocked yet
  differs from that of the interpreter in the reserved bits of `FCSR` until its
  next clock: such units are `Twins`, and the proof is that everything keeps them
  so. The lemmas go up from the writes of a register, over the signals
  (`SignalsTwin`) and the six ways in which handlers end (`ComputedTwin`,
  `CopiedTwin`, `ChosenTwin`, `ConvertTwin`, `RoundTwin`, `CompareTwin`), to one
  for all handlers (`HandledAlike`); `TwinEnds` carries along that what raises has
  not written a register. Emitted code is compared with the handler where there
  is any: SEL (`SelectsTwin`), the moves and branches (`EmittedMovesAlike`) and the
  stores, which are those of the processor (`UnitStoresAlike`). What a handler
  called on the slots sees of $30 is `ControlRead`, `ControlWritten` and
  `UnitLoadsAlike`: they agree wherever $30 is not named, which is why
  `StaleFrame` has no other case. `UnitsAlwaysAgree` has the hypothesis
  `SmallMemory`, because of the stores. The theorems about `SideBySide` above use
  none of the assumptions about units and formats.

* `SideBySideProofs!ResultsAlwaysRight`: what the interpreter writes, flags and
  raises for a rounding, a conversion or a comparison, and writes for a choice,
  is what the architecture has but for the cases that `ResultsRight` names, for
  formats of any widths, every number, infinity and NaN, every condition, any
  state of the unit, any status of the host and both kinds of build. Comparisons
  are a table: a relation of two operands is one of four (`RelationsAre`), a
  predicate names some of them, and the bits of the condition test the same
  (`HoldsAsTheTable`); choices are a largest or a smallest number
  (`ChoicesAreExtreme`). Roundings take more. Twice a number rounded down and
  up, D and U, is all that a rounding looks at (`TwicesAre`): the integer of
  each of the four ways is between them (`IntegersAre`), a number whose integer
  does not fit lies beyond the limit on its side, and only such a number does
  (`OutsideHalves`, `OutsideIs`), and a large number of a short format is an
  even number of halves (`LargeAreEven`). A build without
  `FPU_EXCEPTION_SUPPORT` compares with limits that it computes in the format of
  the number, where they may come out one or two halves off. `SpacingIs`,
  `MultiplesAre` and `NearestAbove` tell how far apart the numbers are next to a
  power of two and what the integers there become, and `LimitsAre` what the
  bounds then are. The test refuses exactly what lies outside (`RangeTested`)
  but for the two numbers that `HighestTaken` and `LowestRefused` name: in a
  format without a number between the highest integer and the next, and between
  the lowest and what is beyond it. What is then written, flagged and raised is
  `AnswersMade`; `RoundedAsAsked` and `ConvertedAsAsked` put the two together,
  the latter for a handler that looks at the status of the host in place of a
  limit. The theorem has the hypothesis `PowersOfTwo`, that powers of two are
  positive and multiply by adding exponents: true of the standard modules, but
  the provers know no law of exponentiation and only compute powers of up to
  some 60 bits, and a double has 64.

The type invariants of `LoadLink`, `Interpreter`, `GeneratedCode` and `JitLookup`
are proved and therefore not in any run.

Only model-checked:

* liveness (`PauseTakesHold`, `StopIsReported`, `ResumeTakesHold`,
  `NeverSilent`), which TLAPS does not prove.

The arithmetic of the host is an input of the model, and nothing is said of it.

No module uses RECURSIVE operators. Loops are recursive functions (`Written` and
`Asked` of `Vemix`, `Sum` of `PacketStream`). The induction rules of the library
take operators as parameters, which the provers cannot instantiate; where a
proof needs induction over numbers it is made, as `SetInduction`, over the
members of a set: in `VemixProofs` over the records of a request, in
`SideBySideProofs` over the bits of a word (`BitsTell`), in `PacketStreamProofs`
over the bytes of a packet (`SumsAre`, `SumsOfPrefix`).

## Disagreements

Behaviours met while modelling that a reader of the code should know of. Those
marked with a constant or a configuration can be reproduced by that change;
the others are visible in the definition named, or can be read in the code.

### Stopping and stepping

* `execute_internal` drops to its caller for `should_pause()` only, although the
  comment (`processor.cpp:684`) speaks of an interrupt: generated code returns
  for the kill flag too and is entered again.
* A step that ends on a breakpoint leaves its counter set (`debugger.cpp:914`),
  and the next continue stops after one instruction: `Careful = FALSE` in
  `DebuggerSession.cfg` breaks `StepIsOneInstruction`.
* The reply "S 11" to a Ctrl-C may leave while guest code runs, when a `wait` of
  an earlier stop takes down the count of `handle_stop` between its two stores
  (`StopDone` with `emu` outside `Waiting`).
* The command "s" never steps, it continues (`Controlled`); a client that
  reconnects is told "S 36" although the guest may run; `~debugger()` joins a
  thread whose loop has no exit (`debugger.cpp:309`).

### Packets

* A recv() that begins with the digits of a checksum, or with a second "+" of
  two, is taken for "junk" (the comment at `debugger.cpp:236`) and closes the
  connection of a client that did nothing wrong.
* In no-acknowledgement mode a "+" or "-" at the start of a recv() is dropped also
  inside a packet, and the packet is refused. A Ctrl-C behind a packet in one
  recv() is lost.
* `p` with a number above 64 sends an uninitialised buffer, where the comment at
  `debugger.cpp:674` says "error, send nothing". Offsets of the f registers are
  `(32*4)+(register_number*8)` with the number still counted from 32.
* The report of a stop may overtake the "OK" of the resume that led to it.

### Load-link

* A link on the upper word of a line is broken by no store: the link is compared
  with an address rounded to 8 bytes and set without rounding
  (`processor.hpp:748`, against the comment at `:56`).
* Emitted stores to a register's address compare the link with the address after
  the size of the stack was added (`jit1_memory.cpp:561`), without an MMU and with a
  stack, as is the default.
* A misaligned store that begins in the line before the linked one and reaches
  into it does not break the link: only the line of its first byte is looked at,
  and a misaligned address is kept as it is (`processor.hpp:363`).

### Order of instructions

* `README.md:19` has "Completely encapsulated instructions in all execution modes -
  the VM can enter or exit at _any_ instruction, and the full, correct state will
  be present". After an exception inside a quantum, execution resumes at the
  state in which generated code was entered (`processor.cpp:661`): run
  `GeneratedCodeException`.
* An instruction whose exception is raised by emitted code and handled is not
  counted: `Quanta <- MCQuanta` in `GeneratedCode.cfg` breaks `QuantumIsExact`.
* `handle_delay_branch` behind a branch that follows a branch and is entered by
  a jump ends its slot before it has run (programs without `Legal`).
* A host that clocks again after a reserved instruction exception finds the
  forbidden slot forgotten (`ReentersRI = TRUE` in `Interpreter.cfg`).
* Option `disable_cti` is tested by emitted code only.
* Code 16 MB apart shares chunks: the directory looks at the low 24 bits of an
  address (`jit1.hpp:248`, against the comment at `jit1.cpp:1345`). A `Window`
  below `Pages` in `JitLookup.cfg` breaks `RunsRight`.

### The two engines on one instruction

Each is a definition of `SideBySide` or `AccessDifferences`; without it in
`Differs` or `AccessDiffers`, `EnginesAgree` fails.

| definition | JIT1 |
| --- | --- |
| `OverflowLost` | ADD, SUB, DIV, MOD into $0 are not emitted, so they raise nothing |
| `SourceOverwritten` | SUBU, AND, OR, NOR, SELEQZ, SELNEZ, LSA write $30, or their destination, before they read a second source in it, as in SUBU $30, $2, $30 |
| `NoSuchEncoding` | SLTI, SLTIU, LSA for some operands ask the assembler for what it refuses |
| `FrameNotShared` | handlers called from emitted code see a stale $30, and what they write to it is lost |
| `HardwareRegisters` | RDHWR into $0 writes the slot of $0; of registers other than 1 and 29 it raises RI |
| `ExtractsNothing`, `InsertsIntoItself` | EXT of a whole word; INS with one register twice |
| `CountsFromTheBottom` | CLZ, CLO on hosts without `lzcnt` |
| `LinkFirst` | JIALC through $31 and JALR with one register twice jump to the link |
| `UnsignedAsSigned` | BGEUC and BLTUC compare signed |
| `OverflowAsCarry` | BOVC and BNVC test the carry (comment at `jit1_compact_branches.cpp:262`) |
| `NotZeroAndLink` | BNEZALC is emitted; the handler of the interpreter raises RI |
| `SIGRIE` | takes the code of the exception from the bits where BREAK has its own |
| `LWPC` | loads into the base of other loads and adds what it holds |
| `LoadIntoZero` | a load into $0 does not fault |
| `StaticPlace`, `StoreWithoutStack` | addresses known at translation are used without the stack; without a stack, stores compare with the size of memory rounded up to a power of two |
| `EmulatedZero`, `NullWrite`, `StoreLeaves` | with the emulated MMU only the interpreter tests for address 0 and only emitted code for the null pointer of a refused write; where code is writable, an emitted store returns to the caller without setting the program counter |

Both engines do alike: `--rox` is said to make executable memory read-only
(`options.cpp:205`), but a store is refused only if it lies wholly inside one
block (`system.cpp:181`). Blocks are the extents of program headers
(`elf.cpp:278`), which need not begin and end between words: a store over an end
of one writes code, and so does one over the border of two that meet
(`ReadOnlyExecutable`).

Met outside of what is compared: an Ov exception carries a stale address; ALIGN
of the interpreter takes its byte position for 0; CACHE takes the number of its
base register for the contents and, where that is no address, ends the emulator:
its handler is `noexcept` and `mem_poke()` throws (`processor_inst.cpp:1363`);
BLEZALC and BGTZALC with rt = 0 write $31 before they raise RI.

### Coprocessor 1

* MOV, ABS, NEG, SEL, SELEQZ, SELNEZ and CLASS read `_statusfp()` without
  clearing it (`coprocessor1_support.hpp:735`): a signal that an earlier
  instruction left turns a move into a NaN or an infinity (`MovesExactly`). The emitted SEL does not (`StaleSignal`).
* CVT.W and CVT.L truncate in every mode, against the comment at
  `coprocessor1_inst.cpp:169` (`ConvertsByMode`). In a build that traps
  they never clear the status and take INEXACT for out of range: 1.5 becomes the
  highest integer (`SignalSeen`), and the zero that CVT.L.S writes for a NaN is
  a single, which leaves half of the destination (`HalfZero`). In one that does
  not trap, they convert what does not fit, which C leaves undefined, and flag
  nothing.
* MAXA and MINA assert that their result is finite (`coprocessor1_inst.cpp:561`,
  `:628`), and an infinity gets there: it aborts a debug build, and a release build
  is free to do anything (`AssertionsHold`). MAX, MIN, MAXA and MINA treat
  an infinity as no number, and set no flag or cause for a signal.
* Without `FPU_EXCEPTION_SUPPORT`, in formats with fewer digits than the integer,
  CEIL takes the number above the highest integer for one in range, after which C
  leaves the conversion undefined (`HighestTaken`), and the lowest integer is
  refused by ROUND, and by CEIL and TRUNC where the format is shorter still
  (`LowestRefused`), which flags or raises InvalidOp with the right result. A
  comment calls the test "very rough and not exactly accurate" (`RefusesWhatIsOutside`).
* CFC1 and CTC1 of an unknown register throw out of a `noexcept` function.
* CLASS takes -0 for +0, and gives no class to NaNs other than the two it knows.
* CTC1 stores reserved bits and does not request a clock; a needed clock is never
  taken back; JIT1 clocks on the entry of a chunk only (`ClockLate`). MADDF and
  MSUBF round twice.

### VeMIX

* `mips::align<4>` (`common.hpp:1279`) moves a negative number away from zero also
  when it is a multiple of four: sbrk(-4) releases 8 bytes.
* `brk` of one of the last three addresses wraps to 0 and succeeds: unlike `sbrk`
  it does not test the base. `BreakIsTold` allows exactly that.
* A flagged `sbrk` with increment -12 is told as $7 = -12, like ENOMEM.
* At a normal exit the side-by-side mode always reports a mismatch: the
  interpreter stands behind the call and JIT1 at it. A fault inside
  `set_tid_address` is counted twice by JIT1. The break and the exit state are not
  compared. The system with JIT1 is silent, so that what it would write is not
  compared either.

## Not modelled

* Instruction decoding: `instructions_table.cpp` is written by `tablegen`.
  Handlers specialised on a zero operand are compiled out (`WITH_SPECIALIZED` is
  0). The instructions of coprocessor 0 and the E variants of loads and stores
  are modelled as they are built (`WITH_COPROCESSOR_0` is 0): they raise CpU.
* The encoding of x86 instructions and the assembler.
* Instruction hazards. `handles_instruction_hazards_` is false in every
  configuration (`processor.cpp:64`), so that nothing ever invalidates a
  cached or emitted instruction. Code is taken for constant; a guest that
  writes code keeps running the old. `hash_cache::invalidate`, which nothing
  reaches, masks an address with the number of buckets for the size of a line
  (`hash_cache.hpp:628`), and the cache with one line to a bucket, which nothing
  instantiates, fills it when the address is found (`:362`).
* Allocators and caches: the associative cache in use has associativity 0 and
  never answers; `release()` is called once per chunk, when a processor is
  destroyed. A chunk that enters the directory before an emission that throws
  (`jit1.cpp:1367`) is left out with the failure of emissions.
* The construction of a system, its count of instructions around early returns
  (`system.cpp:545`), and the loader: sequential code that keeps nothing another
  component shares.
* The host MMU and the platform layer. `host_mmu` leaves the first page
  uncommitted (`host_mmu.cpp:22`) and `system::initialize` fills memory from its
  first byte (`system.cpp:296`): with `--mmu host` the emulator faults before the
  first instruction, and no behaviour of a guest is left to model.
* The addresses that faults report (the interpreter adds the stack twice,
  emitted code reports 0 with the emulated MMU).
* Statistics, options and logging have no property worth a model. `mipsdbg`,
  `tablegen`, `tools/vevcbridge`, `sdk` and `vemips_sdk` are not part of the
  emulator.
