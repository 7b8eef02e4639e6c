# A verification project for the ParaNut processor

ParaNut is a multi-core OpenRISC processor. `src/sysc` is its cycle-accurate
SystemC model: several CPUs, each with an execution unit (EXU), an instruction
fetch unit (IFU) and a load & store unit (LSU), share one memory unit (MEMU)
with a common cache, and reach memory and a UART over a Wishbone bus.
`src/orpsocv2/bench/sysc` is the debug side of the platform it runs on: a GDB
server that controls a processor over JTAG. These TLA+ modules model the units
of both, state what they promise to each other, check that with TLC on small
configurations, and prove what can be proved for every configuration with TLAPS.

## 1. Inventory

| Component | State | Operations | Interacts by | What makes it right |
|---|---|---|---|---|
| `MArbiter` (memu.cpp) | counter for the priority, one register per grant, link snooping | one combinational method per resource, one clock edge | request and grant lines of all ports and of the bus interface | conflicting requests are never granted together; a grant stays while it is requested; nobody waits for ever |
| `MTagRam` | tags, valid, dirty and use bits per line, busy cycle | read with hit detection, write (two clocks), write-back of the order of use | tag lines of the ports | one way per line; least recently used replacement |
| `MBankRam` | words of the cache | read, write | bank lines of the ports | - |
| `MBusIf` | a thread with 27 wait points, data registers for the new and the old line | direct read and write, replace, write-back, invalidate, flush | Wishbone bus; forwards words to read ports while it works | no word is lost, duplicated or seen too early |
| `MReadPort` | state machine | cached and direct read | one CPU port; tag, bank, bus interface | a load returns the last word stored |
| `MWritePort` | state machine, tag, data and link registers | cached, direct and partial write, load linked, store conditional, cache control | one CPU port; line lock, tag, bank, bus interface | stores are atomic; a store conditional tells the truth |
| `MLsu` (lsu.cpp) | write buffer of up to four entries, dirty bit of entry 0 | load, store, flush, cache operations | EXU; one read and one write port | loads see earlier stores; I/O stays in order; nothing is written twice or never |
| `MIfu` (ifu.cpp) | instruction and address buffer | fetch ahead, step, jump | EXU; one read port | the EXU gets the instructions of the program, in order |
| `MExu` (exu.cpp) | special purpose registers, mode, position in the thread | decode, ALU, load/store, jump, cache operations, moves to special registers, exceptions | IFU, LSU | delay slots, links and exception returns are right; every access gets its own acknowledgement |
| ALU (`RunAlu`) | - | adder, comparison, extension, shifter | EXU | arithmetic at the limits of the range |
| UART 16450 (uart16450.cpp) | FIFOs, registers, interrupts, list of events | register accesses, one function per event, `Simulate` | bus slave, interrupt line, stdin and stdout | no job lost or doubled, no waiting interrupt hidden, `Simulate` returns |
| Peripherals (peripherals.cpp) | bus handshake | bus slave thread, UART thread | Wishbone bus, UART | accesses and events do not interleave badly |
| LFSR (lfsr.cpp) | shift register | next state | random arbitration and replacement, compiled out | full period |
| GDB server (GdbServerSC.cpp, MpHash.cpp) | whether the target is stopped, signal, matchpoint table | requests of the remote protocol, polling of a running target | packets; debug unit; monitor pipe | memory holds traps exactly at the breakpoints; requests answered, stops reported |
| Connection (RspConnection.cpp, RspPacket.cpp, Utils.cpp) | one connection | put and get packets, interrupt character | TCP; server | packets arrive as sent |
| Debug unit (DebugUnitSC.cpp) | stall state, cached NPC | stall, unstall, read and write of registers and memory | JTAG; server | what it remembers is what the hardware holds |
| JTAG (JtagSC.cpp, Tap\*.cpp) | queue, TAP state machine | reset, DR and IR scans, one edge at a time | TAP of the target | both ends stay in the same state |
| `MParanut` (paranut.cpp) | - | wires everything, computes the direct lines | | |
| Tracing, monitor, test benches, VHDL twin, vendored tools, software | | | | |

What is hard to test here: in the processor everything happens in parallel at
every clock; ports meet in the tag RAM, in line locks, in banks and in the bus
interface in orders that depend on the bus, on the priority counter and on each
other. In the UART events are executed late and out of order while a driver
writes registers. The GDB server looks at a processor that runs on between two
looks. The list of hazards, each at its line and with the properties that catch
it, is in `PROJECT.json`.

## 2. Modules

### The processor

A state is one clock cycle and a step is a clock edge: signals that the code
computes combinationally (`SC_METHOD`s without a clock) are operators of the
state, registers are variables, and every unit moves at every step. So `Next` is
a conjunction of the edges of the units, and the choice in a step is what comes
from outside: requests of CPUs, answers of memory, programs.

| Module | Code | Content |
|---|---|---|
| `MemuConfig` | config.h, memu.h | configuration, numbering of ports, address fields |
| `ArbiterLogic` | memu.cpp 1360-1645 | the grant functions, as operators on sets of requesters |
| `MArbiter` | memu.cpp 1639-1672, memu.h 488-611 | the arbiter alone, with ports that do whatever memu.h lets them do |
| `ArbiterLogicProofs` | | lemmas about the grant functions and the priority |
| `MArbiterProofs` | | theorems about `MArbiter` |
| `MemuData` | memu.cpp, base.h | words of byte lanes, tags, `CombineData` |
| `MTagRam` | memu.cpp 170-313 | tag RAM and `GetNewUse` |
| `TagRamLru` | | the order of use of an LRU cache next to `MTagRam` |
| `TagRamProofs` | | theorem about `TagRamLru` |
| `MLfsr` | lfsr.cpp | the shift registers of random replacement and arbitration |
| `MBusIf` | memu.cpp 375-629 | the bus interface, one state per `wait` |
| `MReadPort` | memu.cpp 680-862 | the read ports |
| `MWritePort` | memu.cpp 943-1280 | the write ports |
| `MMemu` | memu.cpp 2116-2227 | all of them, wired as in `InterconnectMethod`, with CPUs, memory and the bank RAMs |
| `SharedMemory` | | what the memory unit promises: one memory, loads and stores at one moment each |
| `Coherence` | | the refinement of `SharedMemory` and of `MArbiter` by `MMemu`, invariants, liveness |
| `CoherenceProofs` | | theorems about types, tag RAM, locks, links, tags and data of `MMemu`, and the refinements of `SharedMemory` and `MArbiter` |
| `MCCoherence` | | what the CPUs ask of the memory unit in each run |
| `MLsu` | lsu.cpp | the load & store unit |
| `LsuSystem` | exu.cpp, memu.h | `MLsu` between the EXU and a memory that behaves as `SharedMemory` says |
| `LsuProofs` | | theorems about `LsuSystem` |
| `MCLsu` | | what the EXU and other CPUs do in the run |
| `MIfu` | ifu.cpp | the instruction fetch unit |
| `MExu` | exu.cpp | `MainThread` of the execution unit, special purpose registers |
| `LsuClient` | | the contract of the EXU with the LSU |
| `IfuSystem` | memu.h 305-316 | `MExu` and `MIfu` between a read port, an LSU and any program |
| `CpuProofs` | | theorems about `IfuSystem` and `MAlu` |
| `MAlu` | exu.cpp 276-460 | the ALU, as operators on numbers and on words of bits |
| `MCIfu` | | programs and read ports of each run |

`MArbiter` and `MMemu` share `ArbiterLogic`, so the refinement
`Coherence!ArbiterSpec` (the ports of `MMemu` drive the arbiter by the rules of
memu.h) carries what is proved about `MArbiter` over to the memory unit.
`LsuSystem` relies on `SharedMemory` in place of `MMemu`. `IfuSystem` relies on
the contract of a read port and implements `LsuClient` (`LsuClientSpec`), which
is what `LsuSystem` assumes of its EXU: the three layers rest on each other by
abstract specifications.

### Peripherals

The code of the UART is sequential, so its functions are operators from one
state of the device (a record with the names of `struct dev_16450`) to the next.
A bus access is one step, as no other SystemC process runs in it; a call of
`Simulate` takes one step per event, and nothing else happens before it returns.

| Module | Code | Content |
|---|---|---|
| `Uart16450` | uart16450.cpp | registers, FIFOs, interrupts, events, scheduler |
| `MPeripherals` | peripherals.cpp | bus slave and UART thread; a driver; the properties |
| `MCUart` | | five drivers |
| `UartProofs` | | theorems about `MPeripherals` |

### Debug chain

A step ends where the server gives way to the processor: at its reads of RISCOP
while it polls, before a stall, while it waits for the client. In between the
processor and the client take steps of their own. A request is one step, since
the processor is stalled while it is served.

| Module | Code | Content |
|---|---|---|
| `DebugUnitSC` | DebugUnitSC.cpp | stall, unstall, cached NPC; the processor behind it |
| `GdbServerSC` | GdbServerSC.cpp, MpHash.cpp, RspConnection.cpp | server thread, requests, matchpoint table, packets and acknowledgements |
| `GdbSystem` | | server, target, client and monitor; the properties |
| `GdbProofs` | | theorems about `GdbSystem` and about the four algorithms below |
| `JtagSC` | JtagSC.cpp, TapStateMachine.cpp, TapAction\*.cpp | state machine, reset and scans, next to the TAP of the target |
| `RspPacket` | RspConnection.cpp, Utils.cpp | framing, escapes, checksum, retransmission, the size of the buffer |
| `MemBin` | GdbServerSC.cpp `rspWriteMemBin` | which bytes a binary write changes |
| `HwMatchpoints` | GdbServerSC.cpp | matchpoints in DVR/DCR registers |
| `MCGdb` | | requests of the client; the properties of the last four |

Definitions carry the names of the code. An operator `X_Something` next to `X`
is a faulty variant of `X`, named after its fault; it is used to see that a
property would notice it.

### How the code became TLA+

* Sets replace bit vectors: a request or grant vector is the set of its
  members. `LOCK_BUSIF` is the last line lock, `IDX_*` number the ports as the
  macros of memu.cpp do. Flag registers of the UART are sets of flags.
* A thread (`MBusIf`, `MExu`, `rspServer`) is a state per `wait`, and an
  operator or action per stretch between two of them.
* Words are functions from byte lanes to bytes. The configurations use one or
  two lanes and two byte values: with byte selects of single lanes this tells
  apart every merge the code makes. The LSU has its four lanes, as its
  alignment logic is about them.
* `sc_signal`s read in the method that writes them show their old value. This
  matters in `MIfu`, where the search for a jump reads the buffer that is being
  filled.
* An instruction is the record of its address, kind and target. The data of the
  register file is left out: whether a branch is taken, which flags a move
  writes and how long an instruction takes is open. `SR` and `ESR` are kept
  bit by bit, as `GetSpr` and `SetSpr` each have their own layout.
* Word addresses only. Instruction addresses wrap around, as `TWord` does.
* The adder of `MAlu` works on numbers of any width, the shifter on words of
  bits; multiplication and the logical functions are those of the host.
* A time unit of the UART stands for the steps of one call of `Simulate`;
  `TIME_LIMIT` is the point where the timers are set back.
* Packets travel over TCP: the streams are in order and lose nothing. The
  elements of a stream are packets, acknowledgements and interrupt characters;
  how a packet is made of characters is in `RspPacket`, evaluated apart.
* The program of the debugged processor is one loop over `Addr`.
* Tracing and dumping are left out.

## 3. Runs

A run fixes the hardware by its constants, and lets the environment choose a
*workload* in the initial state: a set of records in the MC module says which
ports are used, with which addresses and operations, or what a program or a
driver may do. One run covers several workloads on the same hardware, each with
all its interleavings.

| Run | Shows | Instance | States |
|---|---|---|---|
| `arbiter` | grants exclude each other, are never taken away, do not depend on when they are computed | 2 CPUs, 2 indices; line locks, tag RAM and bus interface, one at a time | 18,857 |
| `tagram_lru` | the way a miss evicts is the least recently used one | 4 ways, the most the code has | 744,098 |
| `memu_shared` | one shared memory; locks, clean lines, links kept under the lock; every request is served | 2 CPUs, one set, up to three ports at once | 220,666 |
| `memu_ways` | one shared memory; no line twice; the rules of the arbiter | 1 CPU, 2 ways, 3 lines of 2 words | 248,893 |
| `lsu` | loads see stores; entries, flush, write port, I/O order; the EXU is acknowledged, stores drain | 3 entries | 266,426 |
| `ifu` | program order, link addresses, flags, the contracts with read port and LSU, progress, ALU | buffer of 4, 6 addresses, CePU and CoPU | 584,929 |
| `uart` | one job each, registers and interrupts, the scheduler, data noticed | FIFOs of 2, 5 drivers | 925,268 |
| `gdb` | the target is known, breakpoints and trap stops are exact, requests answered, stops reported; the link | program of 3 instructions, breakpoints at 2 | 288,097 |

**Arbiter.** `MaxRequests` bounds the requests for one resource in a clock, and
`asked` selects the resource: the arbitrations share only the priority counter.
Ports of the same bank (`BankRouted`, and banks in `GrantsHeld`) are left to the
proofs, which have no bounds.

**Tag RAM.** The run compares the way `MTagRam` proposes for replacement with
the least recently used one, for accesses of one port in the pattern of a read
port. Two ports whose accesses overlap may lose a use (`use_wr_reg` is
overwritten or cleared), which costs performance and no data; `MMemu` includes
this. The shift registers that other policies would use are stepped through
their periods before the run (assumption `PrimePolynomials`).

**Memory unit.** `SharedMemorySpec` is the refinement: mapping the word of an
address to the cache, the victim register or main memory, every step of `MMemu`
is a step of `SharedMemory`. `memu_shared` has a reader and a writer of bytes
that evicts the line, two writers that evict each other's lines, two writers on
bytes of one word, load linked / store conditional on a line that nothing
evicts, and three ports of which no two want the same. `memu_ways` has more lines than ways
and stores of one byte, wrap-around fetch and forwarding, write-back and flush by a CPU
that is alone, and uncached accesses between cached ones. Where a workload writes an address with
one value only, it differs from the one memory starts with or from the one of the
line that takes its place.

Why these sizes are enough to be interesting: one set makes any two lines
collide, so that hits, misses, replacement of clean and dirty lines and the
races between them are all reached with two or three lines; two CPUs have
different tag RAM ports and a common one with the bus interface; `PRIO_CLOCKS`
is 1, so the priority changes as often as it can. They do not cover more than
two CPUs, nor two CPUs with several ways or words per line.

**Load & store unit.** `lsu` has more words than entries, words and bytes of
the same addresses, I/O stores and cache operations among ordinary stores, and
another CPU that stores. `LoadsSeeStores` compares a load with `image`, the
memory as the stores of this CPU alone would leave it, so the other CPU writes
other words there.

**Instruction fetch and execution.** `ifu` has programs with every kind of
instruction and a read port that never acknowledges in two clocks in a row, and
straight-line code with acknowledgements in up to eight clocks in a row, twice
the buffer. `arch` is the architecture next to it: program counter, next
program counter, delay slots. System calls and returns are taken to have a delay
slot, as the code executes it, against its comments (see below). `LsuClientSpec` is a refinement: the
requests of all instructions together are a behaviour of `LsuClient`. `saved`
remembers the flags of the last system call, which `FlagsRestored` compares with
those after the return. Nothing behind a delay slot is ever in the buffer when a
jump is executed, so cutting the buffer (ifu.cpp:114, `KeptInsns`) has nothing
to do in these behaviours. `AluExecutes` evaluates the ALU for all operands of
four bits, the least width at which all its cases differ.

**UART.** Five drivers send, receive, do both, use loopback and set the divisor,
with FIFO resets, breaks and interrupts enabled and disabled at any time. Two
rules are theirs and not the code's, and both are needed:

* `Drained`: a break ends only when the transmitter is drained. `uart_send_break`
  removes `char_clock` where it wants to remove `send_break` (uart16450.cpp:958),
  so that otherwise two jobs drive the transmitter and a character is taken from
  an empty buffer.
* `Clocked`: the divisor is set before loopback mode. With a divisor of 0 a
  character takes no time, the receiver schedules itself at once, and `Simulate`
  never returns.

FIFOs of 2 characters are full, half full and empty, the trigger levels are 1 and
2, and timers are set back every 5 units, less than two characters. A character
takes 1 to 3 units, by the divisor.

**Debug chain.** `gdb` has a client that behaves like GDB: it has one request at a
time, acknowledges everything it reads, interrupts only while it waits for a stop,
does not write where it has a breakpoint, and may disconnect. The program, a loop,
runs between any two steps of the server, and so does the monitor that asks for a
stall. Two addresses with breakpoints and one without are enough for hitting one
while resuming, stepping and being interrupted. `PipelineRefilled` is the one
assumption on timing: the scan that stalls the processor takes a hundred clocks
of JTAG, in which the pipeline that a write of NPC has flushed is filled again.
`LinkCarries` evaluates what lies below the requests on all small inputs: the
JTAG state machine of the server next to that of the target from every pair of
states, scans of up to three bits, packets of up to three characters and a buffer of
six (so that some packets are too long for it), binary writes of up to eight bytes,
and two pairs of matchpoint registers. There are theorems for all sizes (section 5).
`IdleAfterScanLoses` is no property but a limit of the code (section 3), and is an
assumption of `MCGdb`, so that TLC evaluates it before the run.

### What the code does not keep

In each of these runs TLC finds a behaviour that a comment of the code rules out
(`findings` in `PROJECT.json` quotes it):

| Run | In short |
|---|---|
| `memu_link_lost` | a link made while another CPU is about to store survives the store |
| `memu_cond_ok` | a store conditional that misses loses its link, stores and reports failure |
| `ifu_wrong_insn` | acknowledgements in two clocks in a row make the IFU fetch behind a jump, withdraw the request, and take the word for the target |
| `uart_stale_iir` | the interrupt that is cleared keeps the next one out of IIR: it goes on being reported, and the one that waits is not |

Two acknowledgements in a row come from a read port that hits in the cache and
then, while it delivers that word, in the register of the bus interface
(`s_rp_read_bank` with `busif_hit`, memu.cpp:771-795); and since `s_rp_read_tag`
acknowledges without looking at `port_rd`, a request the IFU has withdrawn is
answered all the same.

More behaviours of this kind came up while the runs were chosen. They follow
from the same definitions, with other workloads or stronger properties, and
explain the limits of the properties above. In the processor:

* Cache control runs without the line lock (memu.cpp:1055): with write-back by
  one CPU and stores of bytes by another, `SharedMemorySpec`,
  `WritersHoldLineLock` and `CleanLinesInMemory` fail. memu.h:414 marks cache
  control as not implemented yet. Its lock request goes on into the next request
  with another address (memu.cpp:1269), so `ArbiterSpec` fails, too.
* Invalidating a line that is not cached drops the line in the victim way
  (memu.cpp:589). A cache operation with both bits 0 (exu.cpp:757) is never
  acknowledged.
* A store conditional to another address than the link stores and reports
  failure, as one does that loses its link in a miss (`memu_cond_ok`). The EXU looks at `lsu_wcond_ok`
  before it has made its request (exu.cpp:719), and a link is never taken back
  (memu.cpp:1034, memu.h:411).
* A reader with hits back to back never gives its tag grant back, and writers
  wait for ever (memu.cpp:779): `WritesServed` fails, and with two readers and a
  writer `ReadsServed` as well. This is why `AllServed` assumes `ReadersPause`.
* A store to entry 0 of the write buffer keeps the entry there; a CPU that goes
  on like this never writes the entries behind it (lsu.cpp:244). This is why
  `StoresDrain` is about a CPU that stops storing.
* A store merged into entry 0 after it was written writes its old bytes a second
  time (lsu.cpp:309), over what another CPU has stored there since.
* The write buffer acknowledges a cache operation in its first cycle, before the
  memory unit has carried it out (lsu.cpp:257), and the flush before the next
  one withdraws it. This is why `WritePortHeld` is about CPUs without cache
  operations.
* `adr & 3 != 0` (lsu.cpp:130) is `adr & 1`: a word at 2 modulo 4 is accepted.
  After an alignment error the output method returns early (lsu.cpp:140), and
  the EXU waits for ever.
* The mode of a CPU is read from its own copy of CPUEN, which only its own
  instructions write (exu.cpp:535): the CPU that enables another one does not
  reach it.
* The overflow flag of `l.sub` is inverted when the most negative number is
  subtracted (exu.cpp:334); `l.ror` by more than half a word loses bits
  (exu.cpp:391). `SubRight` and `RotateByHalf` say so.

* The instruction behind a system call or a return is executed before the jump takes
  effect: the loops at exu.cpp:892 and 845 that are to "ignore" or "skip" it only wait
  until it is valid, and the main loop takes it. EPCR points to it, so it is executed
  once more after a system call has returned.

In the peripherals:

* An interrupt that is gone stays in IIR, with the line set (`uart_stale_iir`), until
  a more urgent one is raised, it is raised again, or it is cleared (or IER written)
  with no less urgent one waiting. Nothing at all need wait: when RDI and CTI are both
  raised, the read that clears them clears RDI first, with CTI in the way, and then CTI,
  which is not in IIR; the interrupt that is left is spurious. `PriorityKept` says
  what holds all the same.
* `SchedAdd` compares absolute times with a relative one (uart16450.cpp:1537): the
  list is not sorted, and events wait behind later ones.
* Reception waits while the transmitter is busy, as its events are looked at in
  the order of the list; an error of the read from stdin stops it for good
  (uart16450.cpp:847).
* A character written to a full FIFO replaces the oldest one. In 16450 mode with
  trigger bits set the data interrupt never comes. Reading MSR in loopback mode
  raises its interrupt again.
* `IsAdressed` accepts the address one behind the memory (memory.h:56).
* Eight of the "prime polynomials" are not (lfsr.cpp:39): degree 7 #10, 10 #13,
  12 #7 and #11, 13 #14, 14 #7 and #14, 19 #3.

In the debug chain:

* A target that meets a trap between the server's two looks at it, or just before
  the stall that the server makes, is not set back to the breakpoint: the
  instruction under it is skipped, and the signal reported is the wrong one
  (GdbServerSC.cpp:185-200). `TrapStopExact` is about the stops that are
  reported as traps.
* An interrupt that crosses a stop reply is taken for a negative acknowledgement
  (RspConnection.cpp:505); the reply is sent twice, acknowledged twice, and the
  second acknowledgement stays in front of the next interrupt and hides it.
* From the end of a scan idle edges lead the TAP of the hardware to
  Test-Logic-Reset while the state machine of the server stays
  (JtagSC.cpp:82-91), after any number of edges (`IdleAlwaysLoses`); it works because
  the next scan always follows at once.
* A binary write is right exactly for whole words (GdbServerSC.cpp:1344, 1358).
* No hardware matchpoint can be removed: insertion and removal write and look for
  different values of DCR (1416, 1582). `OR1200_DU_HWBKPTS` is undefined, so they
  are compiled out as the code stands.
* `D` leaves the target stalled; `C` and `S` are not answered; `i` and `I` report
  their stop twice; a packet that is too long is neither acknowledged nor
  answered; `rspSet` uses a packet it has deleted (1087);
  `TapAction::checkResetDone` has a path without a return value.

## 4. Fairness

* `MMemu`: the clock ticks (`WF_counter_reg(Tick)`) and the external memory
  answers a strobe in the end. Requests need no fairness; CPUs may stop.
  `AllServed` assumes in addition that no reader hits back to back for ever
  (`ReadersPause`), because without this the code starves writers (section 3). A
  CPU with an LSU in front of its read port and an IFU that executes what it has
  fetched does pause, but nothing in the memory unit enforces it.
* `LsuSystem`: the clock ticks; memory acknowledges every request that is held.
  This is what `AllServed` gives.
* `IfuSystem`: the clock ticks; read port and LSU answer, and every instruction
  comes to its end.
* `MPeripherals`: weak fairness of `UartThread`, which waits for nothing but clock
  edges. Drivers and bus need none.
* `GdbSystem`: weak fairness of the server's thread, of the processor (both are
  clocked processes) and of the client's reading. Nothing makes a client send,
  interrupt or stay connected.

## 5. Proofs

**Arbiter** (`MArbiterProofs`), for every number of CPUs, banks, sets, ways and RAM
ports (`ConfigAssumption` and `ArbiterAssumption` only ask for positive numbers).

* `TypeCorrect`: registers and lines stay in their widths.
* `ArbiterExclusion`: `Exclusive` always holds. It is about the grants of a cycle,
  which are computed from the registers (the grants of the last cycle) and the
  requests, and is not inductive: a grant that is kept is right only if the
  register was. The inductive invariant `IInv` therefore states what the
  registers guarantee for the requests that are kept, one part per resource
  (`LockRegsOK`, `TagRegsOK`, `BankRegsOK`, `BusIfRegsOK`). `GrantsExclusive` gets
  the grants from `IInv`; the next registers are these grants, and the rule of
  memu.h that addresses do not change while requests are held (`AddressesHeld`)
  carries it over to the next cycle.
* `GrantsSettle`: computing the grants again from themselves changes nothing, so
  it does not matter in which order a simulator evaluates the methods after a
  clock edge, when registers and priority have changed already.
* `GrantsKept`: `GrantsHeld` is a property of the specification. For locks and the
  bus interface it is the shape of the grant methods; for a bank it takes `IInv`
  as well: the kept writer is the one its RAM port selects again
  (`KeptWriterSelected`) because no other writer was granted there, and because
  with a RAM port for every CPU no other write port can take its place.

**Memory unit** (`CoherenceProofs`), for every
number of CPUs, banks, sets and RAM ports, one, two or four ways (config.h: "supported
values are 0..2"), all addresses, data and workloads. The layers rest on each other:

* `TypeCorrect`: `TypeInv` is `TypeOK` with what the states of the threads say of the
  jobs they do: which operation the bus interface has in which state and with which
  kind of address (`BusIfJob`), and that a port in the middle of an access still has
  the request it began with (`ReadsHeld`, `WritesHeld`).
* `TagRamUseTheorem`: the two assertions of `MTagRam::MainThread`. A write of the tag
  RAM takes two clocks, so `TagRamInv` says who is in the second one: the writer still
  has the grant of the first, and nobody reads.
* `AccessesLockedTheorem` (`LockInv`): who has which line lock, also through
  `nolinelock`, by which the bus interface works under the lock of the write port it
  works for. Here and below `NoCacheControl` is a hypothesis: no workload has
  write-back, invalidate or flush. Those run without a line lock (section 3), so that
  all the following is false with them.
* `LinkKeptTheorem`: a port that works on the line of its link under the line lock does
  not lose it at this clock. A link is broken by a write port that has a line lock after
  the edge (`SnoopStrobe`). A port that works on its line has one as well (`LockInv'`),
  and at most one write port has (`LocksExclusive`), so it is not told. It is the part of LL/SC
  that is true: a store conditional that waits for the bus interface has given up the
  lock, and its link may go (`memu_cond_ok`).
* `OneWayTheorem` (`TagsInv`): no line is in two ways. A new tag is written by the bus
  interface only, into the way whose tag it has read, and the invariant is that from the
  read on the line it works on is in no other way; likewise a write port that has found
  its line keeps finding it in that way (`TagsKnown`). Both hold by the line locks.
* `CleanLinesTheorem` (`DataInv`): a valid line that is not dirty is what memory holds.
  The parts of the invariant follow a line through the unit: one port has the bus
  interface, and what it does for it (`RequestersInv`); who has seen a miss is right
  (`MissesInv`); the victim's tag, first valid, then invalid, then that of the new line,
  and its dirty bit (`VictimInv`, `VictimGone`); dirty bits as write ports know them
  (`DirtyInv`); one user per RAM port (`BankPortsInv`) and the word a partial write
  merges into (`MergeInv`); the words that have been fetched (`FetchInv`) and those of
  the victim that have been read, replaced and written back (`CopyInv`). The theorem
  shows that the last disjunct of `CleanLinesInMemory`, the line being written back, is
  never needed without cache control.
* `SharedMemoryTheorem`: `Spec => SharedMemorySpec`, the refinement. The invariant is
  that of the last theorem with `LinesInv` (the cache has only lines of `CachedAdr`). An
  edge is the step of `SharedMemory` with the stores that write a bank or that the bus
  interface accepts at this edge (`Storing`). Memory is right because a word in the
  cache changes by a store only, also when its line leaves (`HeldWordStep`), a word
  outside does not change when its line comes in, is written back or is fetched
  (`AwayWordStep`), and neither does an uncached one (`DirectWordStep`). Loads are right
  because a port acknowledges with a word that hits in the bank, or with the word the
  bus interface forwards, and both are the current one (`LoadAnswered`); stores,
  because a port acknowledges after it has written, and once (`StoreProgress`). Two
  stores of one edge never meet in a word (`StoresApart`), by the line locks.

* `ArbiterTheorem`: `Spec => ArbiterSpec`, the refinement of `MArbiter`. Grants are the
  same functions in both; what has to be shown is the rule of memu.h that addresses are
  "kept constant as long as 'req_*' lines are held". A port that keeps requesting a line
  lock (`LockAddressHeld`) or a bank (`BankAddressHeld`) is still at the access it began
  with, and the bus interface at its line and, while it waits, at its word. So
  `ArbiterExclusion` and `GrantsKept` hold in the memory unit as well.

So `LsuSystem`, which is proved about with `SharedMemory` below the LSU, has its
memory for every configuration, as long as its CPUs leave cache control alone.

**Tag RAM** (`TagRamProofs`), for two and four ways and all addresses of the port
(`LruAssumption`: one port, one set; with one way there is nothing to replace).
`LruTheorem`: `LeastRecentlyUsed` always holds. `UsedRight` is about `GetNewUse`: from
the 'use' word of an order of all ways (`Order`, `UseOf`) it makes that of the order in
which the way is last. A word has three fields, and the exclusive or of them is the
fourth way (`FourFields`). `LruInv` says that the word in the RAM is that of the order,
and what a read that is not settled has noted (`ReadNoted`): the way, and the new word
unless it is the old one. So the next edge writes it, and the same read again leaves
nothing behind. With several ports the policy is not exact: a word may be written back
that was read before the hit of another port, whose use is then lost.

**Load & store unit** (`LsuProofs`), for every size of the write buffer and all
workloads. The invariant comes in two layers. `IInv` is about one step of the
buffer: the request of the EXU is one of the workload (`ExuOK`), entries are of
the right type and in use from entry 0 on without gaps (`BufferOK`, `Compact`),
no two hold the same word (`OneEntryPerWord`), and every store that has not
reached memory is in an entry (`OwedInBuffer`). From it follow `OneEntry`,
`FlushComplete`, `WriteHeld` and `TypeCorrect`. `DInv` adds the data: an entry has
the bytes `image` has (`EntriesOK`, `LinesOK`), what is not in the buffer is in
memory (`Entry0InMemory`, `ImageKept`), a clean entry 0 is not forwarded wrongly
(`CleanNotForwarded`), and a load on its way will be merged with what it had
found in the buffer (`LoadDue`). It gives `LoadsRight`, that a load returns the
last store to each of its bytes, and with `SpecialFirst` it gives
`SpecialOrdered`.

**CPU** (`CpuProofs`), for every program, buffer size and read port.

* `LsuClientTheorem`: the EXU implements `LsuClient`, the client that `LsuSystem`
  takes for granted. So what is proved of `LsuSystem` holds of the LSU behind
  `MExu`. `RInv` ties the request line to the place where the thread waits.
* `AccessTheorem` and `FlagsTheorem`: an instruction goes on only with the
  acknowledgement of its own request; a return brings back the flags.
* `TypeCorrect`: the instruction buffer never overflows. The invariant is `Room`:
  entries, plus the word that is coming, plus the addresses waiting to be fetched
  fit into the buffer.

* `OrderTheorem`, `NpcTheorem` and `HeldTheorem`: the EXU takes the instructions in the
  order of the architecture, delay slots included; the link address and EPCR are right;
  and a request to the read port is held. They need `NoFastJumps`: a program has no
  jumps, or the read port does not acknowledge in two clocks in a row. Without it all
  three are false (`ifu_wrong_insn`, section 3). The invariant `OrderInv` takes IFU and
  EXU together. `Position` is the entry at which the program counter of the architecture
  is: the second one, from the edge at which the EXU takes an instruction to the one
  that shifts the buffer. From there on the addresses in the buffer are those of the
  program (`AdrInv`), and words are those of their addresses; behind the delay slot of a
  jump that has not been executed nothing has been asked for (`JumpInv`), so that
  nothing has to be withdrawn when the target replaces what comes next; and the
  addresses are far enough ahead of the words (`CountInv`, with the first clocks after
  reset as a case of its own). TLC found `OrderInv` to hold on the reachable states of
  instances with buffers of four and five entries before it was proved.

**ALU** (`CpuProofs`), for words of every width: `AluTheorem` states sum, carry,
overflow, borrow, the ten comparisons, sign extension and rotation (`AluRight`),
with the two exceptions of section 3, and `AluExecutesTheorem` says that it holds
of every instruction a program gives to the ALU. The run `ifu` evaluates the same
formula for four bits; for 32 there is only the proof.

**UART** (`UartProofs`), for FIFOs of any length from two on, any trigger levels and
delays, and all drivers that keep to the rules of section 3 and write one register at
a time, as those of the repository do (`REG8`, or1200-utils.h:8; reads may select
several bytes). `WorkloadsAssumption` says the latter, `Allowed` the former. Why it is
needed: what a driver may write depends on DLAB, on the break and on the transmitter,
and it looks at them before the transfer, not between two bytes of it.

* `JobsAreAlone`: `OneJobEach` always holds. Counting events is no invariant of its own:
  which job the transmitter has follows from the shift register, the buffer and the
  break (`TxJobs`), so `TxRight` names it, and every function that adds or removes a job
  is shown to change the registers to match. What a function makes of the list of events
  is said by the jobs that it has afterwards (`Jobs`) and by the jobs it has at most one
  event of (`Alone`), whatever the order of the events, which the code does not keep.
  The receiver (`RxRight`, `Receives`) and the timeout (`CtiRight`) are done alike.
* `RegistersAreRight`: `RegistersRight` always holds. `Fits` and `LsrRight` go with the
  buffers through every function; `ClocksRight` is about the divisor, which DLH changes
  without a new delay, so that it holds again only when DLAB is reset.
* `PriorityIsKept`: `PriorityKept` always holds: the line is set while an enabled
  interrupt waits, and none that waits is more urgent than the one in IIR. `Good` (types,
  `Pending`, `Covered`) survives `uart_next_int` and `uart_clear_int` because IIR is kept
  only when it is at least as urgent as what is raised. The order is strict, so a pending
  interrupt in IIR is the most urgent one. It need not be pending: that is `IirPending`,
  which the code does not keep (section 3).

`UartInv` joins them with what a driver keeps to from its request to the transfer, while
events may come between (`Kept`): the transmitter is still drained when a break ends
(section 3) and the registers addressed are still there. TLC found it to hold on all
reachable states of the run `uart` before it was proved.

**Debug chain** (`GdbProofs`), for every length of the program
and every set of requests. `TargetIsKnown`: what the server takes for stopped is stalled, and the
next program counter that `readNpc` returns is where the target goes on. The
invariant `Agree` relates the two memories of the same thing: the cache holds NPC
whenever the hardware would read 0, and says nothing while the target runs.
`BreakpointsAreExact`: `BreakpointsExact` always holds. It speaks of a client
between two requests, but the server serves a request while the client waits, so
the invariant `BInv` follows the one request there is: none under way (`Resting`),
in the stream to the server (`Asking`, where memory is right but for the word the
request is going to write), or served, with its acknowledgement on the way back
(`Answered`). That there is never a second request, nor a second acknowledgement
to be taken for the first, is part of it.
`TrapStopsAreExact`: `TrapStopExact` always holds. Its invariant `GoalInv` says where a
target goes on that has stopped by itself (`StoppedRight`) and one that the server has
found stopped, with the address the request under way asks for (`GoalRight`). It rests
on `RunInv`: while the target runs the stream to the client is empty but for the
acknowledgement of the request that let it run. So the client takes no old stop reply
for the new one, and nobody inserts or removes a breakpoint below a target that runs.
`StreamsAreBounded`: `TypeOK` always holds, so neither stream ever has more than four
elements, although the server repeats a packet whenever the next character is not `+`.
`StreamInv` counts what is in the streams against what is under way (`Weight`): the
packet to be acknowledged, the interrupt character, the request, the acknowledgement of
the request, one of each, and at most one element more (`Short`), until a client that
has gone lets the server give a packet up (`GivenUp`). What could break it is the order:
a request, or an interrupt character, that the server takes for the answer to its packet
would have it repeat the packet and lose the request. So the acknowledgement lies before
the request (`AckComesFirst`), and an interrupt character that is left over lies where
taking it makes room for the packet that is repeated (`InterruptPlace`).

**Link** (`GdbProofs`), for every reset of the TAP of five edges or more, which is the
least that brings it home from every state, and every buffer of two characters or more
(`LinkAssumption`). `LinkAlwaysCarries` states what the run evaluates. The theorems
under it have no bounds on the data:

* `TapMapOptimalHolds`: the table of the next TMS leads from every state to every other
  one, by a shortest way. The number of edges is given as a table (`Distance`), and
  `DistanceAcross` shows that the table's TMS comes one closer and no TMS more than one.
* `ResetSettles`: five edges with TMS high bring any two states to Test-Logic-Reset. The
  proof follows both by their distance from there.
* `ScanExchanges`: a scan of any number of bits, from two state machines in step, shifts
  all of them out and all those captured in, in order, and ends with the two in step. The
  invariant says how far a scan is: edges to the shift state (`Approaching`), bits that
  are through and bits that are left, and the way out (`Over`).
* `IdleAlwaysLoses`: one idle edge or more behind a scan put them out of step.
* `EveryPacketDelivered`: a packet of any bytes arrives as it was sent and is
  acknowledged, or is longer than the buffer and is neither acknowledged nor refused.
  `Feeds(r, chars, s)` says that the characters take the receiver from `r` to `s`; it is
  composed from the start character, the escaped data (`EscapedNext`, `BodyRead`), and
  the checksum, so that a packet is read piece by piece and no proof looks inside two.
* `EveryCutHeals`: wherever a packet is cut short, the one behind it is read, the first
  time or when it is repeated. The exception, which the code cannot notice, is in the
  statement: a cut between the data and the checksum where the next two characters are
  taken for the sum (`TakenForSum`).
* `WholeWordsExactly`: a binary write, of any length at any aligned address, changes what
  it was asked to exactly if its length is a multiple of the word.
* `NeverRemovedAtAll`: no hardware matchpoint that was inserted can be removed, of any
  type and address, with any number of registers.

These are inductions over data. The library's theorems of induction cannot be used
here, but that of well-founded sets can be cited for a set: `LeastNatural` gives the
least element of a set of numbers, from which `UpToEnd` (a fact at 0 that steps on
reaches every number up to a bound) and `AppendInduction` (sequences, by their last
element) follow, and the folds and recursive functions of the model are unrolled by one
element at a time.

Only model-checked:

* The periods of the shift registers (`PrimePolynomials`), which TLC computes.
* All liveness, which is out of the prover's reach: `AllServed`, `RequestsAcked`,
  `StoresDrain`, `Progress`, `SchedulerRuns`, `DataNoticed`, `RequestsAnswered`,
  `StopsReported`.

Every safety property of a passing run is stated by a theorem. `StoreBreaksLinks`,
`CondOkReported` and `IirPending` are what the runs of section 3 refute;
`ProgramOrder` is proved for the programs and read ports for which it is true.

## 6. What is not modelled, and why

* Ideal clocked semantics: the sensitivity list of `MWritePort::MainMethod`
  lacks `link_valid_reg`, `tag_reg` and `data_reg`, and that of
  `MParanut::InterconnectMethod` the cache enables; that a simulator could keep a
  stale output for this is not modelled.
* Random arbitration and replacement, which are compiled out.
* The word on a bus when nobody drives it: the data registers start with one
  fixed word, and an ungranted read of the tag RAM sees an unspecified address.
* Reset in the middle of operation.
* LSU requests with an alignment error (section 3).
* `MParanut`: wires, and the direct line of an instruction port that is computed
  from the address of the data port (paranut.cpp:321).
* The VAPI test interface of the UART, which is not configured, and with it
  received breaks and errors of characters.
* Requests of the remote protocol that read or write other registers than NPC, or
  answer a constant; sockets; how registers are packed into scan chains and the
  retries on CRC errors.
* ELF reading, traces, reports of the OR1200 monitor, test benches: they report
  what the simulation does.
* The VHDL implementation is a second implementation, not the reference here.
* Most of the C and C++ of the repository is vendored with ORPSoC: a disassembler
  (`or32-opc.c`), the header of a library (`bfd.h`), debug bridges of other
  simulators (`gdb.c`, `jp_vpi.c`), drivers and tests for boards. None of it is
  part of the processor.

## 7. Plan

1. Done: arbiter, memory unit with its refinements, LSU, IFU, EXU, ALU, UART, debug
   chain; theorems about arbiter, tag RAM, memory unit, LSU, CPU, ALU, UART and
   debug chain, and about the link below it. No safety property is left to TLC alone.
2. LSU and memory unit composed: `MLsu` on `MMemu` in place of `SharedMemory`,
   with load linked and store conditional as the EXU drives them; the path of a
   load-linked/store-conditional loop of two CPUs as a lock.
3. `MParanut`: direct lines of the ports (paranut.cpp:305-324).
4. Larger instances: three CPUs, two CPUs with two ways.
