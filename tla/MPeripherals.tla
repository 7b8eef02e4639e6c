---------------------------- MODULE MPeripherals ----------------------------
(***************************************************************************)
(* The bus slave of the simulated system with its UART                     *)
(* (sysc/peripherals.cpp): MainThread answers Wishbone transfers,          *)
(* UartThread runs the scheduler of the UART every ten clocks.             *)
(*                                                                         *)
(* The threads are SystemC processes: between two waits nothing else runs, *)
(* so an access to the registers is one step.  A call of Simulate takes a  *)
(* step per event, and no other process runs before it has returned.       *)
(* The delays are of any length.  Memory is part of MMemu's environment.   *)
(***************************************************************************)
EXTENDS Uart16450

CONSTANT
  Workloads    \* what a driver does: writes and reads, each a sequence of
               \* the bytes selected, and what stdin gives

\* What can be written to a register.
Values(reg) ==
  CASE reg \in {"DLL", "DLH"} -> {0, 1}
    [] reg = "TXBUF" -> Char
    [] reg = "IER" -> SUBSET IerFlag
    [] reg = "FCR" -> [fie : BOOLEAN, reset : SUBSET {"rx", "tx"}, trigger : Trigger]
    [] reg = "LCR" -> [dlab : BOOLEAN, sbc : BOOLEAN]
    [] reg = "MCR" -> SUBSET McrFlag

Writable == {"DLL", "DLH", "TXBUF", "IER", "FCR", "LCR", "MCR"}

\* Drivers write one register at a time (REG8 in or1200-utils.h:8 is how those of
\* the repository do), and stdin gives characters, its end or an error.
ASSUME WorkloadsAssumption ==
  \A w \in Workloads :
    /\ \A bytes \in w.writes : /\ DOMAIN bytes = {1} /\ bytes[1].reg \in Writable
                               /\ bytes[1].value \in Values(bytes[1].reg)
    /\ w.input \subseteq Char \cup {"eof", "error"}

VARIABLES
  workload,
  uart,        \* struct dev_16450 and the scheduler of CUart
  simulating,  \* UartThread is inside Simulate
  slave,       \* where MainThread is
  request      \* the transfer of the master: we and the bytes selected

vars == <<workload, uart, simulating, slave, request>>

NoRequest == [we |-> FALSE, bytes |-> <<>>]

Requests == [we : {TRUE}, bytes : workload.writes] \cup [we : {FALSE}, bytes : workload.reads]

-----------------------------------------------------------------------------
(* What drivers keep to.  The first two are needed: without Drained the    *)
(* break that is being sent and tx_send both go on to the next character,  *)
(* without Clocked Simulate never returns from loopback mode.              *)

Drained(u) == "TXSERE" \in u.lsr /\ u.txbuf = <<>>
Clocked(u) == u.char_clks > 0

Allowed(u, we, byte) ==
  /\ Addressed(u, byte.reg)
  /\ we /\ byte.reg = "LCR" /\ u.lcr.sbc /\ ~byte.value.sbc => Drained(u)
  /\ we /\ byte.reg = "MCR" /\ "LOOP" \in byte.value => Clocked(u)
  /\ we /\ byte.reg \in {"DLL", "DLH"} => "LOOP" \notin u.mcr

Issues(r) == /\ \A n \in DOMAIN r.bytes : Allowed(uart, r.we, r.bytes[n])
             /\ request' = r

\* The master keeps its request until it sees the acknowledge.
BusRequest ==
  /\ request = NoRequest /\ ~simulating
  /\ \E r \in Requests : Issues(r)
  /\ UNCHANGED <<workload, uart, simulating, slave>>

-----------------------------------------------------------------------------
(* MainThread.                                                             *)

AccessByte(u, we, bytes, n) ==
  IF n \notin DOMAIN bytes THEN u
  ELSE IF we THEN uart_write_byte(u, bytes[n].reg, bytes[n].value)
  ELSE uart_read_byte(u, bytes[n].reg)

\* The registers are accessed byte by byte, the bus has four lanes.
Access(u, we, bytes) ==
  LET u1 == AccessByte(u,  we, bytes, 1)
      u2 == AccessByte(u1, we, bytes, 2)
      u3 == AccessByte(u2, we, bytes, 3)
  IN  AccessByte(u3, we, bytes, 4)

AcceptTransfer ==
  /\ slave = "top" /\ request # NoRequest
  /\ slave' = "transfer"
  /\ UNCHANGED <<uart, request>>

Transfer ==
  /\ slave = "transfer"
  /\ uart' = Access(uart, request.we, request.bytes)
  /\ slave' = "acked"
  /\ UNCHANGED request

\* While the acknowledge goes away the master withdraws its request or has the
\* next one.
EndTransfer ==
  /\ slave = "acked"
  /\ slave' = "top"
  /\ request' = NoRequest \/ \E r \in Requests : Issues(r)
  /\ UNCHANGED uart

MainThread ==
  /\ ~simulating
  /\ AcceptTransfer \/ Transfer \/ EndTransfer
  /\ UNCHANGED <<workload, simulating>>

-----------------------------------------------------------------------------
(* UartThread.                                                             *)

StartSimulate ==
  /\ ~simulating
  /\ simulating' = TRUE
  /\ uart' = Advance(uart)

NextJob == Head(uart.events).job

SimulateEvent ==
  /\ simulating /\ Due(uart)
  /\ \E input \in IF NextJob = "check_char" THEN workload.input ELSE {"eof"} :
       uart' = RunEvent(uart, input)
  /\ UNCHANGED simulating

SimulateReturn ==
  /\ simulating /\ ~Due(uart)
  /\ simulating' = FALSE
  /\ UNCHANGED uart

UartThread ==
  /\ StartSimulate \/ SimulateEvent \/ SimulateReturn
  /\ UNCHANGED <<workload, slave, request>>

-----------------------------------------------------------------------------

Init ==
  /\ workload \in Workloads
  /\ uart = UartReset
  /\ simulating = FALSE
  /\ slave = "top"
  /\ request = NoRequest

Next == BusRequest \/ MainThread \/ UartThread

\* UartThread waits for clock edges only, and the clock does not stop.  The formula
\* is WF_vars(UartThread): UartThread is always enabled, and its steps are those
\* that leave the bus alone.
Spec == Init /\ [][Next]_vars /\ []<><<UNCHANGED <<slave, request>>>>_vars

-----------------------------------------------------------------------------
(* Properties.                                                             *)

Count(jobs) == Cardinality({n \in DOMAIN uart.events : uart.events[n].job \in jobs})

MaxDelay == CHECK_DELAY + 3 * CHAR_TIMEOUT

\* Types of the registers, buffers and timers; time stays below the limit it is
\* set back at, and the timers below that plus their delay.
TypeOK ==
  /\ uart.txbuf \in Seq(Char) /\ Len(uart.txbuf) <= uart.fifo_len
  /\ uart.rxbuf \in Seq(Char \cup {NoChar}) /\ Len(uart.rxbuf) <= uart.fifo_len
  /\ uart.fifo_len \in {1, UART_MAX_FIFO_LEN} /\ uart.trigger \in Trigger
  /\ {uart.txser, uart.rxser, uart.loopback} \subseteq Char \cup {NoChar}
  /\ uart.ier \subseteq IerFlag /\ uart.ints \subseteq Interrupt
  /\ uart.iir \in Interrupt \cup {"NO_INT"} /\ uart.irqPending \in BOOLEAN
  /\ uart.lsr \subseteq LsrFlag /\ uart.mcr \subseteq McrFlag /\ uart.msr \subseteq MsrFlag
  /\ uart.lcr \in [dlab : BOOLEAN, sbc : BOOLEAN]
  /\ uart.curTime \in 0..TIME_LIMIT
  /\ \A n \in DOMAIN uart.events : /\ uart.events[n].job \in Job
                                   /\ uart.events[n].time \in -1..(TIME_LIMIT + MaxDelay)
  /\ slave \in {"top", "transfer", "acked"} /\ simulating \in BOOLEAN

\* As long as there is something to send, exactly one job keeps the transmitter
\* going, through writes, breaks and FIFO resets at any time; otherwise there is
\* none, so that no character is taken from an empty buffer (uart_tx_send,
\* uart_char_clock, uart_send_break).
TransmitterRuns ==
  /\ Count({"tx_send", "char_clock", "send_break"}) = IF Drained(uart) THEN 0 ELSE 1
  /\ ~uart.wrapped

\* The receiver always has exactly one job, waiting for a character or receiving
\* it, whatever the modes; only a read error of stdin stops it (uart_check_char).
ReceiverRuns ==
  /\ Count({"recv_char", "check_char"}) <= 1
  /\ "error" \notin workload.input => Count({"recv_char", "check_char"}) = 1

\* A character timeout is only reported, and only on its way, for data that is
\* still in the buffer (uart_int_cti).
TimeoutMeansData ==
  "CTI" \in uart.ints \/ Count({"int_cti"}) > 0 => uart.rxbuf # <<>> /\ Count({"int_cti"}) <= 1

\* Every activity of the UART has the one job that it needs, and no other.
OneJobEach == TransmitterRuns /\ ReceiverRuns /\ TimeoutMeansData

\* LSR tells what the buffers hold and what was lost; whoever does not poll it
\* gets the line status interrupt.
StatusRight ==
  /\ "RDRDY" \in uart.lsr <=> uart.rxbuf # <<>>
  /\ "TXBUFE" \in uart.lsr <=> uart.txbuf = <<>>
  /\ "OVRRUN" \in uart.lsr <=> "RLSI" \in uart.ints

\* The "proper priority order" of uart_next_int.
Urgency(i) == CASE i = "RLSI" -> 5 [] i = "RDI" -> 4 [] i = "CTI" -> 3 [] i = "THRI" -> 2
                [] i = "MSI" -> 1 [] i = "NO_INT" -> 0

\* Whatever is enabled, raised, cleared or overridden, the interrupt line is set
\* while an enabled interrupt waits, it goes down when IIR is cleared, and IIR never
\* names one that is less urgent than one that waits.  So when the interrupt in IIR
\* is enabled and raised it is the most urgent one; it may be one that is gone
\* (IirPending), which then hides those that wait (uart_next_int, uart_clear_int).
PriorityKept ==
  /\ uart.irqPending <=> uart.iir # "NO_INT"
  /\ \A i \in Raised(uart) : Urgency(uart.iir) >= Urgency(i)

\* uart_next_int "raises the next highest priority interrupt" when the one in IIR is
\* cleared or disabled: while enabled interrupts wait IIR names one of them, not one
\* that is gone.
IirPending == Raised(uart) # {} => uart.iir \in Raised(uart)

\* Outside of the access to the divisor latches the time of a character follows
\* from both, whichever was written last.
DivisorInUse == ~uart.lcr.dlab => uart.char_clks = char_clks(uart)

\* The registers hold what they may, and never fall behind the buffers, the events and the divisor.
RegistersRight == TypeOK /\ StatusRight /\ DivisorInUse

\* Simulate returns: events do not breed events that are due at once for ever.
SimulateReturns == simulating ~> ~simulating

\* The transmitter never hangs, although events are not kept in the order of their
\* times: it is drained again and again, or its clock goes on for ever (SchedAdd,
\* Simulate).
Transmits == simulating /\ Due(uart) /\ NextJob \in {"char_clock", "send_break"}
TransmitterNeverHangs == []<>Drained(uart) \/ []<>Transmits

\* The list of events neither keeps Simulate for ever nor loses the transmitter.
SchedulerRuns == SimulateReturns /\ TransmitterNeverHangs

\* Data never lies in the receive buffer unnoticed: it is read, or data, timeout
\* or overrun are signalled (uart_check_rdi, uart_int_cti).
DataNoticed ==
  uart.rxbuf # <<>> ~> uart.rxbuf = <<>> \/ uart.ints \cap {"RDI", "CTI", "RLSI"} # {}

=============================================================================
