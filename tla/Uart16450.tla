----------------------------- MODULE Uart16450 ------------------------------
(***************************************************************************)
(* The UART of the simulated system (sysc/uart16450.cpp): registers,       *)
(* buffers, interrupts and the scheduler its transmitter and receiver are  *)
(* driven by.                                                              *)
(*                                                                         *)
(* The code is sequential: functions that change struct dev_16450 and the  *)
(* event list and call each other.  They are operators from a state u to   *)
(* the next one; the record u has the names of the code.  Flag registers   *)
(* are sets of flags, buffers are sequences.  Simulate is a loop over      *)
(* events, of which RunEvent is one pass.                                  *)
(*                                                                         *)
(* Left out: VAPI (vapi_id is 0, CUart::Init), so that no character has    *)
(* error flags of its own, SCR, and the format bits of LCR.  A time unit   *)
(* stands for the steps of one call of Simulate.                           *)
(***************************************************************************)
EXTENDS Integers, SequencesExt

CONSTANTS
  UART_MAX_FIFO_LEN,     \* length of the FIFOs in 16550 mode
  Trigger,               \* values of UART_FIFO_TRIGGER
  CHECK_DELAY,           \* UART_FGETC_SLOWDOWN * UART_CLOCK_DIVIDER
  CHAR_TIMEOUT,          \* UART_CHAR_TIMEOUT
  TIME_LIMIT,            \* when Simulate sets all timers back (2^30)
  Char

ASSUME UartAssumption ==
  /\ UART_MAX_FIFO_LEN \in Nat \ {0, 1}
  /\ Trigger \subseteq Nat \ {0} /\ 1 \in Trigger
  /\ CHECK_DELAY \in Nat \ {0} /\ CHAR_TIMEOUT \in Nat \ {0}
  /\ TIME_LIMIT \in Nat \ {0}

IerFlag == {"MSI", "RLSI", "THRI", "RDI"}
Interrupt == {"RLSI", "RDI", "CTI", "THRI", "MSI"}
LsrFlag == {"RXERR", "TXSERE", "TXBUFE", "OVRRUN", "RDRDY"}
McrFlag == {"LOOP", "AUX2", "AUX1", "RTS", "DTR"}
MsrFlag == {"DCD", "RI", "DSR", "CTS", "DDCD", "TERI", "DDSR", "DCTS"}
Job     == {"tx_send", "char_clock", "send_break", "recv_char", "check_char",
            "int_cti"}

NoChar == "none"

-----------------------------------------------------------------------------
(* The scheduler (CUart::SchedAdd, SchedFindRemove).                       *)

\* The place of a new event is found by comparing the times of the others with
\* its delay, not with its time.
SchedAdd(u, job, delay) ==
  LET later == SelectInSeq(u.events, LAMBDA e : e.time > delay)
      event == [job |-> job, time |-> u.curTime + delay]
  IN  [u EXCEPT !.events =
         IF later = 0 THEN Append(@, event) ELSE InsertAt(@, later, event)]

\* The events without those of a job, in their order.
Without(events, job) ==
  LET left[n \in 0..Len(events)] ==
        IF n = 0 THEN <<>>
        ELSE IF events[n].job = job THEN left[n - 1] ELSE Append(left[n - 1], events[n])
  IN  left[Len(events)]

SchedFindRemove(u, job) == [u EXCEPT !.events = Without(@, job)]

-----------------------------------------------------------------------------
(* Interrupts.                                                             *)

\* The interrupt enable flag of an interrupt.
Enable(i) == IF i = "CTI" THEN "RDI" ELSE i

\* What iir may hold for an interrupt to be reported over it.
Overridden(i) ==
  CASE i = "MSI"  -> {"NO_INT", "MSI"}
    [] i = "THRI" -> {"NO_INT", "MSI", "THRI"}
    [] i = "CTI"  -> {"NO_INT", "MSI", "THRI", "CTI"}
    [] i = "RDI"  -> {"NO_INT", "MSI", "THRI", "CTI", "RDI"}
    [] i = "RLSI" -> {"NO_INT", "MSI", "THRI", "CTI", "RDI", "RLSI"}

\* uart_int_msi, uart_int_thri, uart_int_cti, uart_int_rdi, uart_int_rlsi
uart_int(u, i) ==
  LET v == [u EXCEPT !.ints = @ \cup {i}]
  IN  IF Enable(i) \in u.ier /\ u.iir \in Overridden(i)
      THEN [v EXCEPT !.iir = i, !.irqPending = TRUE]
      ELSE v

uart_check_rlsi(u) == IF "OVRRUN" \in u.lsr THEN uart_int(u, "RLSI") ELSE u

uart_check_rdi(u) == IF Len(u.rxbuf) >= u.trigger THEN uart_int(u, "RDI") ELSE u

Raised(u) == {i \in u.ints : Enable(i) \in u.ier}

\* [mutant] The transmitter before the receiver.
uart_next_int_ThriFirst(u) ==
  LET next == SelectInSeq(<<"RLSI", "THRI", "RDI", "CTI", "MSI">>,
                          LAMBDA i : i \in Raised(u))
  IN  IF next = 0 THEN [u EXCEPT !.iir = "NO_INT", !.irqPending = FALSE]
      ELSE uart_int(u, <<"RLSI", "THRI", "RDI", "CTI", "MSI">>[next])

uart_next_int(u) ==
  LET next == SelectInSeq(<<"RLSI", "RDI", "CTI", "THRI", "MSI">>,
                          LAMBDA i : i \in Raised(u))
  IN  IF next = 0 THEN [u EXCEPT !.iir = "NO_INT", !.irqPending = FALSE]
      ELSE uart_int(u, <<"RLSI", "RDI", "CTI", "THRI", "MSI">>[next])

uart_clear_int(u, i) ==
  LET v == [u EXCEPT !.ints = @ \ {i}]
      w == IF i = "CTI" THEN SchedFindRemove(v, "int_cti") ELSE v
  IN  IF u.iir = i THEN uart_next_int(w) ELSE w

\* In loopback mode the modem control lines are the modem status lines.  The
\* delta flags tell what has changed; RI has one for its falling edge only.
Level(u) ==
  {m \in {"DCD", "RI", "DSR", "CTS"} :
     CASE m = "DCD" -> "AUX2" \in u.mcr [] m = "RI"  -> "AUX1" \in u.mcr
       [] m = "DSR" -> "DTR" \in u.mcr  [] m = "CTS" -> "RTS" \in u.mcr}

Delta(u) ==
  LET Changed(m) == (m \in u.msr) # (m \in Level(u))
  IN  {d \in {"DDCD", "TERI", "DDSR", "DCTS"} :
         CASE d = "DDCD" -> Changed("DCD")
           [] d = "TERI" -> "RI" \in u.msr /\ "RI" \notin Level(u)
           [] d = "DDSR" -> Changed("DSR") [] d = "DCTS" -> Changed("CTS")}

uart_loopback(u) ==
  LET deltas == (u.msr \cap {"DDCD", "TERI", "DDSR", "DCTS"}) \cup Delta(u)
      v == [u EXCEPT !.msr = Level(u) \cup deltas]
  IN  IF "LOOP" \notin u.mcr THEN u
      ELSE IF deltas # {} THEN uart_int(v, "MSI") ELSE v

-----------------------------------------------------------------------------
(* The transmitter.                                                        *)

\* The next character goes to the shift register.  On an empty buffer
\* txbuf_full, which is unsigned, wraps around.
uart_tx_send(u) ==
  IF u.txbuf = <<>> THEN [u EXCEPT !.wrapped = TRUE]
  ELSE LET v == [u EXCEPT !.txser = Head(u.txbuf), !.txbuf = Tail(@),
                          !.lsr = @ \ {"TXSERE"}]
           w == IF u.lcr.sbc THEN SchedAdd(v, "send_break", 0)
                ELSE SchedAdd(v, "char_clock", u.char_clks)
       IN  IF w.txbuf # <<>> THEN w
           ELSE uart_int([w EXCEPT !.lsr = @ \cup {"TXBUFE"}], "THRI")

\* The character goes to the loopback register, or to the channel.
send_char(u) == IF "LOOP" \in u.mcr THEN [u EXCEPT !.loopback = u.txser] ELSE u

\* [mutant] The shift register stays busy.
NextChar_Busy(u) == IF u.txbuf = <<>> THEN u ELSE uart_tx_send(u)

\* The end of uart_char_clock and of uart_send_break.
NextChar(u) ==
  IF u.txbuf = <<>> THEN [u EXCEPT !.lsr = @ \cup {"TXSERE"}]
  ELSE uart_tx_send(u)

uart_char_clock(u) == NextChar(send_char(u))
uart_send_break(u) == NextChar(u)

-----------------------------------------------------------------------------
(* The receiver.                                                           *)

uart_add_char(u, ch) ==
  LET v == SchedAdd(uart_clear_int([u EXCEPT !.lsr = @ \cup {"RDRDY"}], "CTI"),
                    "int_cti", CHAR_TIMEOUT * u.char_clks)
      w == IF Len(u.rxbuf) + 1 > u.fifo_len
           THEN uart_int([v EXCEPT !.lsr = @ \cup {"OVRRUN", "RXERR"}], "RLSI")
           ELSE LET x == [v EXCEPT !.rxbuf = Append(@, ch)]
                IN  IF u.rxbuf = <<>> THEN uart_check_rlsi(x) ELSE x
  IN  uart_check_rdi(w)

\* A character has been received; in loopback mode the next one follows, taken
\* from the loopback register.
uart_recv_char(u) ==
  LET v == IF "LOOP" \in u.mcr
           THEN SchedAdd([u EXCEPT !.rxser = u.loopback], "recv_char", u.char_clks)
           ELSE SchedAdd(u, "check_char", CHECK_DELAY)
  IN  uart_add_char(v, u.rxser)

\* channel_read returns a character, end of file, or an error, as it does for
\* an input that has nothing to read yet (O_NONBLOCK, channel_init).
uart_check_char(u, input) ==
  CASE input = "eof"   -> SchedAdd(u, "check_char", CHECK_DELAY)
    [] input = "error" -> u
    [] OTHER -> SchedAdd([u EXCEPT !.rxser = input], "recv_char", u.char_clks)

-----------------------------------------------------------------------------
(* The registers.                                                          *)

\* Clocks per character, in time units, of a divisor whose bytes have one bit.
char_clks(u) == 2 * u.dlh + u.dll

\* [mutant] The transmitter is started although it is running.
WriteTxbuf_Running(u, value) ==
  LET v == [u EXCEPT !.lsr = @ \ {"TXBUFE"}]
      w == IF Len(u.txbuf) = u.fifo_len THEN [v EXCEPT !.txbuf[1] = value]
           ELSE LET x == [v EXCEPT !.txbuf = Append(@, value)]
                IN  IF u.txbuf = <<>> THEN SchedAdd(x, "tx_send", 0) ELSE x
  IN  uart_clear_int(w, "THRI")

WriteTxbuf(u, value) ==
  LET v == [u EXCEPT !.lsr = @ \ {"TXBUFE"}]
      w == IF Len(u.txbuf) = u.fifo_len
           THEN [v EXCEPT !.txbuf[1] = value]    \* the head is the tail
           ELSE LET x == [v EXCEPT !.txbuf = Append(@, value)]
                IN  IF u.txbuf = <<>> /\ "TXSERE" \in u.lsr
                    THEN SchedAdd(x, "tx_send", 0) ELSE x
  IN  uart_clear_int(w, "THRI")

\* Changing the mode resets both FIFOs.
WriteFcr(u, value) ==
  LET len   == IF value.fie THEN UART_MAX_FIFO_LEN ELSE 1
      reset == value.reset \cup (IF len # u.fifo_len THEN {"rx", "tx"} ELSE {})
      v == [u EXCEPT !.trigger = value.trigger, !.fifo_len = len]
      w == IF "tx" \notin reset THEN v
           ELSE LET x == [v EXCEPT !.txbuf = <<>>, !.lsr = @ \cup {"TXBUFE"}]
                IN  SchedFindRemove(IF value.fie THEN uart_int(x, "THRI") ELSE x,
                                    "tx_send")
  IN  IF "rx" \notin reset THEN w
      ELSE uart_clear_int(uart_clear_int(
             [w EXCEPT !.rxbuf = <<>>, !.lsr = @ \ {"RDRDY"}], "RDI"), "CTI")

\* Setting the break flag cuts off the character being sent.
SetBreak(u, sbc) ==
  LET busy == "TXSERE" \notin u.lsr
  IN  IF sbc /\ ~u.lcr.sbc /\ busy
      THEN SchedAdd(SchedFindRemove(u, "char_clock"), "send_break", 0)
      ELSE IF u.lcr.sbc /\ ~sbc /\ busy
      THEN SchedFindRemove(SchedAdd(u, "tx_send", 0), "char_clock")
      ELSE u

WriteLcr(u, value) ==
  [SetBreak(u, value.sbc) EXCEPT !.lcr = value, !.char_clks = char_clks(u)]

\* DLAB selects DLL and DLH or the registers that share their addresses.
Addressed(u, reg) == /\ reg \in {"DLL", "DLH"} => u.lcr.dlab
                     /\ reg \in {"TXBUF", "RXBUF", "IER"} => ~u.lcr.dlab

uart_write_byte(u, reg, value) ==
  CASE reg = "DLL" -> LET v == [u EXCEPT !.dll = value]
                      IN  [v EXCEPT !.char_clks = char_clks(v)]
    [] reg = "DLH" -> [u EXCEPT !.dlh = value]
    [] reg = "TXBUF" -> WriteTxbuf(u, value)
    [] reg = "IER" -> uart_next_int([u EXCEPT !.ier = value])
    [] reg = "FCR" -> WriteFcr(u, value)
    [] reg = "LCR" -> WriteLcr(u, value)
    [] reg = "MCR" -> uart_loopback([u EXCEPT !.mcr = value])

\* [mutant] Data ready as before the read.
ReadRxbuf_ReadyBefore(u) ==
  LET v == [u EXCEPT !.rxbuf = IF @ = <<>> THEN @ ELSE Tail(@)]
      w == uart_clear_int(uart_clear_int(v, "RDI"), "CTI")
  IN  IF u.rxbuf = <<>> THEN [w EXCEPT !.lsr = @ \ {"RDRDY"}]
      ELSE uart_check_rdi(uart_check_rlsi(
             SchedAdd([w EXCEPT !.lsr = @ \cup {"RDRDY"}],
                      "int_cti", CHAR_TIMEOUT * u.char_clks)))

\* [mutant] No timeout for the characters left.
ReadRxbuf_NoTimeout(u) ==
  LET v == [u EXCEPT !.rxbuf = IF @ = <<>> THEN @ ELSE Tail(@)]
      w == uart_clear_int(uart_clear_int(v, "RDI"), "CTI")
  IN  IF w.rxbuf = <<>> THEN [w EXCEPT !.lsr = @ \ {"RDRDY"}]
      ELSE uart_check_rdi(uart_check_rlsi([w EXCEPT !.lsr = @ \cup {"RDRDY"}]))

ReadRxbuf(u) ==
  LET v == [u EXCEPT !.rxbuf = IF @ = <<>> THEN @ ELSE Tail(@)]
      w == uart_clear_int(uart_clear_int(v, "RDI"), "CTI")
  IN  IF w.rxbuf = <<>> THEN [w EXCEPT !.lsr = @ \ {"RDRDY"}]
      ELSE uart_check_rdi(uart_check_rlsi(
             SchedAdd([w EXCEPT !.lsr = @ \cup {"RDRDY"}],
                      "int_cti", CHAR_TIMEOUT * u.char_clks)))

\* The state after a read; reading the other registers changes nothing.
uart_read_byte(u, reg) ==
  CASE reg = "RXBUF" -> ReadRxbuf(u)
    [] reg = "IIR" -> IF u.iir = "THRI" THEN uart_clear_int(u, "THRI") ELSE u
    [] reg = "LSR" -> uart_clear_int([u EXCEPT !.lsr = @ \ {"OVRRUN", "RXERR"}],
                                     "RLSI")
    [] reg = "MSR" -> uart_loopback(uart_clear_int([u EXCEPT !.msr = {}], "MSI"))
    [] OTHER -> u

-----------------------------------------------------------------------------
(* Time.                                                                   *)

\* Simulate: time goes on; now and then all timers are set back.  An event that
\* was due before that is due, whatever its time.
Advance(u) ==
  LET back == u.curTime >= TIME_LIMIT
      Back(e) == [e EXCEPT !.time = IF e.time < TIME_LIMIT THEN -1 ELSE e.time - TIME_LIMIT]
  IN  IF back
      THEN [u EXCEPT !.curTime = @ - TIME_LIMIT + 1,
                     !.events = [n \in DOMAIN @ |-> Back(@[n])]]
      ELSE [u EXCEPT !.curTime = @ + 1]

\* The loop of Simulate goes on while this holds.
Due(u) == u.events # <<>> /\ Head(u.events).time <= u.curTime

\* One pass of the loop.
RunEvent(u, input) ==
  LET v == [u EXCEPT !.events = Tail(@)]
      job == Head(u.events).job
  IN  CASE job = "tx_send"    -> uart_tx_send(v)
        [] job = "char_clock" -> uart_char_clock(v)
        [] job = "send_break" -> uart_send_break(v)
        [] job = "recv_char"  -> uart_recv_char(v)
        [] job = "check_char" -> uart_check_char(v, input)
        [] job = "int_cti"    -> uart_int(v, "CTI")

\* uart_reset
UartReset ==
  SchedAdd([txbuf |-> <<>>, rxbuf |-> <<>>, dll |-> 0, dlh |-> 0, ier |-> {},
            iir |-> "NO_INT", trigger |-> 1, lcr |-> [dlab |-> FALSE, sbc |-> FALSE],
            mcr |-> {}, lsr |-> {"TXBUFE", "TXSERE"}, msr |-> {},
            txser |-> NoChar, rxser |-> NoChar, loopback |-> NoChar, ints |-> {},
            char_clks |-> 0, fifo_len |-> 1, irqPending |-> FALSE,
            curTime |-> 0, events |-> <<>>, wrapped |-> FALSE],
           "check_char", CHECK_DELAY)

=============================================================================
