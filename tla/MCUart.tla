------------------------------- MODULE MCUart -------------------------------
(***************************************************************************)
(* Instances of the peripherals: what drivers do with the UART.            *)
(***************************************************************************)
EXTENDS MPeripherals

Byte(reg, value) == <<[reg |-> reg, value |-> value]>>

Writes(reg, values) == {Byte(reg, value) : value \in values}

Reads(regs) == {Byte(reg, "any") : reg \in regs}

Fcr(fie, reset, trigger) == [fie |-> fie, reset |-> reset, trigger |-> trigger]
Lcr(dlab, sbc) == [dlab |-> dlab, sbc |-> sbc]

\* Sending, with FIFO resets and breaks.
Sending ==
  [writes |-> Writes("TXBUF", {"a"}) \cup Writes("IER", {{}, {"THRI"}})
              \cup Writes("FCR", {Fcr(TRUE, {}, 1), Fcr(TRUE, {"tx"}, 1), Fcr(FALSE, {}, 1)})
              \cup Writes("LCR", {Lcr(FALSE, FALSE), Lcr(FALSE, TRUE), Lcr(TRUE, FALSE)})
              \cup Writes("DLL", {1}),
   reads |-> Reads({"IIR"}), input |-> {"error"}]

\* Receiving, interrupts enabled and disabled; the read of a whole word takes a
\* character and clears interrupts at once.
Receiving ==
  [writes |-> Writes("IER", {{}, {"RDI"}, {"RDI", "RLSI"}})
              \cup Writes("FCR", {Fcr(TRUE, {}, 2), Fcr(TRUE, {"rx"}, 1), Fcr(FALSE, {}, 2)}),
   reads |-> Reads({"LSR", "IIR", "RXBUF"}) \cup
             {Byte("RXBUF", "any") \o Byte("IER", "any") \o Byte("IIR", "any") \o Byte("LCR", "any")},
   input |-> {"a", "eof"}]

\* Both at once, with all interrupts.
Both ==
  [writes |-> Writes("TXBUF", {"a"}) \cup Writes("IER", {{"THRI"}, {"RDI", "THRI"}})
              \cup Writes("LCR", {Lcr(TRUE, FALSE), Lcr(FALSE, FALSE)}) \cup Writes("DLL", {1}),
   reads |-> Reads({"IIR", "RXBUF"}), input |-> {"a", "error"}]

\* Loopback: the transmitter is connected to the receiver, the modem control
\* lines to the modem status lines.
Loopback ==
  [writes |-> Writes("TXBUF", {"a"}) \cup Writes("IER", {{}, {"MSI", "RDI"}})
              \cup Writes("LCR", {Lcr(TRUE, FALSE), Lcr(FALSE, FALSE)}) \cup Writes("DLL", {1})
              \cup Writes("MCR", {{}, {"LOOP", "AUX1"}, {"LOOP", "RTS"}}),
   reads |-> Reads({"RXBUF", "MSR"}), input |-> {"eof"}]

\* The divisor, in either order.
Divisor ==
  [writes |-> Writes("LCR", {Lcr(TRUE, FALSE), Lcr(FALSE, FALSE)}) \cup Writes("DLL", {0, 1})
              \cup Writes("DLH", {0, 1}) \cup Writes("TXBUF", {"a"}),
   reads |-> {}, input |-> {"error"}]

\* Receive and transmit interrupts, both always enabled; the driver reads what has
\* been received.
ReceiveAndSend ==
  [writes |-> Writes("TXBUF", {"a"}) \cup Writes("IER", {{"RDI", "THRI"}}),
   reads |-> Reads({"RXBUF"}), input |-> {"a"}]

StaleWorkloads == {ReceiveAndSend}

AllWorkloads == {Sending, Receiving, Both, Loopback, Divisor}

=============================================================================
