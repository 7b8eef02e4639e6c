------------------------------- MODULE MCGdb --------------------------------
(***************************************************************************)
(* An instance of the GDB server: a program of three instructions, two of  *)
(* which may get breakpoints.  The algorithms below it, one actor each,    *)
(* are evaluated on all small inputs.                                      *)
(***************************************************************************)
EXTENDS GdbSystem, JtagSC, MemBin

CONSTANT BufSize    \* pkt->getBufSize ()

SomeRequests ==
  {r \in Requests : /\ r.kind \in {"z", "Z"} => r.addr # 1
                    /\ r.kind \in {"P", "c", "M"} => r.addr \in {Flushed, 2}
                    /\ r.kind = "s" => r.addr = Flushed}

\* A reset is long enough for every state of the TAP, and the buffer of a packet
\* holds at least the empty one.
ASSUME LinkAssumption ==
  /\ TAP_RESET_CYCLES \in Nat /\ TAP_RESET_CYCLES >= 5
  /\ BufSize \in Nat /\ BufSize >= 2

\* After a scan there is always the next one at once: JtagSC loses track otherwise.
ASSUME ScanAfterScan == IdleAfterScanLoses

Packet == INSTANCE RspPacket

Matchpoints == INSTANCE HwMatchpoints

-----------------------------------------------------------------------------
(* Properties of the algorithms.                                           *)

\* A binary write does what it was asked for exactly if it is one of whole words
\* (rspWriteMemBin); here with up to eight bytes and a memory of eight words.
BinaryWrites == \A old \in {100, 101} \ {Junk} : WholeWordsOnly(0..31, old)

\* Packets of up to three characters arrive as they were sent, and one that is too
\* long is neither acknowledged nor refused (putPkt, getPkt).
PacketsDelivered ==
  \A data \in UNION {[1..n -> {36, 35, 125, 1, 65}] : n \in 0..3} : Packet!Delivered(data)

\* Wherever a packet is cut short the one behind it gets through, the second time
\* at the latest, but for a checksum that is right by chance (getPkt).
CutPacketsHeal ==
  \A cut, data \in UNION {[1..n -> {36, 1, 239}] : n \in 0..2} :
    Packet!Fits(data) => Packet!CutHeals(cut, data)

\* No hardware matchpoint that has been inserted can be removed, with the registers
\* or without (rspInsertMatchpoint, rspRemoveMatchpoint).
HwMatchpointsStay == Matchpoints!NeverRemoved

\* What lies below the requests: bits, packets, and the writes and matchpoints that
\* do not go through the server's table (TapStateMachine, TapAction, RspConnection).
LinkRight ==
  /\ TapMapOptimal /\ ResetRight /\ ScanRight
  /\ PacketsDelivered /\ CutPacketsHeal
  /\ BinaryWrites /\ HwMatchpointsStay

\* When the server takes a request from the connection and carries it out over
\* JTAG it can rely on that (rspClientRequest).
LinkCarries == server.pc = "request" => LinkRight

=============================================================================
