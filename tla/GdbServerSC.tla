---------------------------- MODULE GdbServerSC -----------------------------
(***************************************************************************)
(* The GDB server (bench/sysc/src/GdbServerSC.cpp): the thread rspServer   *)
(* with its requests, the matchpoint table (MpHash.cpp) and the exchange   *)
(* of packets with the client (RspConnection.cpp).                         *)
(*                                                                         *)
(* A step ends where the thread gives way to the processor: at the reads   *)
(* of RISCOP while it polls, before a stall, while it waits for the client.*)
(* A request is served in one step, for the processor stands still until   *)
(* the request resumes it.  Packets travel over TCP, so none is lost or    *)
(* damaged; they are the elements of a stream, like the characters between *)
(* them.                                                                   *)
(***************************************************************************)
EXTENDS DebugUnitSC, Sequences, SequencesExt

VARIABLES
  server,        \* where rspServer is, what it looks after
  unit, cpu,     \* the debug unit and the processor
  mpHash,        \* address -> the instruction a breakpoint stands for
  toServer,      \* the stream from the client
  toClient,      \* the stream to the client
  closed,        \* the client has closed the connection
  monitorPipe    \* what the OR1200 monitor has asked for

serverVars == <<server, unit, cpu, mpHash, toServer, toClient, closed, monitorPipe>>

NoBreakpoint == "none"

Token(kind, addr) == [kind |-> kind, addr |-> addr]

Plus == Token("+", Flushed)
Etx  == Token("ETX", Flushed)

NoPacket == Token("none", Flushed)

\* Without an address the field is Flushed.
Requests == [kind : {"?", "c", "s", "D", "k", "p", "R"}, addr : {Flushed}] \cup
            [kind : {"c", "s", "P", "M", "z", "Z"}, addr : Addr]

IsRequest(token) == token.kind \notin {"+", "ETX"}

Both == [unit |-> unit, cpu |-> cpu]

DebugUnitIs(s) == unit' = s.unit /\ cpu' = s.cpu

At(label) == server.pc = label

-----------------------------------------------------------------------------
(* RspConnection.                                                          *)

\* putPkt: the packet goes out, then the thread waits for a character.
putPkt(stream, packet) ==
  /\ toClient' = Append(stream, packet)
  /\ server' = [server EXCEPT !.pc = "ack", !.pkt = packet]

\* rspReportException: a stop reply with the signal at hand.
StopReply(sigval) == Token("stop", sigval)

Loop(targetStopped) == IF targetStopped THEN "request" ELSE "poll"

PacketDone ==
  server' = [server EXCEPT
    !.pkt = NoPacket,
    !.pc = IF server.pkt.kind = "detached" THEN "end" ELSE Loop(server.targetStopped)]

\* Whatever is not '+' has the packet sent again.
AwaitAck ==
  /\ At("ack") /\ toServer # <<>>
  /\ toServer' = Tail(toServer)
  /\ IF Head(toServer) = Plus THEN PacketDone /\ UNCHANGED toClient
     ELSE putPkt(toClient, server.pkt)
  /\ UNCHANGED <<unit, cpu, mpHash, closed, monitorPipe>>

\* The caller does not look at the failure of putPkt.
AckFails ==
  /\ At("ack") /\ toServer = <<>> /\ closed
  /\ PacketDone
  /\ UNCHANGED <<unit, cpu, mpHash, toServer, toClient, closed, monitorPipe>>

-----------------------------------------------------------------------------
(* Polling the running target.                                             *)

\* checkMonitorPipe comes first.
MonitorAsks ==
  /\ At("poll") /\ monitorPipe = "asked"
  /\ server' = [server EXCEPT !.pc = "stall", !.caller = "monitor"]
  /\ UNCHANGED <<unit, cpu, mpHash, toServer, toClient, closed, monitorPipe>>

\* A breakpoint or the end of a single step, the two reasons a target has to
\* stop, are both a trap (rspCheckForException).
rspCheckForException ==
  /\ At("poll") /\ monitorPipe # "asked"
  /\ DebugUnitIs(stallNoted(Both))
  /\ server' = [server EXCEPT !.pc = "check",
                              !.rsp_sigval = IF isStalled(Both) THEN "TRAP" ELSE @]
  /\ UNCHANGED <<mpHash, toServer, toClient, closed, monitorPipe>>

\* Mutant: the breakpoint is looked for where the target would go on.
BackUp_ByNpc(s) ==
  IF mpHash[readNpc(s)] # NoBreakpoint /\ server.rsp_sigval = "TRAP"
  THEN writeNpc(s, s.cpu.ppc) ELSE s

\* After a breakpoint the target has to go back to the instruction it replaces.
BackUp(s) ==
  IF mpHash[s.cpu.ppc] # NoBreakpoint /\ server.rsp_sigval = "TRAP"
  THEN writeNpc(s, s.cpu.ppc) ELSE s

TargetHasStopped ==
  /\ At("check") /\ isStalled(Both)
  /\ DebugUnitIs(BackUp(stallNoted(Both)))
  /\ toClient' = Append(toClient, StopReply(server.rsp_sigval))
  /\ server' = [server EXCEPT !.pc = "ack", !.pkt = StopReply(server.rsp_sigval),
                              !.targetStopped = TRUE]
  /\ UNCHANGED <<mpHash, toServer, closed, monitorPipe>>

TargetIsRunning ==
  /\ At("check") /\ ~isStalled(Both)
  /\ server' = [server EXCEPT !.pc = "peek"]
  /\ UNCHANGED <<unit, cpu, mpHash, toServer, toClient, closed, monitorPipe>>

\* The interrupt character is taken from the stream, anything else stays.
rspSocketPeek ==
  /\ At("peek")
  /\ IF toServer # <<>> /\ Head(toServer) = Etx
     THEN /\ toServer' = Tail(toServer)
          /\ server' = [server EXCEPT !.pc = "stall", !.caller = "client"]
     ELSE /\ server' = [server EXCEPT !.pc = "poll"]
          /\ UNCHANGED toServer
  /\ UNCHANGED <<unit, cpu, mpHash, toClient, closed, monitorPipe>>

\* The scan that stalls the processor takes a hundred clocks of JTAG, in which the
\* processor refills the pipeline that a write of NPC has flushed.
PipelineRefilled == ~cpu.written

\* rspInterrupt and checkMonitorPipe.
StallTarget ==
  /\ At("stall") /\ PipelineRefilled
  /\ DebugUnitIs(stall(Both))
  /\ toClient' = Append(toClient, StopReply("NONE"))
  /\ server' = [server EXCEPT !.pc = "ack", !.pkt = StopReply("NONE"),
                              !.rsp_sigval = "NONE", !.targetStopped = TRUE,
                              !.caller = "none"]
  /\ monitorPipe' = IF server.caller = "monitor" THEN "idle" ELSE monitorPipe
  /\ UNCHANGED <<mpHash, toServer, closed>>

-----------------------------------------------------------------------------
(* Serving a request (getPkt, rspClientRequest).                           *)

\* Mutant: what is not a packet is not skipped.
RequestPos_NoSkip == IF toServer # <<>> /\ IsRequest(Head(toServer)) THEN 1 ELSE 0

RequestPos == SelectInSeq(toServer, IsRequest)

\* getPkt skips what is not a packet and acknowledges the packet.
Serves(kind) ==
  /\ At("request") /\ RequestPos # 0
  /\ toServer[RequestPos].kind = kind
  /\ toServer' = SubSeq(toServer, RequestPos + 1, Len(toServer))
  /\ UNCHANGED <<closed, monitorPipe>>

RequestAddr == toServer[RequestPos].addr

Acked == Append(toClient, Plus)

Replies(kind, value) == putPkt(Acked, Token(kind, value))

NoReply == toClient' = Acked /\ UNCHANGED server

\* The target goes on where the packet says, otherwise at its NPC.
ResumeAddr == IF RequestAddr = Flushed THEN readNpc(Both) ELSE RequestAddr

Resumes(singleStep) ==
  /\ DebugUnitIs(unstall(setSingleStep(clearDrr(writeNpc(Both, ResumeAddr)), singleStep)))
  /\ toClient' = Acked
  /\ server' = [server EXCEPT !.pc = "poll", !.targetStopped = FALSE]
  /\ UNCHANGED mpHash

rspContinue == Serves("c") /\ Resumes(FALSE)
rspStep     == Serves("s") /\ Resumes(TRUE)

LastSignal == Serves("?") /\ Replies("stop", server.rsp_sigval) /\ UNCHANGED <<unit, cpu, mpHash>>

\* The client goes, the target stays stalled and the simulation ends.
Detach == Serves("D") /\ Replies("detached", Flushed) /\ UNCHANGED <<unit, cpu, mpHash>>

\* Kill, and the requests that are ignored, have no reply.
Ignored == Serves("k") /\ NoReply /\ UNCHANGED <<unit, cpu, mpHash>>

\* rspReadReg and rspReadAllRegs: NPC comes with the registers.
rspReadReg ==
  /\ Serves("p")
  /\ Replies("npc", readNpc(Both))
  /\ DebugUnitIs(npcRead(Both))
  /\ UNCHANGED mpHash

\* rspWriteReg and rspWriteAllRegs.
rspWriteReg ==
  /\ Serves("P")
  /\ Replies("OK", Flushed)
  /\ DebugUnitIs(writeNpc(Both, RequestAddr))
  /\ UNCHANGED mpHash

\* The reset vector is the first address; there is no reply.
rspRestart == Serves("R") /\ NoReply /\ DebugUnitIs(writeNpc(Both, 1)) /\ UNCHANGED mpHash

rspWriteMem ==
  /\ Serves("M")
  /\ Replies("OK", Flushed)
  /\ DebugUnitIs(writeMem(Both, RequestAddr, "written"))
  /\ UNCHANGED mpHash

\* Mutant: an entry that is there is overwritten.
HashAdd_Overwrite(addr, insn) == [mpHash EXCEPT ![addr] = insn]

\* MpHash::add keeps an entry that is there.
HashAdd(addr, insn) ==
  IF mpHash[addr] = NoBreakpoint THEN [mpHash EXCEPT ![addr] = insn] ELSE mpHash

rspInsertMatchpoint ==
  /\ Serves("Z")
  /\ Replies("OK", Flushed)
  /\ mpHash' = HashAdd(RequestAddr, cpu.mem[RequestAddr])
  /\ DebugUnitIs(writeMem(Both, RequestAddr, "trap"))

\* Mutant: the entry stays.
rspRemoveMatchpoint_KeepEntry ==
  /\ Serves("z")
  /\ Replies("OK", Flushed)
  /\ IF mpHash[RequestAddr] = NoBreakpoint THEN UNCHANGED <<unit, cpu>>
     ELSE DebugUnitIs(writeMem(Both, RequestAddr, mpHash[RequestAddr]))
  /\ UNCHANGED mpHash

rspRemoveMatchpoint ==
  /\ Serves("z")
  /\ Replies("OK", Flushed)
  /\ IF mpHash[RequestAddr] = NoBreakpoint THEN UNCHANGED <<unit, cpu, mpHash>>
     ELSE /\ DebugUnitIs(writeMem(Both, RequestAddr, mpHash[RequestAddr]))
          /\ mpHash' = [mpHash EXCEPT ![RequestAddr] = NoBreakpoint]

rspClientRequest ==
  \/ rspContinue \/ rspStep
  \/ LastSignal \/ Detach \/ Ignored
  \/ rspReadReg \/ rspWriteReg \/ rspRestart
  \/ rspWriteMem
  \/ rspInsertMatchpoint \/ rspRemoveMatchpoint

\* The end of the stream closes the connection, and that ends the simulation.
rspClose ==
  /\ At("request") /\ RequestPos = 0 /\ closed
  /\ server' = [server EXCEPT !.pc = "end"]
  /\ UNCHANGED <<unit, cpu, mpHash, toServer, toClient, closed, monitorPipe>>

rspServer ==
  \/ MonitorAsks \/ rspCheckForException
  \/ TargetHasStopped \/ TargetIsRunning
  \/ rspSocketPeek \/ StallTarget
  \/ AwaitAck \/ AckFails
  \/ rspClientRequest \/ rspClose

\* The client has connected, and the target was stalled wherever it was.
ServerInit ==
  /\ server = [pc |-> "request", targetStopped |-> TRUE, rsp_sigval |-> "NONE",
               caller |-> "none", pkt |-> NoPacket]
  /\ unit = [stallState |-> "STALLED", npcCacheIsValid |-> FALSE, npcCachedValue |-> Flushed]
  /\ \E a \in Addr :
       cpu = [stalled |-> TRUE, npc |-> NextAddr(a), written |-> FALSE, ppc |-> a, drr |-> "none",
              singleStep |-> FALSE, mem |-> [b \in Addr |-> "loaded"]]
  /\ mpHash = [a \in Addr |-> NoBreakpoint]
  /\ toServer = <<>> /\ toClient = <<>>
  /\ closed = FALSE /\ monitorPipe = "idle"

=============================================================================
