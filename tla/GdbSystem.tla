----------------------------- MODULE GdbSystem ------------------------------
(***************************************************************************)
(* The GDB server with the target it controls and the client it serves.    *)
(*                                                                         *)
(* The client is GDB: it has one request at a time, waits for the          *)
(* acknowledgement and the reply, acknowledges every packet it reads, and  *)
(* sends the interrupt character only while it waits for a stop reply.  A  *)
(* packet that comes before the acknowledgement of its request is an old   *)
(* one, which it acknowledges and forgets.  It does not write where it has *)
(* a breakpoint.                                                           *)
(***************************************************************************)
EXTENDS GdbServerSC

CONSTANT
  Sends      \* the requests the client makes

ASSUME SendsAssumption == Sends \subseteq Requests

VARIABLES
  gdb,       \* what the client waits for, since which request
  expected,  \* the address the client expects the target to go on at
  written    \* what the client takes the memory to hold

vars == <<serverVars, gdb, expected, written>>

-----------------------------------------------------------------------------
(* The client.                                                             *)

Client(mode, asked) == [mode |-> mode, asked |-> asked, interrupted |-> FALSE]

Waits(kind) == CASE kind \in {"c", "s"} -> "stop"
                 [] kind \in {"k", "R"} -> "idle"
                 [] OTHER               -> "reply"

Send ==
  /\ gdb.mode = "idle"
  /\ \E r \in Sends :
       /\ r.kind = "M" => mpHash[r.addr] = NoBreakpoint
       /\ toServer' = Append(toServer, r)
       /\ gdb' = Client("ack", r.kind)
       /\ expected' = CASE r.kind = "R" -> 1
                        [] r.kind \in {"P", "c", "s"} /\ r.addr \in Addr -> r.addr
                        [] OTHER -> expected
       /\ written' = IF r.kind = "M" THEN [written EXCEPT ![r.addr] = "written"] ELSE written
  /\ UNCHANGED <<server, unit, cpu, mpHash, toClient, closed, monitorPipe>>

Interrupt ==
  /\ gdb.mode = "stop" /\ ~gdb.interrupted
  /\ toServer' = Append(toServer, Etx)
  /\ gdb' = [gdb EXCEPT !.interrupted = TRUE]
  /\ UNCHANGED <<server, unit, cpu, mpHash, toClient, closed, monitorPipe, expected, written>>

ReceiveAck ==
  /\ toClient # <<>> /\ Head(toClient).kind = "+" /\ gdb.mode # "gone"
  /\ toClient' = Tail(toClient)
  /\ gdb' = IF gdb.mode = "ack" THEN Client(Waits(gdb.asked), "none") ELSE gdb
  /\ UNCHANGED <<server, unit, cpu, mpHash, toServer, closed, monitorPipe, expected, written>>

ReceivePacket ==
  /\ toClient # <<>> /\ Head(toClient).kind # "+" /\ gdb.mode \in {"ack", "reply", "stop"}
  /\ toClient' = Tail(toClient)
  /\ toServer' = Append(toServer, Plus)
  /\ gdb' = IF gdb.mode = "ack" THEN gdb
            ELSE Client(IF Head(toClient).kind = "detached" THEN "gone" ELSE "idle", "none")
  /\ closed' = (gdb'.mode = "gone")
  /\ UNCHANGED <<server, unit, cpu, mpHash, monitorPipe, expected, written>>

Disconnect ==
  /\ gdb.mode # "gone"
  /\ gdb' = Client("gone", "none")
  /\ closed' = TRUE
  /\ UNCHANGED <<server, unit, cpu, mpHash, toServer, toClient, monitorPipe, expected, written>>

Receive == ReceiveAck \/ ReceivePacket

-----------------------------------------------------------------------------
(* The target and the OR1200 monitor that watches it.                      *)

Target ==
  /\ ~cpu.stalled
  /\ cpu' = Execute(cpu)
  /\ expected' = IF cpu.mem[cpu.npc] = "trap" THEN cpu.npc ELSE NextAddr(cpu.npc)
  /\ UNCHANGED <<server, unit, mpHash, toServer, toClient, closed, monitorPipe, gdb, written>>

\* The program seems to have crashed; the monitor asks once and then waits.
Monitor ==
  /\ ~cpu.stalled /\ monitorPipe = "idle"
  /\ monitorPipe' = "asked"
  /\ UNCHANGED <<server, unit, cpu, mpHash, toServer, toClient, closed, gdb, expected, written>>

-----------------------------------------------------------------------------

Server == rspServer /\ UNCHANGED <<gdb, expected, written>>

\* sc_stop ends the simulation.
Ended == At("end") /\ UNCHANGED vars

Init ==
  /\ ServerInit
  /\ gdb = Client("idle", "none")
  /\ expected = cpu.npc
  /\ written = [a \in Addr |-> "loaded"]

Next == Server \/ Send \/ Interrupt \/ Receive \/ Disconnect \/ Target \/ Monitor \/ Ended

\* The simulation goes on: the thread and the processor are clocked processes.
\* The client reads what it waits for.
Spec == Init /\ [][Next]_vars /\ WF_vars(Server) /\ WF_vars(Receive) /\ WF_vars(Target)

-----------------------------------------------------------------------------
(* Properties.                                                             *)

Tokens == {"+", "ETX", "stop", "OK", "npc", "detached"}

\* The processor, the debug unit, the streams and their ends are what their
\* declarations say, and no stream grows without bound.
TypeOK ==
  /\ unit \in Unit /\ cpu \in Cpu
  /\ mpHash \in [Addr -> (Insn \ {"trap"}) \cup {NoBreakpoint}]
  /\ server.pc \in {"request", "poll", "check", "peek", "stall", "ack", "end"}
  /\ server.targetStopped \in BOOLEAN /\ server.rsp_sigval \in {"NONE", "TRAP"}
  /\ Range(toServer) \subseteq Sends \cup {Plus, Etx} /\ Len(toServer) <= 4
  /\ {toClient[n].kind : n \in DOMAIN toClient} \subseteq Tokens /\ Len(toClient) <= 4
  /\ gdb.mode \in {"idle", "ack", "reply", "stop", "gone"}
  /\ monitorPipe \in {"idle", "asked"}

\* What the server takes for stopped is stalled: it never reads registers, sets
\* breakpoints or reports a stop while the processor runs (isStalled trusts
\* stallState, rspServer trusts targetStopped).
StoppedIsStalled ==
  /\ unit.stallState = "STALLED" => cpu.stalled
  /\ server.targetStopped => unit.stallState = "STALLED"

\* As long as the target is stopped its next program counter is known, although
\* the hardware reads 0 once it is written: NPC is cached before it can be lost,
\* and the cache is never behind (readSpr, writeSpr, unstall, writeNpc).
NpcKnown ==
  unit.stallState = "STALLED" => readNpc(Both) = cpu.npc

\* A stopped target is stopped, and where it is to go on is known.
TargetKnown == StoppedIsStalled /\ NpcKnown

\* Between requests memory holds what the client put there, and traps at its
\* breakpoints and nowhere else, whatever is inserted or removed twice
\* (rspInsertMatchpoint, rspRemoveMatchpoint, MpHash::add).
BreakpointsExact ==
  gdb.mode = "idle" =>
    \A a \in Addr :
      IF mpHash[a] = NoBreakpoint THEN cpu.mem[a] = written[a]
      ELSE cpu.mem[a] = "trap" /\ mpHash[a] = written[a]

\* After a stop with signal TRAP the target goes on with the very instruction that
\* comes next, the one under the breakpoint included, however server, processor
\* and interrupts interleave (rspServer).  The other stops, those the server makes
\* itself, may skip the instruction under a breakpoint the target hits meanwhile.
TrapStopExact ==
  gdb.mode = "idle" /\ server.targetStopped /\ server.rsp_sigval = "TRAP" => cpu.npc = expected

\* Every request but those to resume is acknowledged and, if it has a reply,
\* answered, old packets and acknowledgements in the streams or not.
RequestsAnswered == gdb.mode \in {"ack", "reply"} ~> gdb.mode \in {"idle", "stop", "gone"}

\* A stop of the target is always reported to the client that waits for it.
StopReported == gdb.mode = "stop" /\ cpu.stalled ~> gdb.mode # "stop"

\* An interrupt that is next in the stream stops the target and is answered.
InterruptNoticed ==
  gdb.mode = "stop" /\ toServer # <<>> /\ Head(toServer) = Etx ~> gdb.mode # "stop"

\* Whoever stops the target, its trap, the monitor or the client: the client hears
\* of it (rspServer, rspReportException).
StopsReported == StopReported /\ InterruptNoticed

=============================================================================
