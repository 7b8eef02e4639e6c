----------------------------- MODULE GdbProofs ------------------------------
(***************************************************************************)
(* Proofs about the GDB server, for programs of any length and clients     *)
(* that make any requests: what the server takes for stopped is stalled,   *)
(* it always knows where the stopped target goes on, memory traps at the   *)
(* breakpoints of the client and nowhere else, after a trap the target     *)
(* goes on with the instruction under the breakpoint, and the streams      *)
(* between client and server stay short.  Below them, the link: scans of   *)
(* any length, packets of any data, writes of any length and any number of *)
(* hardware matchpoints.                                                   *)
(***************************************************************************)
EXTENDS MCGdb, WellFoundedInduction, SequenceTheorems, TLAPS

Pair == [unit : Unit, cpu : Cpu]

\* The debug unit and the processor agree on what the server relies on: before NPC
\* is written, or the target runs, the cache has what it needs or forgets it.
Agree(s) ==
  /\ s \in Pair
  /\ s.unit.stallState = "STALLED" => s.cpu.stalled
  /\ s.unit.stallState = "UNKNOWN" => ~s.unit.npcCacheIsValid
  /\ s.unit.stallState = "UNKNOWN" /\ s.cpu.stalled => ~s.cpu.written
  /\ s.unit.stallState = "STALLED" /\ s.unit.npcCacheIsValid => s.unit.npcCachedValue = s.cpu.npc
  /\ s.unit.stallState = "STALLED" /\ s.cpu.written => s.unit.npcCacheIsValid

Packets == [kind : {"none", "stop", "OK", "npc", "detached"}, addr : Addr \cup {Flushed, "NONE", "TRAP"}]

Servers ==
  [pc : {"request", "poll", "check", "peek", "stall", "ack", "end"}, targetStopped : BOOLEAN,
   rsp_sigval : {"NONE", "TRAP"}, caller : {"none", "monitor", "client"}, pkt : Packets]

\* The thread serves the client while the target is stopped, and polls while it
\* is not.
Serving ==
  server.targetStopped <=> server.pc \in {"request", "ack", "end"}

IInv ==
  /\ Agree(Both)
  /\ server \in Servers
  /\ toServer \in Seq(Requests \cup {Plus, Etx})
  /\ mpHash \in [Addr -> Insn \cup {NoBreakpoint}]
  /\ server.targetStopped => unit.stallState = "STALLED"
  /\ Serving

-----------------------------------------------------------------------------
(* The operations of the debug unit.                                       *)

\* What is written is an address, so it never is what NPC reads when it is unknown.
LEMMA Addresses == Addr \subseteq Nat /\ Flushed \notin Addr /\ 1 \in Addr /\ \A a \in Addr : NextAddr(a) \in Addr
  BY LastAssumption, SMT DEF Addr, Flushed, NextAddr

\* readNpc: a stopped target goes on where the server thinks.
LEMMA KnownNpc ==
  ASSUME NEW s, Agree(s), s.unit.stallState = "STALLED"
  PROVE  readNpc(s) = s.cpu.npc
  BY SMT DEF Agree, Pair, Unit, Cpu, readNpc, CacheUsed, SprNpc

\* readNpc fills the cache with the right value.
LEMMA NpcReadAgrees ==
  ASSUME NEW s, Agree(s), s.unit.stallState = "STALLED"
  PROVE  /\ Agree(npcRead(s))
         /\ npcRead(s).unit.stallState = "STALLED"
         /\ npcRead(s).unit.npcCacheIsValid
         /\ npcRead(s).cpu = s.cpu
  <1>1. readNpc(s) = s.cpu.npc
    BY KnownNpc
  <1>2. npcRead(s) = [s EXCEPT !.unit.npcCacheIsValid = TRUE, !.unit.npcCachedValue = s.cpu.npc]
    BY <1>1 DEF npcRead, CacheNpc
  <1>3. s.unit \in Unit /\ s.cpu \in Cpu /\ s = [unit |-> s.unit, cpu |-> s.cpu]
    BY DEF Agree, Pair
  <1>4. npcRead(s).cpu = s.cpu
    BY <1>2, <1>3
  <1>5. npcRead(s).unit = [s.unit EXCEPT !.npcCacheIsValid = TRUE, !.npcCachedValue = s.cpu.npc]
    BY <1>2, <1>3
  <1>6. /\ npcRead(s).unit \in Unit
        /\ npcRead(s).unit.stallState = "STALLED"
        /\ npcRead(s).unit.npcCacheIsValid
        /\ npcRead(s).unit.npcCachedValue = s.cpu.npc
    BY <1>3, <1>5 DEF Unit, Cpu
  <1>7. npcRead(s) \in Pair
    BY <1>2, <1>3, <1>4, <1>6 DEF Pair
  <1> QED
    BY <1>4, <1>6, <1>7 DEF Agree

\* writeNpc: whether it writes or not, the target goes on at the address.
LEMMA WriteNpcAgrees ==
  ASSUME NEW s, Agree(s), s.unit.stallState = "STALLED", NEW addr \in Addr
  PROVE  /\ Agree(writeNpc(s, addr))
         /\ writeNpc(s, addr).unit.stallState = "STALLED"
         /\ writeNpc(s, addr).cpu.npc = addr
  <1> DEFINE r == npcRead(s)
  <1>1. /\ Agree(r) /\ r.unit.stallState = "STALLED" /\ r.unit.npcCacheIsValid
        /\ r.cpu = s.cpu /\ readNpc(s) = s.cpu.npc
    BY NpcReadAgrees, KnownNpc
  <1>2. CASE addr = readNpc(s)
    BY <1>1, <1>2 DEF writeNpc
  <1>3. CASE addr # readNpc(s)
    <2>1. writeNpc(s, addr) = writeSprNpc(r, addr)
      BY <1>3 DEF writeNpc
    <2>2. r.unit.npcCachedValue # addr
      BY <1>1, <1>3 DEF Agree
    <2>3. writeSprNpc(r, addr) =
            [[r EXCEPT !.unit.npcCacheIsValid = TRUE, !.unit.npcCachedValue = addr]
               EXCEPT !.cpu.npc = addr, !.cpu.written = TRUE]
      BY <1>1, <2>2 DEF writeSprNpc, CacheNpc
    <2> DEFINE w == writeNpc(s, addr)
    <2> HIDE DEF r
    <2>4. r.unit \in Unit /\ r.cpu \in Cpu /\ r = [unit |-> r.unit, cpu |-> r.cpu]
      BY <1>1 DEF Agree, Pair
    <2>5. w.cpu = [r.cpu EXCEPT !.npc = addr, !.written = TRUE]
      BY <2>1, <2>3, <2>4
    <2>6. w.unit = [r.unit EXCEPT !.npcCacheIsValid = TRUE, !.npcCachedValue = addr]
      BY <2>1, <2>3, <2>4
    <2>7. /\ w.unit \in Unit
          /\ w.unit.stallState = "STALLED"
          /\ w.unit.npcCacheIsValid
          /\ w.unit.npcCachedValue = addr
      BY <1>1, <2>4, <2>6 DEF Unit
    <2>8. w.cpu \in Cpu /\ w.cpu.npc = addr /\ w.cpu.stalled = r.cpu.stalled
      BY <2>4, <2>5 DEF Cpu
    <2>9. w \in Pair /\ r.cpu.stalled
      BY <1>1, <2>1, <2>3, <2>4, <2>7, <2>8 DEF Pair, Agree
    <2> QED
      BY <2>7, <2>8, <2>9 DEF Agree
  <1> QED
    BY <1>2, <1>3

\* isStalled: what it notes of the processor is so.
LEMMA StallNotedAgrees ==
  ASSUME NEW s, Agree(s)
  PROVE  /\ Agree(stallNoted(s))
         /\ stallNoted(s).cpu = s.cpu
         /\ isStalled(s) <=> stallNoted(s).unit.stallState = "STALLED"
  BY SMT DEF Agree, Pair, Unit, Cpu, stallNoted, isStalled

\* stall, once the pipeline has been refilled.
LEMMA StallAgrees ==
  ASSUME NEW s, Agree(s), ~s.cpu.written
  PROVE  Agree(stall(s)) /\ stall(s).unit.stallState = "STALLED"
  <1>1. s.unit \in Unit /\ s.cpu \in Cpu /\ s = [unit |-> s.unit, cpu |-> s.cpu]
    BY DEF Agree, Pair
  <1>2. stall(s).cpu = [s.cpu EXCEPT !.stalled = TRUE]
    BY <1>1 DEF stall
  <1>3. stall(s).unit = [s.unit EXCEPT !.stallState = "STALLED"]
    BY <1>1 DEF stall
  <1>4. /\ stall(s).cpu \in Cpu /\ stall(s).cpu.stalled
        /\ ~stall(s).cpu.written /\ stall(s).cpu.npc = s.cpu.npc
    BY <1>1, <1>2 DEF Cpu
  <1>5. /\ stall(s).unit \in Unit /\ stall(s).unit.stallState = "STALLED"
        /\ stall(s).unit.npcCacheIsValid <=> s.unit.npcCacheIsValid
        /\ stall(s).unit.npcCachedValue = s.unit.npcCachedValue
    BY <1>1, <1>3 DEF Unit
  <1>6. stall(s) \in Pair
    BY <1>1, <1>4, <1>5 DEF Pair, stall
  <1>7. s.unit.stallState \in {"UNKNOWN", "STALLED"}
    BY <1>1 DEF Unit
  <1> QED
    BY <1>4, <1>5, <1>6, <1>7 DEF Agree

\* unstall forgets all that was remembered.
LEMMA UnstallAgrees ==
  ASSUME NEW s, Agree(s)
  PROVE  Agree(unstall(s))
  <1>1. s.unit \in Unit /\ s.cpu \in Cpu /\ s = [unit |-> s.unit, cpu |-> s.cpu]
    BY DEF Agree, Pair
  <1>2. unstall(s).cpu = [s.cpu EXCEPT !.stalled = FALSE]
    BY <1>1 DEF unstall
  <1>3. unstall(s).unit = [s.unit EXCEPT !.stallState = "UNKNOWN", !.npcCacheIsValid = FALSE,
                                         !.npcCachedValue = Flushed]
    BY <1>1 DEF unstall
  <1>4. unstall(s).cpu \in Cpu /\ ~unstall(s).cpu.stalled
    BY <1>1, <1>2 DEF Cpu
  <1>5. /\ unstall(s).unit \in Unit /\ unstall(s).unit.stallState = "UNKNOWN"
        /\ ~unstall(s).unit.npcCacheIsValid
    BY <1>1, <1>3 DEF Unit
  <1>6. unstall(s) \in Pair
    BY <1>1, <1>4, <1>5 DEF Pair, unstall
  <1> QED
    BY <1>4, <1>5, <1>6 DEF Agree

\* The other registers and memory leave NPC and its cache alone.
LEMMA OthersAgree ==
  ASSUME NEW s, Agree(s)
  PROVE  /\ Agree(clearDrr(s)) /\ clearDrr(s).unit = s.unit
         /\ \A on \in BOOLEAN : Agree(setSingleStep(s, on)) /\ setSingleStep(s, on).unit = s.unit
         /\ \A addr \in Addr, insn \in Insn :
              Agree(writeMem(s, addr, insn)) /\ writeMem(s, addr, insn).unit = s.unit
  <1>1. Agree(clearDrr(s)) /\ clearDrr(s).unit = s.unit
    BY SMT DEF Agree, Pair, Unit, Cpu, clearDrr
  <1>2. ASSUME NEW on \in BOOLEAN
        PROVE  Agree(setSingleStep(s, on)) /\ setSingleStep(s, on).unit = s.unit
    BY SMT DEF Agree, Pair, Unit, Cpu, setSingleStep
  <1>3. ASSUME NEW addr \in Addr, NEW insn \in Insn
        PROVE  Agree(writeMem(s, addr, insn)) /\ writeMem(s, addr, insn).unit = s.unit
    BY SMT DEF Agree, Pair, Unit, Cpu, writeMem
  <1> QED
    BY <1>1, <1>2, <1>3

-----------------------------------------------------------------------------
(* The stream and the packets.                                             *)

\* A non-empty set of natural numbers has a least element.
LEMMA LeastNatural ==
  ASSUME NEW T, T \subseteq Nat, T # {}
  PROVE  \E x \in T : \A y \in T : x <= y
  <1>1. IsWellFoundedOn(OpToRel(<, Nat), Nat)
    BY NatLessThanWellFounded
  <1>2. PICK x \in T : \A y \in T : ~(<<y, x>> \in OpToRel(<, Nat))
    BY <1>1, WFMin
  <1>3. \A y \in T : ~(y < x)
    BY <1>2 DEF OpToRel
  <1> QED
    BY <1>3

\* getPkt: a request that is served is one of Requests.
LEMMA ServedRequest ==
  ASSUME toServer \in Seq(Requests \cup {Plus, Etx}), NEW kind, Serves(kind)
  PROVE  /\ RequestPos \in 1..Len(toServer) /\ toServer[RequestPos] \in Requests
         /\ toServer[RequestPos].kind = kind
         /\ toServer' \in Seq(Requests \cup {Plus, Etx})
  <1> DEFINE I == {i \in 1..Len(toServer) : IsRequest(toServer[i])}
  <1>1. RequestPos # 0 /\ toServer[RequestPos].kind = kind
    BY DEF Serves
  <1>2. I # {} /\ RequestPos = Min(I)
    BY <1>1 DEF RequestPos, SelectInSeq
  <1>3. \E x \in I : \A y \in I : x <= y
    <2>1. I \subseteq Nat
      OBVIOUS
    <2> QED
      BY <1>2, <2>1, LeastNatural
  <1>4. RequestPos \in I
    BY <1>2, <1>3 DEF Min
  <1>5. toServer[RequestPos] \in Requests
    BY <1>4 DEF IsRequest, Plus, Etx, Token
  <1>6. toServer' = SubSeq(toServer, RequestPos + 1, Len(toServer))
    BY DEF Serves
  <1> QED
    BY <1>1, <1>4, <1>5, <1>6

-----------------------------------------------------------------------------
(* The invariant.                                                          *)

\* The debug unit and the processor after a step.
LEMMA DebugUnitSet ==
  ASSUME NEW s, Agree(s), DebugUnitIs(s)
  PROVE  Agree(Both') /\ unit' = s.unit
  <1>1. s = [unit |-> s.unit, cpu |-> s.cpu]
    BY DEF Agree, Pair
  <1>2. Both' = s
    BY <1>1 DEF DebugUnitIs, Both
  <1> QED
    BY <1>2 DEF DebugUnitIs

\* What a step that leaves debug unit, processor and hash table alone has to keep.
LEMMA QuietStep ==
  ASSUME IInv, UNCHANGED <<unit, cpu, mpHash>>,
         toServer' \in Seq(Requests \cup {Plus, Etx}), server' \in Servers,
         server'.targetStopped => server.targetStopped, Serving'
  PROVE  IInv'
  BY DEF IInv, Both

\* The request has an address where it needs one.
LEMMA AddressOf ==
  ASSUME IInv, NEW kind \in {"P", "M", "z", "Z"}, Serves(kind)
  PROVE  RequestAddr \in Addr
  <1>1. toServer[RequestPos] \in Requests /\ toServer[RequestPos].kind = kind
    BY ServedRequest DEF IInv
  <1> QED
    BY <1>1 DEF Requests, RequestAddr

\* Serving a request, the server knows the target as stopped.
LEMMA ServesStopped ==
  ASSUME IInv, NEW kind, Serves(kind)
  PROVE  /\ server.targetStopped /\ unit.stallState = "STALLED" /\ Both.unit.stallState = "STALLED"
         /\ toServer' \in Seq(Requests \cup {Plus, Etx})
  <1>1. server.pc = "request"
    BY DEF Serves, At
  <1> QED
    BY <1>1, ServedRequest DEF IInv, Serving, Both

\* A reply, or none, keeps the target stopped.
LEMMA RepliesKeep ==
  ASSUME IInv, server.pc = "request",
         NEW kind \in {"stop", "OK", "npc", "detached"},
         NEW value \in Addr \cup {Flushed, "NONE", "TRAP"},
         Replies(kind, value)
  PROVE  server' \in Servers /\ server'.targetStopped /\ Serving'
  <1>1. server' = [server EXCEPT !.pc = "ack", !.pkt = Token(kind, value)]
    BY DEF Replies, putPkt
  <1>2. Token(kind, value) \in Packets
    BY DEF Token, Packets
  <1>3. server \in Servers /\ server.targetStopped
    BY DEF IInv, Serving
  <1>4. server' \in Servers /\ server'.pc = "ack" /\ server'.targetStopped = server.targetStopped
    BY <1>1, <1>2, <1>3, Zenon DEF Servers
  <1> QED
    BY <1>3, <1>4 DEF Serving

\* rspContinue and rspStep, which forget NPC and let the target run.
LEMMA ResumesKeeps ==
  ASSUME IInv, NEW kind \in {"c", "s"}, NEW on \in BOOLEAN, Serves(kind), Resumes(on)
  PROVE  IInv'
  <1> DEFINE s1 == writeNpc(Both, ResumeAddr)
             s2 == clearDrr(s1)
             s3 == setSingleStep(s2, on)
             s4 == unstall(s3)
  <1>1. /\ Agree(Both) /\ Both.unit.stallState = "STALLED"
        /\ toServer' \in Seq(Requests \cup {Plus, Etx})
    BY ServesStopped DEF IInv
  <1>2. ResumeAddr \in Addr
    <2>1. toServer[RequestPos] \in Requests /\ toServer[RequestPos].kind = kind
      BY ServedRequest DEF IInv
    <2>2. RequestAddr \in Addr \cup {Flushed}
      BY <2>1 DEF Requests, RequestAddr
    <2>3. readNpc(Both) \in Addr
      BY <1>1, KnownNpc DEF Agree, Pair, Cpu
    <2> QED
      BY <2>2, <2>3 DEF ResumeAddr
  <1>3. Agree(s1)
    BY <1>1, <1>2, WriteNpcAgrees
  <1>4. Agree(s2)
    BY <1>3, OthersAgree
  <1>5. Agree(s3)
    BY <1>4, OthersAgree
  <1>6. Agree(s4)
    BY <1>5, UnstallAgrees
  <1>7. DebugUnitIs(s4) /\ server' = [server EXCEPT !.pc = "poll", !.targetStopped = FALSE]
        /\ UNCHANGED mpHash
    BY DEF Resumes
  <1> HIDE DEF s4
  <1>8. Agree(Both')
    BY <1>6, <1>7, DebugUnitSet
  <1>9. server' \in Servers /\ server'.pc = "poll" /\ ~server'.targetStopped
    BY <1>7, Zenon DEF IInv, Servers
  <1> QED
    BY <1>1, <1>7, <1>8, <1>9 DEF IInv, Serving

\* A request that writes a register or memory and keeps the target stopped.
LEMMA WritesKeep ==
  ASSUME IInv, NEW kind, Serves(kind), server' \in Servers, server'.targetStopped, Serving',
         NEW s, Agree(s), s.unit.stallState = "STALLED", DebugUnitIs(s),
         mpHash' \in [Addr -> Insn \cup {NoBreakpoint}]
  PROVE  IInv'
  BY ServesStopped, DebugUnitSet DEF IInv

\* rspClientRequest.
LEMMA RequestKeeps ==
  ASSUME IInv, rspClientRequest
  PROVE  IInv'
  <1>1. server.pc = "request" /\ server \in Servers /\ server.targetStopped
    BY DEF IInv, Serving, rspClientRequest, rspContinue, rspStep, LastSignal, Detach, Ignored,
      rspReadReg, rspWriteReg, rspRestart, rspWriteMem, rspInsertMatchpoint, rspRemoveMatchpoint,
      Serves, At
  <1>2. CASE rspContinue
    BY <1>2, ResumesKeeps DEF rspContinue
  <1>3. CASE rspStep
    BY <1>3, ResumesKeeps DEF rspStep
  <1>4. CASE LastSignal
    <2>1. server' \in Servers /\ server'.targetStopped /\ Serving'
      BY <1>1, <1>4, RepliesKeep DEF LastSignal, Servers
    <2> QED
      BY <1>1, <1>4, <2>1, ServesStopped, QuietStep DEF LastSignal
  <1>5. CASE Detach
    <2>1. server' \in Servers /\ server'.targetStopped /\ Serving'
      BY <1>1, <1>5, RepliesKeep DEF Detach
    <2> QED
      BY <1>1, <1>5, <2>1, ServesStopped, QuietStep DEF Detach
  <1>6. CASE Ignored
    <2>1. UNCHANGED server /\ Serves("k") /\ UNCHANGED <<unit, cpu, mpHash>>
      BY <1>6 DEF Ignored, NoReply
    <2>2. toServer' \in Seq(Requests \cup {Plus, Etx})
      BY <2>1, ServesStopped
    <2> QED
      BY <1>1, <2>1, <2>2, QuietStep DEF Serving, IInv
  <1>7. CASE rspReadReg
    <2>1. Serves("p") /\ Replies("npc", readNpc(Both)) /\ DebugUnitIs(npcRead(Both)) /\ UNCHANGED mpHash
      BY <1>7 DEF rspReadReg
    <2>2. Agree(Both) /\ Both.unit.stallState = "STALLED"
      BY <2>1, ServesStopped DEF IInv
    <2>3. readNpc(Both) \in Addr
      BY <2>2, KnownNpc DEF Agree, Pair, Cpu
    <2>4. server' \in Servers /\ server'.targetStopped /\ Serving'
      BY <1>1, <2>1, <2>3, RepliesKeep
    <2>5. Agree(npcRead(Both)) /\ npcRead(Both).unit.stallState = "STALLED"
      BY <2>2, NpcReadAgrees
    <2>6. mpHash' \in [Addr -> Insn \cup {NoBreakpoint}]
      BY <2>1 DEF IInv
    <2> QED
      BY <2>1, <2>4, <2>5, <2>6, WritesKeep
  <1>8. CASE rspWriteReg
    <2>1. Serves("P") /\ Replies("OK", Flushed) /\ DebugUnitIs(writeNpc(Both, RequestAddr)) /\ UNCHANGED mpHash
      BY <1>8 DEF rspWriteReg
    <2>2. Agree(Both) /\ Both.unit.stallState = "STALLED"
      BY <2>1, ServesStopped DEF IInv
    <2>3. server' \in Servers /\ server'.targetStopped /\ Serving'
      BY <1>1, <2>1, RepliesKeep
    <2>4. RequestAddr \in Addr
      BY <2>1, AddressOf
    <2>5. Agree(writeNpc(Both, RequestAddr)) /\ writeNpc(Both, RequestAddr).unit.stallState = "STALLED"
      BY <2>2, <2>4, WriteNpcAgrees
    <2>6. mpHash' \in [Addr -> Insn \cup {NoBreakpoint}]
      BY <2>1 DEF IInv
    <2> QED
      BY <2>1, <2>3, <2>5, <2>6, WritesKeep
  <1>9. CASE rspRestart
    <2>1. Serves("R") /\ UNCHANGED server /\ DebugUnitIs(writeNpc(Both, 1)) /\ UNCHANGED mpHash
      BY <1>9 DEF rspRestart, NoReply
    <2>2. Agree(Both) /\ Both.unit.stallState = "STALLED"
      BY <2>1, ServesStopped DEF IInv
    <2>3. server' \in Servers /\ server'.targetStopped /\ Serving'
      BY <1>1, <2>1 DEF Serving, IInv
    <2>4. Agree(writeNpc(Both, 1)) /\ writeNpc(Both, 1).unit.stallState = "STALLED"
      BY <2>2, Addresses, WriteNpcAgrees
    <2>5. mpHash' \in [Addr -> Insn \cup {NoBreakpoint}]
      BY <2>1 DEF IInv
    <2> QED
      BY <2>1, <2>3, <2>4, <2>5, WritesKeep
  <1>10. CASE rspWriteMem
    <2>1. Serves("M") /\ Replies("OK", Flushed) /\ DebugUnitIs(writeMem(Both, RequestAddr, "written"))
          /\ UNCHANGED mpHash
      BY <1>10 DEF rspWriteMem
    <2>2. server' \in Servers /\ server'.targetStopped /\ Serving'
      BY <1>1, <2>1, RepliesKeep
    <2>3. /\ Agree(writeMem(Both, RequestAddr, "written"))
          /\ writeMem(Both, RequestAddr, "written").unit.stallState = "STALLED"
      BY <2>1, ServesStopped, AddressOf, OthersAgree DEF IInv, Insn
    <2>4. mpHash' \in [Addr -> Insn \cup {NoBreakpoint}]
      BY <2>1 DEF IInv
    <2> QED
      BY <2>1, <2>2, <2>3, <2>4, WritesKeep
  <1>11. CASE rspInsertMatchpoint
    <2>1. Serves("Z") /\ Replies("OK", Flushed) /\ DebugUnitIs(writeMem(Both, RequestAddr, "trap"))
          /\ mpHash' = HashAdd(RequestAddr, cpu.mem[RequestAddr])
      BY <1>11 DEF rspInsertMatchpoint
    <2>2. server' \in Servers /\ server'.targetStopped /\ Serving'
      BY <1>1, <2>1, RepliesKeep
    <2>3. RequestAddr \in Addr
      BY <2>1, AddressOf
    <2>4. /\ Agree(writeMem(Both, RequestAddr, "trap"))
          /\ writeMem(Both, RequestAddr, "trap").unit.stallState = "STALLED"
      BY <2>1, <2>3, ServesStopped, OthersAgree DEF IInv, Insn
    <2>5. cpu.mem[RequestAddr] \in Insn
      BY <2>3 DEF IInv, Agree, Pair, Cpu, Both
    <2>6. mpHash' \in [Addr -> Insn \cup {NoBreakpoint}]
      BY <2>1, <2>3, <2>5 DEF IInv, HashAdd
    <2> QED
      BY <2>1, <2>2, <2>4, <2>6, WritesKeep
  <1>12. CASE rspRemoveMatchpoint
    <2>1. Serves("z") /\ Replies("OK", Flushed)
      BY <1>12 DEF rspRemoveMatchpoint
    <2>2. server' \in Servers /\ server'.targetStopped /\ Serving'
      BY <1>1, <2>1, RepliesKeep
    <2>3. RequestAddr \in Addr
      BY <2>1, AddressOf
    <2>4. CASE mpHash[RequestAddr] = NoBreakpoint
      <3>1. UNCHANGED <<unit, cpu, mpHash>>
        BY <1>12, <2>4 DEF rspRemoveMatchpoint
      <3> QED
        BY <2>1, <2>2, <3>1, ServesStopped, QuietStep
    <2>5. CASE mpHash[RequestAddr] # NoBreakpoint
      <3>1. /\ DebugUnitIs(writeMem(Both, RequestAddr, mpHash[RequestAddr]))
            /\ mpHash' = [mpHash EXCEPT ![RequestAddr] = NoBreakpoint]
        BY <1>12, <2>5 DEF rspRemoveMatchpoint
      <3>2. mpHash[RequestAddr] \in Insn /\ mpHash' \in [Addr -> Insn \cup {NoBreakpoint}]
        BY <2>3, <2>5, <3>1 DEF IInv
      <3>3. /\ Agree(writeMem(Both, RequestAddr, mpHash[RequestAddr]))
            /\ writeMem(Both, RequestAddr, mpHash[RequestAddr]).unit.stallState = "STALLED"
        BY <2>1, <2>3, <3>2, ServesStopped, OthersAgree DEF IInv
      <3> QED
        BY <2>1, <2>2, <3>1, <3>2, <3>3, WritesKeep
    <2> QED
      BY <2>4, <2>5
  <1> QED
    BY <1>2, <1>3, <1>4, <1>5, <1>6, <1>7, <1>8, <1>9, <1>10, <1>11, <1>12 DEF rspClientRequest

\* putPkt: the end of a packet leads back to where targetStopped says.
LEMMA PacketDoneKeeps ==
  ASSUME IInv, server.pc = "ack", PacketDone, UNCHANGED <<unit, cpu, mpHash>>,
         toServer' \in Seq(Requests \cup {Plus, Etx})
  PROVE  IInv'
  <1>1. server \in Servers /\ server.targetStopped
    BY DEF IInv, Serving
  <1>2. NoPacket \in Packets
    BY DEF NoPacket, Token, Packets
  <1>3. server'.pc \in {"end", "request"} /\ server'.targetStopped /\ server' \in Servers
    BY <1>1, <1>2, Zenon DEF PacketDone, Loop, Servers
  <1> QED
    BY <1>1, <1>3, QuietStep DEF Serving

\* The steps of rspServer that only move on.
LEMMA PollQuietly ==
  ASSUME IInv, NEW pc \in {"peek", "poll", "stall"}, NEW caller \in {"none", "monitor", "client"},
         ~server.targetStopped, server' = [server EXCEPT !.pc = pc, !.caller = caller],
         UNCHANGED <<unit, cpu, mpHash>>, toServer' \in Seq(Requests \cup {Plus, Etx})
  PROVE  IInv'
  <1>1. server \in Servers
    BY DEF IInv
  <1>2. server' \in Servers /\ server'.pc = pc /\ ~server'.targetStopped
    BY <1>1, Zenon DEF Servers
  <1> QED
    BY <1>2, QuietStep DEF Serving

\* The target is found or made stopped, and the stop reported.
LEMMA StopKeeps ==
  ASSUME IInv, NEW sigval \in {"NONE", "TRAP"}, NEW caller \in {"none", "monitor", "client"},
         server' = [server EXCEPT !.pc = "ack", !.pkt = StopReply(sigval), !.rsp_sigval = sigval,
                                  !.targetStopped = TRUE, !.caller = caller],
         NEW s, Agree(s), s.unit.stallState = "STALLED", DebugUnitIs(s), UNCHANGED <<mpHash, toServer>>
  PROVE  IInv'
  <1>1. server \in Servers
    BY DEF IInv
  <1>2. StopReply(sigval) \in Packets
    BY DEF StopReply, Token, Packets
  <1>3. server' \in Servers /\ server'.pc = "ack" /\ server'.targetStopped
    BY <1>1, <1>2, Zenon DEF Servers
  <1> QED
    BY <1>3, DebugUnitSet DEF IInv, Serving

\* rspServer.
LEMMA ServerKeeps ==
  ASSUME IInv, rspServer
  PROVE  IInv'
  <1> USE DEF At
  <1>1. server \in Servers /\ toServer \in Seq(Requests \cup {Plus, Etx}) /\ Agree(Both)
    BY DEF IInv
  <1>2. server.caller \in {"none", "monitor", "client"} /\ server.rsp_sigval \in {"NONE", "TRAP"}
    BY <1>1 DEF Servers
  <1>3. server.pc \in {"poll", "check", "peek", "stall"} => ~server.targetStopped
    BY DEF IInv, Serving
  <1>4. CASE MonitorAsks
    BY <1>1, <1>3, <1>4, PollQuietly DEF MonitorAsks
  <1>5. CASE rspCheckForException
    <2>1. Agree(Both') /\ UNCHANGED <<mpHash, toServer>> /\ ~server.targetStopped
      BY <1>1, <1>3, <1>5, StallNotedAgrees, DebugUnitSet DEF rspCheckForException
    <2>2. \E sigval \in {"NONE", "TRAP"} : server' = [server EXCEPT !.pc = "check", !.rsp_sigval = sigval]
      BY <1>2, <1>5 DEF rspCheckForException
    <2>3. server' \in Servers /\ server'.pc = "check" /\ ~server'.targetStopped
      BY <1>1, <2>1, <2>2, Zenon DEF Servers
    <2> QED
      BY <2>1, <2>3 DEF IInv, Serving
  <1>6. CASE TargetHasStopped
    <2> DEFINE s == stallNoted(Both)
    <2>1. Agree(s) /\ s.unit.stallState = "STALLED"
      BY <1>1, <1>6, StallNotedAgrees DEF TargetHasStopped
    <2>2. s.cpu.ppc \in Addr
      BY <2>1 DEF Agree, Pair, Cpu
    <2>3. BackUp(s) \in {s, writeNpc(s, s.cpu.ppc)}
      BY DEF BackUp
    <2>4. Agree(BackUp(s)) /\ BackUp(s).unit.stallState = "STALLED"
      BY <2>1, <2>2, <2>3, WriteNpcAgrees
    <2>5. server' = [server EXCEPT !.pc = "ack", !.pkt = StopReply(server.rsp_sigval),
                                   !.rsp_sigval = server.rsp_sigval, !.targetStopped = TRUE,
                                   !.caller = server.caller]
      BY <1>1, <1>6, Zenon DEF TargetHasStopped, Servers
    <2>6. DebugUnitIs(BackUp(s)) /\ UNCHANGED <<mpHash, toServer>>
      BY <1>6 DEF TargetHasStopped
    <2> QED
      BY <1>2, <2>4, <2>5, <2>6, StopKeeps
  <1>7. CASE TargetIsRunning
    <2>1. server' = [server EXCEPT !.pc = "peek", !.caller = server.caller]
      BY <1>1, <1>7, Zenon DEF TargetIsRunning, Servers
    <2> QED
      BY <1>1, <1>2, <1>3, <1>7, <2>1, PollQuietly DEF TargetIsRunning
  <1>8. CASE rspSocketPeek
    <2>1. UNCHANGED <<unit, cpu, mpHash>> /\ ~server.targetStopped
      BY <1>3, <1>8 DEF rspSocketPeek
    <2>2. CASE toServer # <<>> /\ Head(toServer) = Etx
      BY <1>1, <1>8, <2>1, <2>2, PollQuietly DEF rspSocketPeek
    <2>3. CASE ~(toServer # <<>> /\ Head(toServer) = Etx)
      <3>1. server' = [server EXCEPT !.pc = "poll", !.caller = server.caller]
        BY <1>1, <1>8, <2>3, Zenon DEF rspSocketPeek, Servers
      <3> QED
        BY <1>1, <1>2, <1>8, <2>1, <2>3, <3>1, PollQuietly DEF rspSocketPeek
    <2> QED
      BY <2>2, <2>3
  <1>9. CASE StallTarget
    <2>1. ~Both.cpu.written
      BY <1>9 DEF StallTarget, PipelineRefilled, Both
    <2>2. Agree(stall(Both)) /\ stall(Both).unit.stallState = "STALLED"
      BY <1>1, <2>1, StallAgrees
    <2> QED
      BY <1>9, <2>2, StopKeeps DEF StallTarget
  <1>10. CASE AwaitAck
    <2>1. UNCHANGED <<unit, cpu, mpHash>> /\ server.pc = "ack" /\ toServer' = Tail(toServer) /\ toServer # <<>>
      BY <1>10 DEF AwaitAck
    <2>2. toServer' \in Seq(Requests \cup {Plus, Etx})
      BY <1>1, <2>1
    <2>3. CASE Head(toServer) = Plus
      BY <1>10, <2>1, <2>2, <2>3, PacketDoneKeeps DEF AwaitAck
    <2>4. CASE Head(toServer) # Plus
      <3>1. server' = [server EXCEPT !.pc = "ack", !.pkt = server.pkt]
        BY <1>10, <2>4 DEF AwaitAck, putPkt
      <3>2. server' = server
        BY <1>1, <2>1, <3>1, Zenon DEF Servers
      <3> QED
        BY <1>1, <2>1, <2>2, <3>2, QuietStep DEF IInv, Serving
    <2> QED
      BY <2>3, <2>4
  <1>11. CASE AckFails
    BY <1>1, <1>11, PacketDoneKeeps DEF AckFails
  <1>12. CASE rspClientRequest
    BY <1>12, RequestKeeps
  <1>13. CASE rspClose
    <2>1. server.targetStopped
      BY <1>13 DEF rspClose, IInv, Serving
    <2>2. server' \in Servers /\ server'.pc = "end" /\ server'.targetStopped
      BY <1>1, <1>13, <2>1, Zenon DEF rspClose, Servers
    <2> QED
      BY <1>1, <1>13, <2>1, <2>2, QuietStep DEF rspClose, Serving
  <1> QED
    BY <1>4, <1>5, <1>6, <1>7, <1>8, <1>9, <1>10, <1>11, <1>12, <1>13 DEF rspServer

\* The processor runs on: NPC is known again as soon as an instruction is executed.
LEMMA TargetKeeps ==
  ASSUME IInv, Target
  PROVE  IInv'
  <1>1. Agree(Both) /\ ~cpu.stalled /\ Both.unit = unit /\ Both.cpu = cpu
    BY DEF IInv, Target, Both
  <1>2. unit.stallState = "UNKNOWN" /\ ~unit.npcCacheIsValid /\ unit \in Unit /\ cpu \in Cpu
    BY <1>1 DEF Agree, Pair, Unit
  <1>3. NextAddr(cpu.npc) \in Addr
    BY <1>2, Addresses DEF Cpu
  <1>4. cpu' = Execute(cpu) /\ UNCHANGED <<server, unit, mpHash, toServer>>
    BY DEF Target
  <1>5. \E drr \in {"none", "TE"}, stalled \in BOOLEAN :
          cpu' = [cpu EXCEPT !.ppc = cpu.npc, !.npc = NextAddr(cpu.npc), !.written = FALSE,
                             !.drr = drr, !.stalled = stalled]
    <2>1. (IF cpu.mem[cpu.npc] = "trap" THEN "TE" ELSE cpu.drr) \in {"none", "TE"}
      BY <1>2 DEF Cpu
    <2>2. (cpu.mem[cpu.npc] = "trap" \/ cpu.singleStep) \in BOOLEAN
      OBVIOUS
    <2> QED
      BY <1>4, <2>1, <2>2 DEF Execute
  <1>6. cpu' \in Cpu /\ ~cpu'.written
    BY <1>2, <1>3, <1>5 DEF Cpu
  <1>7. Agree(Both')
    BY <1>2, <1>4, <1>6 DEF Agree, Pair, Both
  <1> QED
    BY <1>4, <1>7 DEF IInv, Serving

LEMMA InvariantInit == Init => IInv
  <1> SUFFICES ASSUME Init PROVE IInv
    OBVIOUS
  <1>1. PICK a \in Addr :
          cpu = [stalled |-> TRUE, npc |-> NextAddr(a), written |-> FALSE, ppc |-> a, drr |-> "none",
                 singleStep |-> FALSE, mem |-> [b \in Addr |-> "loaded"]]
    BY DEF Init, ServerInit
  <1>2. cpu \in Cpu /\ cpu.stalled /\ ~cpu.written
    BY <1>1, Addresses DEF Cpu, Insn
  <1>3. unit \in Unit /\ unit.stallState = "STALLED" /\ ~unit.npcCacheIsValid
    BY DEF Init, ServerInit, Unit
  <1>4. Agree(Both)
    BY <1>2, <1>3 DEF Agree, Pair, Both
  <1>5. server \in Servers /\ server.targetStopped /\ server.pc = "request"
    BY DEF Init, ServerInit, Servers, Packets, NoPacket, Token
  <1>6. toServer \in Seq(Requests \cup {Plus, Etx}) /\ mpHash \in [Addr -> Insn \cup {NoBreakpoint}]
    BY DEF Init, ServerInit
  <1> QED
    BY <1>3, <1>4, <1>5, <1>6 DEF IInv, Serving

LEMMA InvariantStep == IInv /\ [Next]_vars => IInv'
  <1> SUFFICES ASSUME IInv, [Next]_vars PROVE IInv'
    OBVIOUS
  <1>1. toServer \in Seq(Requests \cup {Plus, Etx}) /\ server \in Servers
    BY DEF IInv
  <1>2. ASSUME UNCHANGED <<server, unit, cpu, mpHash>>, toServer' \in Seq(Requests \cup {Plus, Etx})
        PROVE  IInv'
    BY <1>1, <1>2, QuietStep DEF IInv, Serving
  <1>3. CASE Server
    BY <1>3, ServerKeeps DEF Server
  <1>4. CASE Send
    <2>1. PICK r \in Sends : toServer' = Append(toServer, r) /\ UNCHANGED <<server, unit, cpu, mpHash>>
      BY <1>4 DEF Send
    <2> QED
      BY <1>1, <1>2, <2>1, SendsAssumption
  <1>5. CASE Interrupt
    BY <1>1, <1>2, <1>5 DEF Interrupt
  <1>6. CASE Receive
    BY <1>1, <1>2, <1>6 DEF Receive, ReceiveAck, ReceivePacket
  <1>7. CASE Disconnect
    BY <1>1, <1>2, <1>7 DEF Disconnect
  <1>8. CASE Target
    BY <1>8, TargetKeeps
  <1>9. CASE Monitor
    BY <1>1, <1>2, <1>9 DEF Monitor
  <1>10. CASE UNCHANGED vars
    BY <1>1, <1>2, <1>10 DEF vars, serverVars
  <1> QED
    BY <1>3, <1>4, <1>5, <1>6, <1>7, <1>8, <1>9, <1>10 DEF Next, Ended

-----------------------------------------------------------------------------
(* The theorems.                                                           *)

LEMMA Invariant == Spec => []IInv
  BY InvariantInit, InvariantStep, PTL DEF Spec

\* What the server takes for stopped is stalled, and its next program counter is
\* known, for every program and every client (DebugUnitSC::isStalled, readSpr and
\* writeSpr, rspServer, writeNpc).
THEOREM TargetIsKnown == Spec => []TargetKnown
  <1>1. IInv => StoppedIsStalled
    BY DEF IInv, Agree, Both, StoppedIsStalled
  <1>2. IInv => NpcKnown
    BY KnownNpc DEF IInv, Both, NpcKnown
  <1> QED
    BY <1>1, <1>2, Invariant, PTL DEF TargetKnown

-----------------------------------------------------------------------------
(* Memory traps exactly at the breakpoints of the client.  The client      *)
(* takes memory for written when it sends the request, the server writes   *)
(* it when it serves it: the two agree except while a request is in the    *)
(* stream.  The invariant follows the request to the server and its        *)
(* acknowledgement back.                                                   *)

Held == {"loaded", "written"}

Answers == Packets \cup {Plus}

\* The breakpoint at an address, or none, is what it should be.
Exact(a) ==
  IF mpHash[a] = NoBreakpoint THEN cpu.mem[a] = written[a]
  ELSE cpu.mem[a] = "trap" /\ mpHash[a] = written[a]

\* The request will make memory what the client takes it for.
Settles(r) ==
  \A a \in Addr :
    IF r.kind = "M" /\ r.addr = a THEN mpHash[a] = NoBreakpoint /\ written[a] = "written"
    ELSE Exact(a)

Asked(stream) == {i \in DOMAIN stream : IsRequest(stream[i])}
Acks(stream)  == {i \in DOMAIN stream : stream[i].kind = "+"}

Lone(S) == \A i, j \in S : i = j

\* Where the request of the client is: nowhere, on its way to the server, or served
\* and its acknowledgement on the way back.
Resting ==
  gdb.mode # "ack" /\ Asked(toServer) = {} /\ Acks(toClient) = {} /\ \A a \in Addr : Exact(a)

Asking ==
  /\ gdb.mode = "ack" /\ Acks(toClient) = {}
  /\ Lone(Asked(toServer)) /\ \A i \in Asked(toServer) : Settles(toServer[i])

Answered ==
  /\ gdb.mode = "ack" /\ Asked(toServer) = {}
  /\ Lone(Acks(toClient)) /\ \A a \in Addr : Exact(a)

BInv ==
  /\ toClient \in Seq(Answers)
  /\ written \in [Addr -> Held]
  /\ gdb.mode = "gone" \/ Resting \/ Asking \/ Answered

-----------------------------------------------------------------------------
(* Streams.                                                                *)

\* A character or packet at the end of a stream.
LEMMA AppendAsked ==
  ASSUME NEW T, NEW s \in Seq(T), NEW e
  PROVE  /\ ~IsRequest(e) => Asked(Append(s, e)) = Asked(s)
         /\ Asked(s) = {} => Lone(Asked(Append(s, e)))
         /\ \A i \in Asked(Append(s, e)) :
              (i \in Asked(s) /\ Append(s, e)[i] = s[i]) \/ Append(s, e)[i] = e
  <1>1. /\ DOMAIN Append(s, e) = 1..Len(s) + 1 /\ DOMAIN s = 1..Len(s) /\ Len(s) \in Nat
        /\ Append(s, e)[Len(s) + 1] = e
        /\ \A i \in 1..Len(s) : Append(s, e)[i] = s[i]
    OBVIOUS
  <1>2. \A i \in DOMAIN Append(s, e) : (i \in DOMAIN s /\ Append(s, e)[i] = s[i]) \/ i = Len(s) + 1
    BY <1>1
  <1>3. \A i \in DOMAIN s : i \in DOMAIN Append(s, e) /\ Append(s, e)[i] = s[i]
    BY <1>1
  <1> QED
    BY <1>1, <1>2, <1>3, Zenon DEF Asked, Lone

LEMMA AppendAcks ==
  ASSUME NEW T, NEW s \in Seq(T), NEW e
  PROVE  /\ e.kind # "+" => Acks(Append(s, e)) = Acks(s)
         /\ Acks(s) = {} => Lone(Acks(Append(s, e)))
  <1>1. /\ DOMAIN Append(s, e) = 1..Len(s) + 1 /\ DOMAIN s = 1..Len(s) /\ Len(s) \in Nat
        /\ Append(s, e)[Len(s) + 1] = e
        /\ \A i \in 1..Len(s) : Append(s, e)[i] = s[i]
    OBVIOUS
  <1>2. \A i \in DOMAIN Append(s, e) : (i \in DOMAIN s /\ Append(s, e)[i] = s[i]) \/ i = Len(s) + 1
    BY <1>1
  <1>3. \A i \in DOMAIN s : i \in DOMAIN Append(s, e) /\ Append(s, e)[i] = s[i]
    BY <1>1
  <1> QED
    BY <1>1, <1>2, <1>3, Zenon DEF Acks, Lone

\* What is left of a stream, the first n elements taken from it.
LEMMA RestAsked ==
  ASSUME NEW T, NEW s \in Seq(T), NEW n \in 0..Len(s), NEW r, r = SubSeq(s, n + 1, Len(s))
  PROVE  /\ \A i \in Asked(r) : i + n \in Asked(s) /\ r[i] = s[i + n]
         /\ Lone(Asked(s)) => Lone(Asked(r))
         /\ Lone(Asked(s)) /\ n \in Asked(s) => Asked(r) = {}
  <1>1. DOMAIN r = 1..Len(s) - n /\ DOMAIN s = 1..Len(s) /\ Len(s) \in Nat /\ n \in Nat
    OBVIOUS
  <1>2. \A i \in 1..Len(s) - n : r[i] = s[i + n] /\ i + n \in 1..Len(s) /\ i + n # n /\ i \in Nat
    OBVIOUS
  <1>3. \A i \in Asked(r) : i + n \in Asked(s) /\ r[i] = s[i + n] /\ i + n # n /\ i \in Nat
    BY <1>1, <1>2 DEF Asked
  <1>4. ASSUME Lone(Asked(s)), NEW i \in Asked(r), NEW j \in Asked(r) PROVE i = j
    <2>1. i + n = j + n
      BY <1>3, <1>4 DEF Lone
    <2> QED
      BY <1>1, <1>3, <2>1
  <1>5. Lone(Asked(s)) /\ n \in Asked(s) => Asked(r) = {}
    BY <1>3 DEF Lone
  <1> QED
    BY <1>3, <1>4, <1>5 DEF Lone

\* The first element taken from a stream.
LEMMA RestAcks ==
  ASSUME NEW T, NEW s \in Seq(T), s # <<>>
  PROVE  /\ Lone(Acks(s)) => Lone(Acks(Tail(s)))
         /\ Acks(s) = {} => Acks(Tail(s)) = {}
         /\ Lone(Acks(s)) /\ Head(s).kind = "+" => Acks(Tail(s)) = {}
  <1>1. DOMAIN Tail(s) = 1..Len(s) - 1 /\ DOMAIN s = 1..Len(s) /\ Len(s) \in Nat /\ Len(s) > 0
    OBVIOUS
  <1>2. \A i \in 1..Len(s) - 1 : Tail(s)[i] = s[i + 1] /\ i + 1 \in 1..Len(s) /\ i + 1 # 1 /\ i \in Nat
    OBVIOUS
  <1>3. \A i \in Acks(Tail(s)) : i + 1 \in Acks(s) /\ i + 1 # 1 /\ i \in Nat
    BY <1>1, <1>2 DEF Acks
  <1>4. Head(s).kind = "+" => 1 \in Acks(s)
    BY <1>1 DEF Acks
  <1> QED
    BY <1>3, <1>4 DEF Lone

LEMMA TailAsked ==
  ASSUME NEW T, NEW s \in Seq(T), s # <<>>
  PROVE  /\ \A i \in Asked(Tail(s)) : i + 1 \in Asked(s) /\ Tail(s)[i] = s[i + 1]
         /\ Lone(Asked(s)) => Lone(Asked(Tail(s)))
  <1>1. DOMAIN Tail(s) = 1..Len(s) - 1 /\ DOMAIN s = 1..Len(s) /\ Len(s) \in Nat /\ Len(s) > 0
    OBVIOUS
  <1>2. \A i \in 1..Len(s) - 1 : Tail(s)[i] = s[i + 1] /\ i + 1 \in 1..Len(s) /\ i \in Nat
    OBVIOUS
  <1>3. \A i \in Asked(Tail(s)) : i + 1 \in Asked(s) /\ Tail(s)[i] = s[i + 1] /\ i \in Nat
    BY <1>1, <1>2 DEF Asked
  <1>4. ASSUME Lone(Asked(s)), NEW i \in Asked(Tail(s)), NEW j \in Asked(Tail(s)) PROVE i = j
    <2>1. i + 1 = j + 1
      BY <1>3, <1>4 DEF Lone
    <2> QED
      BY <1>3, <2>1
  <1> QED
    BY <1>3, <1>4 DEF Lone

-----------------------------------------------------------------------------
(* Memory.                                                                 *)

\* Everything the server does to the debug unit but writeMem leaves memory alone.
LEMMA MemKept ==
  ASSUME NEW s, s \in Pair
  PROVE  /\ npcRead(s).cpu.mem = s.cpu.mem
         /\ clearDrr(s).cpu.mem = s.cpu.mem
         /\ \A on \in BOOLEAN : setSingleStep(s, on).cpu.mem = s.cpu.mem
         /\ unstall(s).cpu.mem = s.cpu.mem
         /\ stall(s).cpu.mem = s.cpu.mem
         /\ stallNoted(s).cpu.mem = s.cpu.mem
  <1>1. s = [unit |-> s.unit, cpu |-> s.cpu] /\ s.cpu \in Cpu
    BY DEF Pair
  <1>2. npcRead(s).cpu.mem = s.cpu.mem
    BY <1>1 DEF npcRead, CacheNpc
  <1>3. clearDrr(s).cpu.mem = s.cpu.mem
    BY <1>1 DEF clearDrr, Cpu
  <1>4. \A on \in BOOLEAN : setSingleStep(s, on).cpu.mem = s.cpu.mem
    BY <1>1 DEF setSingleStep, Cpu
  <1>5. unstall(s).cpu.mem = s.cpu.mem
    BY <1>1 DEF unstall, Cpu
  <1>6. stall(s).cpu.mem = s.cpu.mem
    BY <1>1 DEF stall, Cpu
  <1>7. stallNoted(s).cpu.mem = s.cpu.mem
    BY <1>1 DEF stallNoted
  <1> QED
    BY <1>2, <1>3, <1>4, <1>5, <1>6, <1>7

\* So does writeNpc.
LEMMA WriteNpcMem ==
  ASSUME NEW s, Agree(s), s.unit.stallState = "STALLED", NEW addr
  PROVE  writeNpc(s, addr).cpu.mem = s.cpu.mem
  <1> DEFINE r == npcRead(s)
  <1>1. r \in Pair /\ r.cpu = s.cpu
    BY NpcReadAgrees DEF Agree
  <1>2. r = [unit |-> r.unit, cpu |-> r.cpu] /\ r.cpu \in Cpu
    BY <1>1 DEF Pair
  <1>3. writeNpc(s, addr) \in {r, writeSprNpc(r, addr)}
    BY DEF writeNpc
  <1>4. writeSprNpc(r, addr).cpu.mem = r.cpu.mem
    <2> HIDE DEF r
    <2> QED
      BY <1>2 DEF writeSprNpc, CacheNpc, Cpu
  <1> QED
    BY <1>1, <1>3, <1>4

\* writeMem writes the one address.
LEMMA WriteMemAt ==
  ASSUME NEW s, s \in Pair, NEW addr \in Addr, NEW insn
  PROVE  writeMem(s, addr, insn).cpu.mem = [s.cpu.mem EXCEPT ![addr] = insn]
  <1>1. s = [unit |-> s.unit, cpu |-> s.cpu] /\ s.cpu \in Cpu
    BY DEF Pair
  <1> QED
    BY <1>1 DEF writeMem, Cpu

-----------------------------------------------------------------------------
(* The steps.                                                              *)

\* A step that changes neither memory nor breakpoints, takes no request and
\* sends no acknowledgement.
LEMMA Undisturbed ==
  ASSUME BInv, UNCHANGED <<mpHash, gdb, written>>, cpu'.mem = cpu.mem,
         toServer' = toServer \/ (toServer # <<>> /\ toServer' = Tail(toServer)),
         toServer \in Seq(Requests \cup {Plus, Etx}),
         toClient' = toClient \/ (\E p \in Packets : toClient' = Append(toClient, p))
  PROVE  BInv'
  <1>1. toClient' \in Seq(Answers) /\ Acks(toClient') = Acks(toClient)
    <2>1. ASSUME NEW p \in Packets, toClient' = Append(toClient, p)
          PROVE  toClient' \in Seq(Answers) /\ Acks(toClient') = Acks(toClient)
      <3>1. p \in Answers /\ p.kind # "+"
        BY DEF Answers, Packets
      <3>2. toClient \in Seq(Answers)
        BY DEF BInv
      <3> QED
        BY <2>1, <3>1, <3>2, AppendAcks
    <2> QED
      BY <2>1 DEF BInv
  <1>2. /\ Asked(toServer) = {} => Asked(toServer') = {}
        /\ Lone(Asked(toServer)) => Lone(Asked(toServer'))
        /\ \A i \in Asked(toServer') : \E j \in Asked(toServer) : toServer'[i] = toServer[j]
    <2>1. CASE toServer' = toServer
      BY <2>1
    <2>2. CASE toServer # <<>> /\ toServer' = Tail(toServer)
      <3>1. /\ \A i \in Asked(Tail(toServer)) :
                  i + 1 \in Asked(toServer) /\ Tail(toServer)[i] = toServer[i + 1]
            /\ Lone(Asked(toServer)) => Lone(Asked(Tail(toServer)))
        BY <2>2, TailAsked
      <3> QED
        BY <2>2, <3>1
    <2> QED
      BY <2>1, <2>2
  <1>3. \A a \in Addr : Exact(a) <=> Exact(a)'
    BY DEF Exact
  <1>4. CASE gdb.mode = "gone"
    BY <1>1, <1>4 DEF BInv
  <1>5. CASE Resting
    BY <1>1, <1>2, <1>3, <1>5 DEF BInv, Resting
  <1>6. CASE Asking
    <2>1. ASSUME NEW i \in Asked(toServer') PROVE Settles(toServer[i])'
      <3>1. PICK j \in Asked(toServer) : toServer'[i] = toServer[j]
        BY <1>2
      <3>2. Settles(toServer[j])
        BY <1>6 DEF Asking
      <3> QED
        BY <1>3, <3>1, <3>2 DEF Settles
    <2> QED
      BY <1>1, <1>2, <1>6, <2>1 DEF BInv, Asking
  <1>7. CASE Answered
    BY <1>1, <1>2, <1>3, <1>7 DEF BInv, Answered
  <1> QED
    BY <1>4, <1>5, <1>6, <1>7 DEF BInv

\* A request is served: it was the only one, and its acknowledgement goes out.
LEMMA RequestServed ==
  ASSUME BInv, IInv, NEW kind, Serves(kind), UNCHANGED <<gdb, written>>,
         toClient' = Acked \/ (\E p \in Packets : toClient' = Append(Acked, p)),
         Settles(toServer[RequestPos]) => \A a \in Addr : Exact(a)'
  PROVE  BInv'
  <1>1. /\ toServer \in Seq(Requests \cup {Plus, Etx}) /\ toClient \in Seq(Answers)
        /\ Plus \in Answers /\ Acked \in Seq(Answers)
    BY DEF BInv, IInv, Acked, Answers
  <1>2. toClient' \in Seq(Answers) /\ (Acks(toClient) = {} => Lone(Acks(toClient')))
    <2>1. Acks(toClient) = {} => Lone(Acks(Acked))
      BY <1>1, AppendAcks DEF Acked
    <2>2. ASSUME NEW p \in Packets, toClient' = Append(Acked, p)
          PROVE  toClient' \in Seq(Answers) /\ Acks(toClient') = Acks(Acked)
      <3>1. p \in Answers /\ p.kind # "+"
        BY DEF Answers, Packets
      <3> QED
        BY <1>1, <2>2, <3>1, AppendAcks
    <2> QED
      BY <1>1, <2>1, <2>2
  <1>3. RequestPos \in Asked(toServer) /\ RequestPos \in 0..Len(toServer)
    <2>1. RequestPos \in 1..Len(toServer) /\ toServer[RequestPos] \in Requests
      BY <1>1, ServedRequest
    <2>2. IsRequest(toServer[RequestPos])
      BY <2>1 DEF Requests, IsRequest
    <2> QED
      BY <1>1, <2>1, <2>2 DEF Asked
  <1>4. toServer' = SubSeq(toServer, RequestPos + 1, Len(toServer))
    BY DEF Serves
  <1>5. Lone(Asked(toServer)) => Asked(toServer') = {}
    BY <1>1, <1>3, <1>4, RestAsked
  <1>6. CASE gdb.mode = "gone"
    BY <1>2, <1>6 DEF BInv
  <1>7. CASE Asking
    BY <1>2, <1>3, <1>5, <1>7 DEF Asking, Answered, BInv
  <1> QED
    BY <1>3, <1>6, <1>7 DEF BInv, Resting, Answered

\* A request but M that leaves memory and breakpoints alone.
LEMMA MemoryLeft ==
  ASSUME NEW kind, kind # "M", Serves(kind), UNCHANGED <<mpHash, written>>, cpu'.mem = cpu.mem,
         Settles(toServer[RequestPos])
  PROVE  \A a \in Addr : Exact(a)'
  <1>1. toServer[RequestPos].kind # "M"
    BY DEF Serves
  <1> QED
    BY <1>1 DEF Settles, Exact

\* What memory and the breakpoints are made of.
LEMMA MemoryTypes ==
  ASSUME BInv, IInv
  PROVE  /\ cpu.mem \in [Addr -> Insn] /\ mpHash \in [Addr -> Insn \cup {NoBreakpoint}]
         /\ \A a \in Addr : written[a] # NoBreakpoint
         /\ Both \in Pair /\ Agree(Both)
  BY DEF BInv, IInv, Agree, Pair, Cpu, Both, Held, NoBreakpoint

\* rspClientRequest.
LEMMA RequestBreakpoints ==
  ASSUME BInv, IInv, rspClientRequest, UNCHANGED <<gdb, written>>
  PROVE  BInv'
  <1> DEFINE addr == RequestAddr
  <1>1. /\ cpu.mem \in [Addr -> Insn] /\ mpHash \in [Addr -> Insn \cup {NoBreakpoint}]
        /\ \A a \in Addr : written[a] # NoBreakpoint
        /\ Both \in Pair /\ Agree(Both) /\ Both.cpu = cpu
    BY MemoryTypes DEF Both
  <1>2. ASSUME NEW kind, kind # "M", Serves(kind), UNCHANGED mpHash, cpu'.mem = cpu.mem,
               toClient' = Acked \/ (\E p \in Packets : toClient' = Append(Acked, p))
        PROVE  BInv'
    BY <1>2, MemoryLeft, RequestServed
  <1>3. ASSUME NEW kind \in {"stop", "OK", "npc", "detached"},
               NEW value \in Addr \cup {Flushed, "NONE", "TRAP"}, Replies(kind, value)
        PROVE  \E p \in Packets : toClient' = Append(Acked, p)
    <2>1. Token(kind, value) \in Packets
      BY DEF Token, Packets
    <2> QED
      BY <1>3, <2>1 DEF Replies, putPkt
  <1>4. ASSUME NEW on \in BOOLEAN, NEW kind \in {"c", "s"}, Serves(kind), Resumes(on) PROVE BInv'
    <2> DEFINE s1 == writeNpc(Both, ResumeAddr)
               s2 == clearDrr(s1)
               s3 == setSingleStep(s2, on)
    <2>1. Both.unit.stallState = "STALLED"
      BY <1>4, ServesStopped
    <2>2. RequestAddr \in Addr \cup {Flushed}
      <3>1. toServer[RequestPos] \in Requests /\ toServer[RequestPos].kind = kind
        BY <1>4, ServedRequest DEF IInv
      <3> QED
        BY <3>1 DEF Requests, RequestAddr
    <2>3. readNpc(Both) \in Addr
      BY <1>1, <2>1, KnownNpc DEF Agree, Pair, Cpu
    <2>4. ResumeAddr \in Addr
      BY <2>2, <2>3 DEF ResumeAddr
    <2>5. Agree(s1) /\ s1.cpu.mem = cpu.mem
      BY <1>1, <2>1, <2>4, WriteNpcAgrees, WriteNpcMem
    <2> HIDE DEF s1
    <2>6. Agree(s2) /\ s2.cpu.mem = cpu.mem
      BY <2>5, OthersAgree, MemKept DEF Agree
    <2> HIDE DEF s2
    <2>7. Agree(s3) /\ s3.cpu.mem = cpu.mem
      BY <2>6, OthersAgree, MemKept DEF Agree
    <2> HIDE DEF s3
    <2>8. unstall(s3).cpu.mem = cpu.mem
      BY <2>7, MemKept DEF Agree
    <2>9. cpu' = unstall(s3).cpu /\ UNCHANGED mpHash /\ toClient' = Acked
      BY <1>4 DEF Resumes, DebugUnitIs, s3, s2, s1
    <2> QED
      BY <1>2, <1>4, <2>8, <2>9
  <1>5. CASE rspContinue \/ rspStep
    BY <1>4, <1>5 DEF rspContinue, rspStep
  <1>6. CASE LastSignal
    <2>1. server.rsp_sigval \in {"NONE", "TRAP"}
      BY DEF IInv, Servers
    <2> QED
      BY <1>2, <1>3, <1>6, <2>1 DEF LastSignal
  <1>7. CASE Detach
    BY <1>2, <1>3, <1>7 DEF Detach
  <1>8. CASE Ignored
    BY <1>2, <1>8 DEF Ignored, NoReply
  <1>9. CASE rspReadReg
    <2>1. Serves("p") /\ Replies("npc", readNpc(Both)) /\ cpu' = npcRead(Both).cpu /\ UNCHANGED mpHash
      BY <1>9 DEF rspReadReg, DebugUnitIs
    <2>2. Both.unit.stallState = "STALLED"
      BY <2>1, ServesStopped
    <2>3. readNpc(Both) \in Addr
      BY <1>1, <2>2, KnownNpc DEF Agree, Pair, Cpu
    <2> QED
      BY <1>1, <1>2, <1>3, <2>1, <2>3, MemKept
  <1>10. CASE rspWriteReg
    <2>1. /\ Serves("P") /\ Replies("OK", Flushed)
          /\ cpu' = writeNpc(Both, RequestAddr).cpu /\ UNCHANGED mpHash
      BY <1>10 DEF rspWriteReg, DebugUnitIs
    <2>2. cpu'.mem = cpu.mem
      BY <1>1, <2>1, ServesStopped, WriteNpcMem
    <2> QED
      BY <1>2, <1>3, <2>1, <2>2
  <1>11. CASE rspRestart
    <2>1. /\ Serves("R") /\ toClient' = Acked
          /\ cpu' = writeNpc(Both, 1).cpu /\ UNCHANGED mpHash
      BY <1>11 DEF rspRestart, DebugUnitIs, NoReply
    <2>2. cpu'.mem = cpu.mem
      BY <1>1, <2>1, ServesStopped, WriteNpcMem
    <2> QED
      BY <1>2, <2>1, <2>2
  <1>12. CASE rspWriteMem
    <2>1. /\ Serves("M") /\ Replies("OK", Flushed)
          /\ cpu' = writeMem(Both, addr, "written").cpu /\ UNCHANGED mpHash
      BY <1>12 DEF rspWriteMem, DebugUnitIs
    <2>2. addr \in Addr /\ addr = toServer[RequestPos].addr /\ toServer[RequestPos].kind = "M"
      BY <2>1, AddressOf DEF RequestAddr, Serves
    <2>3. cpu'.mem = [cpu.mem EXCEPT ![addr] = "written"]
      BY <1>1, <2>1, <2>2, WriteMemAt
    <2>4. ASSUME Settles(toServer[RequestPos]), NEW a \in Addr PROVE Exact(a)'
      <3>1. CASE a = addr
        BY <1>1, <2>1, <2>2, <2>3, <2>4, <3>1 DEF Settles, Exact
      <3>2. CASE a # addr
        BY <1>1, <2>1, <2>2, <2>3, <2>4, <3>2 DEF Settles, Exact
      <3> QED
        BY <3>1, <3>2
    <2> QED
      BY <1>3, <2>1, <2>4, RequestServed
  <1>13. CASE rspInsertMatchpoint
    <2>1. /\ Serves("Z") /\ Replies("OK", Flushed)
          /\ cpu' = writeMem(Both, addr, "trap").cpu /\ mpHash' = HashAdd(addr, cpu.mem[addr])
      BY <1>13 DEF rspInsertMatchpoint, DebugUnitIs
    <2>2. addr \in Addr /\ toServer[RequestPos].kind = "Z"
      BY <2>1, AddressOf DEF Serves
    <2>3. cpu'.mem = [cpu.mem EXCEPT ![addr] = "trap"]
      BY <1>1, <2>1, <2>2, WriteMemAt
    <2>4. ASSUME Settles(toServer[RequestPos]), NEW a \in Addr PROVE Exact(a)'
      <3>1. Exact(a)
        BY <2>2, <2>4 DEF Settles
      <3>2. cpu'.mem[a] = (IF a = addr THEN "trap" ELSE cpu.mem[a])
        BY <1>1, <2>2, <2>3
      <3>3. mpHash'[a] = IF a = addr /\ mpHash[a] = NoBreakpoint THEN cpu.mem[a] ELSE mpHash[a]
        BY <1>1, <2>1, <2>2 DEF HashAdd
      <3>4. written' = written /\ written[a] # NoBreakpoint
        BY <1>1
      <3> QED
        BY <3>1, <3>2, <3>3, <3>4 DEF Exact
    <2> QED
      BY <1>3, <2>1, <2>4, RequestServed
  <1>14. CASE rspRemoveMatchpoint
    <2>1. Serves("z") /\ Replies("OK", Flushed)
      BY <1>14 DEF rspRemoveMatchpoint
    <2>2. addr \in Addr /\ toServer[RequestPos].kind = "z"
      BY <2>1, AddressOf DEF Serves
    <2>3. CASE mpHash[addr] = NoBreakpoint
      BY <1>2, <1>3, <1>14, <2>1, <2>3 DEF rspRemoveMatchpoint
    <2>4. CASE mpHash[addr] # NoBreakpoint
      <3>1. /\ cpu' = writeMem(Both, addr, mpHash[addr]).cpu
            /\ mpHash' = [mpHash EXCEPT ![addr] = NoBreakpoint]
        BY <1>14, <2>4 DEF rspRemoveMatchpoint, DebugUnitIs
      <3>2. cpu'.mem = [cpu.mem EXCEPT ![addr] = mpHash[addr]]
        BY <1>1, <2>2, <3>1, WriteMemAt
      <3>3. ASSUME Settles(toServer[RequestPos]), NEW a \in Addr PROVE Exact(a)'
        <4>1. Exact(a)
          BY <2>2, <3>3 DEF Settles
        <4>2. /\ cpu'.mem[a] = IF a = addr THEN mpHash[a] ELSE cpu.mem[a]
              /\ mpHash'[a] = IF a = addr THEN NoBreakpoint ELSE mpHash[a]
              /\ written' = written
          BY <1>1, <2>2, <3>1, <3>2
        <4> QED
          BY <2>4, <4>1, <4>2 DEF Exact
      <3> QED
        BY <1>3, <2>1, <3>3, RequestServed
    <2> QED
      BY <2>3, <2>4
  <1> QED
    BY <1>5, <1>6, <1>7, <1>8, <1>9, <1>10, <1>11, <1>12, <1>13, <1>14 DEF rspClientRequest

\* rspServer.
LEMMA ServerBreakpoints ==
  ASSUME BInv, IInv, Server
  PROVE  BInv'
  <1>1. /\ toServer \in Seq(Requests \cup {Plus, Etx}) /\ server.pkt \in Packets
        /\ \A v \in {"NONE", "TRAP"} : StopReply(v) \in Packets
        /\ server.rsp_sigval \in {"NONE", "TRAP"}
        /\ Both \in Pair /\ Agree(Both) /\ Both.cpu = cpu
    BY DEF IInv, Servers, Packets, StopReply, Token, Agree, Both
  <1>2. rspServer /\ UNCHANGED <<gdb, written>>
    BY DEF Server
  <1>3. ASSUME UNCHANGED mpHash, cpu'.mem = cpu.mem,
               toServer' = toServer \/ (toServer # <<>> /\ toServer' = Tail(toServer)),
               toClient' = toClient \/ (\E p \in Packets : toClient' = Append(toClient, p))
        PROVE  BInv'
    BY <1>1, <1>2, <1>3, Undisturbed
  <1>4. CASE MonitorAsks \/ TargetIsRunning \/ rspClose \/ rspSocketPeek
    BY <1>3, <1>4 DEF MonitorAsks, TargetIsRunning, rspClose, rspSocketPeek
  <1>5. CASE rspCheckForException
    <2>1. cpu' = stallNoted(Both).cpu /\ UNCHANGED <<mpHash, toServer, toClient>>
      BY <1>5 DEF rspCheckForException, DebugUnitIs
    <2> QED
      BY <1>1, <1>3, <2>1, MemKept
  <1>6. CASE TargetHasStopped
    <2> DEFINE s == stallNoted(Both)
    <2>1. Agree(s) /\ s.unit.stallState = "STALLED" /\ s.cpu = cpu
      BY <1>1, <1>6, StallNotedAgrees DEF TargetHasStopped
    <2>2. /\ cpu' = BackUp(s).cpu /\ UNCHANGED <<mpHash, toServer>>
          /\ toClient' = Append(toClient, StopReply(server.rsp_sigval))
      BY <1>6 DEF TargetHasStopped, DebugUnitIs
    <2>3. BackUp(s) \in {s, writeNpc(s, s.cpu.ppc)}
      BY DEF BackUp
    <2> HIDE DEF s
    <2>4. cpu'.mem = cpu.mem
      BY <2>1, <2>2, <2>3, WriteNpcMem
    <2> QED
      BY <1>1, <1>3, <2>2, <2>4
  <1>7. CASE StallTarget
    <2>1. /\ cpu' = stall(Both).cpu /\ UNCHANGED <<mpHash, toServer>>
          /\ toClient' = Append(toClient, StopReply("NONE"))
      BY <1>7 DEF StallTarget, DebugUnitIs
    <2> QED
      BY <1>1, <1>3, <2>1, MemKept
  <1>8. CASE AwaitAck
    <2>1. toClient' = toClient \/ toClient' = Append(toClient, server.pkt)
      BY <1>8 DEF AwaitAck, putPkt
    <2> QED
      BY <1>1, <1>3, <1>8, <2>1 DEF AwaitAck
  <1>9. CASE AckFails
    BY <1>3, <1>9 DEF AckFails
  <1>10. CASE rspClientRequest
    BY <1>2, <1>10, RequestBreakpoints
  <1> QED
    BY <1>2, <1>4, <1>5, <1>6, <1>7, <1>8, <1>9, <1>10 DEF rspServer

\* The client does not write where it has a breakpoint, and asks one thing at a time.
LEMMA SendBreakpoints ==
  ASSUME BInv, IInv, Send
  PROVE  BInv'
  <1>1. PICK r \in Sends :
          /\ r.kind = "M" => mpHash[r.addr] = NoBreakpoint
          /\ toServer' = Append(toServer, r)
          /\ gdb' = Client("ack", r.kind)
          /\ written' = IF r.kind = "M" THEN [written EXCEPT ![r.addr] = "written"] ELSE written
          /\ UNCHANGED <<cpu, mpHash, toClient>>
    BY DEF Send
  <1>2. Resting /\ gdb'.mode = "ack"
    BY <1>1 DEF BInv, Send, Asking, Answered, Client
  <1>3. r.kind = "M" => r.addr \in Addr
    BY SendsAssumption DEF Requests
  <1>4. written' \in [Addr -> Held]
        /\ \A a \in Addr : written'[a] = IF r.kind = "M" /\ r.addr = a THEN "written" ELSE written[a]
    BY <1>1, <1>3 DEF BInv, Held
  <1>5. Settles(r)'
    <2>1. ASSUME NEW a \in Addr, ~(r.kind = "M" /\ r.addr = a) PROVE Exact(a)'
      BY <1>1, <1>2, <1>4, <2>1 DEF Resting, Exact
    <2> QED
      BY <1>1, <1>3, <1>4, <2>1 DEF Settles
  <1>6. /\ Lone(Asked(toServer'))
        /\ \A i \in Asked(toServer') : toServer'[i] = r
    BY <1>1, <1>2, AppendAsked DEF IInv, Resting
  <1>7. \A i \in Asked(toServer') : Settles(toServer[i])'
    BY <1>5, <1>6 DEF Settles
  <1>8. Asking'
    BY <1>1, <1>2, <1>6, <1>7 DEF Asking, Resting
  <1> QED
    BY <1>1, <1>4, <1>8 DEF BInv

\* The acknowledgement tells the client that its request has been served.
LEMMA ReceiveBreakpoints ==
  ASSUME BInv, IInv, Receive
  PROVE  BInv'
  <1>1. /\ toClient # <<>> /\ toClient' = Tail(toClient) /\ gdb.mode # "gone"
        /\ UNCHANGED <<cpu, mpHash, written>> /\ toClient \in Seq(Answers)
    BY DEF Receive, ReceiveAck, ReceivePacket, BInv
  <1>2. /\ toClient' \in Seq(Answers) /\ (Acks(toClient) = {} => Acks(toClient') = {})
        /\ Lone(Acks(toClient)) => Lone(Acks(toClient'))
        /\ Lone(Acks(toClient)) /\ Head(toClient).kind = "+" => Acks(toClient') = {}
        /\ Head(toClient).kind = "+" => Acks(toClient) # {}
    <2>1. Head(toClient).kind = "+" => 1 \in Acks(toClient)
      BY <1>1 DEF Acks
    <2> QED
      BY <1>1, <2>1, RestAcks
  <1>3. \A a \in Addr : Exact(a) <=> Exact(a)'
    BY <1>1 DEF Exact
  <1>4. CASE ReceiveAck
    <2>1. Answered /\ Acks(toClient') = {} /\ UNCHANGED toServer
      <3>1. Head(toClient).kind = "+" /\ UNCHANGED toServer
        BY <1>4 DEF ReceiveAck
      <3>2. Answered
        BY <1>1, <1>2, <3>1 DEF BInv, Resting, Asking
      <3> QED
        BY <1>2, <3>1, <3>2 DEF Answered
    <2>2. gdb'.mode # "ack"
      BY <1>4, <2>1 DEF ReceiveAck, Answered, Client, Waits
    <2>3. Resting'
      BY <1>3, <2>1, <2>2 DEF Resting, Answered
    <2> QED
      BY <1>1, <1>2, <2>3 DEF BInv
  <1>5. CASE ReceivePacket
    <2>1. /\ toServer' = Append(toServer, Plus) /\ ~IsRequest(Plus)
          /\ toServer \in Seq(Requests \cup {Plus, Etx})
          /\ gdb.mode = "ack" => gdb' = gdb
          /\ gdb.mode # "ack" => gdb'.mode # "ack"
      BY <1>5 DEF ReceivePacket, IsRequest, Plus, Token, IInv, Client
    <2>2. /\ Asked(toServer') = Asked(toServer)
          /\ \A i \in Asked(toServer') : toServer'[i] = toServer[i]
      <3>1. Asked(toServer') = Asked(toServer)
        BY <2>1, AppendAsked
      <3>2. \A i \in Asked(toServer) : toServer'[i] = toServer[i]
        BY <2>1 DEF Asked
      <3> QED
        BY <3>1, <3>2
    <2>3. CASE Resting
      BY <1>1, <1>2, <1>3, <2>1, <2>2, <2>3 DEF BInv, Resting
    <2>4. CASE Asking
      <3>1. ASSUME NEW i \in Asked(toServer') PROVE Settles(toServer[i])'
        <4>1. Settles(toServer[i]) /\ toServer'[i] = toServer[i]
          BY <2>2, <2>4 DEF Asking
        <4> QED
          BY <1>1, <1>3, <4>1 DEF Settles
      <3> QED
        BY <1>1, <1>2, <2>1, <2>2, <2>4, <3>1 DEF BInv, Asking
    <2>5. CASE Answered
      BY <1>1, <1>2, <1>3, <2>1, <2>2, <2>5 DEF BInv, Answered
    <2> QED
      BY <1>1, <2>3, <2>4, <2>5 DEF BInv
  <1> QED
    BY <1>4, <1>5 DEF Receive

\* The interrupt is not a request.
LEMMA InterruptBreakpoints ==
  ASSUME BInv, IInv, Interrupt
  PROVE  BInv'
  <1>1. /\ toServer' = Append(toServer, Etx) /\ ~IsRequest(Etx)
        /\ toServer \in Seq(Requests \cup {Plus, Etx})
        /\ UNCHANGED <<cpu, mpHash, toClient, written>> /\ gdb.mode = "stop"
    BY DEF Interrupt, IsRequest, Etx, Token, IInv
  <1>2. Asked(toServer') = Asked(toServer)
    BY <1>1, AppendAsked
  <1>3. Resting
    BY <1>1 DEF BInv, Asking, Answered
  <1>4. gdb'.mode # "ack"
    BY <1>1 DEF Interrupt
  <1> QED
    BY <1>1, <1>2, <1>3, <1>4 DEF BInv, Resting, Exact

LEMMA BreakpointsStep == BInv /\ IInv /\ [Next]_vars => BInv'
  <1> SUFFICES ASSUME BInv, IInv, [Next]_vars PROVE BInv'
    OBVIOUS
  <1>1. CASE Disconnect
    BY <1>1 DEF Disconnect, BInv, Client
  <1>2. ASSUME cpu'.mem = cpu.mem, UNCHANGED <<mpHash, toServer, toClient, gdb, written>> PROVE BInv'
    BY <1>2, Undisturbed DEF IInv
  <1>3. CASE Target
    <2>1. cpu'.mem = cpu.mem
      BY <1>3 DEF Target, Execute, IInv, Agree, Pair, Cpu, Both
    <2> QED
      BY <1>2, <1>3, <2>1 DEF Target
  <1>4. CASE Monitor \/ UNCHANGED vars
    BY <1>2, <1>4 DEF Monitor, vars, serverVars
  <1> QED
    BY <1>1, <1>3, <1>4, ServerBreakpoints, SendBreakpoints, ReceiveBreakpoints,
       InterruptBreakpoints DEF Next, Ended

LEMMA BreakpointsInit == Init => BInv
  BY DEF Init, ServerInit, BInv, Resting, Asked, Acks, Exact, Client, Held, NoBreakpoint, Answers

-----------------------------------------------------------------------------
(* The theorem.                                                            *)

\* Between the requests of the client memory holds what it put there and traps
\* where it has a breakpoint and nowhere else (rspInsertMatchpoint,
\* rspRemoveMatchpoint, MpHash::add), for every program and every client that does
\* not write over its breakpoints.
THEOREM BreakpointsAreExact == Spec => []BreakpointsExact
  <1>1. BInv => BreakpointsExact
    BY DEF BInv, Resting, Asking, Answered, Exact, BreakpointsExact
  <1>2. Spec => [][Next]_vars /\ Init
    BY PTL DEF Spec
  <1>3. Spec => []BInv
    BY <1>2, Invariant, BreakpointsInit, BreakpointsStep, PTL
  <1> QED
    BY <1>1, <1>3, PTL

-----------------------------------------------------------------------------
(* Where the target goes on.  The client expects an address from the       *)
(* moment it asks for it or the target runs to it, and the server has to   *)
(* go there: after a trap it goes back to the instruction under the        *)
(* breakpoint.  While the target runs the client has nothing in the        *)
(* streams but the acknowledgement of the request that let it run, so that *)
(* it takes no old stop reply for the new one and changes nothing below a  *)
(* target that runs.                                                       *)

Modes == {"idle", "ack", "reply", "stop", "gone"}
Kinds == {"?", "c", "s", "D", "k", "p", "P", "R", "M", "z", "Z"}

RunInv ==
  /\ gdb \in [mode : Modes, asked : Kinds \cup {"none"}, interrupted : BOOLEAN]
  /\ gdb.mode = "ack" => \A i \in Asked(toServer) : toServer[i].kind = gdb.asked
  /\ \/ gdb.mode = "gone" \/ server.targetStopped
     \/ gdb.mode = "stop" /\ toClient = <<>>
     \/ /\ gdb.mode = "ack" /\ gdb.asked \in {"c", "s"}
        /\ toClient # <<>> /\ toClient[Len(toClient)] = Plus

\* A request that tells the target where to go on.
Moves(r)       == r.kind = "R" \/ (r.kind \in {"P", "c", "s"} /\ r.addr \in Addr)
Destination(r) == IF r.kind = "R" THEN 1 ELSE r.addr

\* A target that has stopped by itself: at a trap, or behind the instruction.
StoppedRight ==
  expected = IF cpu.mem[cpu.ppc] = "trap" THEN cpu.ppc ELSE cpu.npc

\* A target that the server has found stopped, or will be by the request under way.
GoalRight ==
  /\ gdb.mode # "ack" \/ Acks(toClient) # {} => cpu.npc = expected
  /\ \A i \in Asked(toServer) :
       expected = IF Moves(toServer[i]) THEN Destination(toServer[i]) ELSE cpu.npc

GoalInv ==
  gdb.mode # "gone" =>
    /\ ~server.targetStopped /\ cpu.stalled => StoppedRight
    /\ server.targetStopped /\ server.rsp_sigval = "TRAP" => GoalRight

-----------------------------------------------------------------------------
\* While the target runs, nothing is asked and memory is what it should be.
LEMMA Phases ==
  ASSUME BInv, RunInv, gdb.mode # "gone"
  PROVE  /\ ~server.targetStopped => Asked(toServer) = {} /\ \A a \in Addr : Exact(a)
         /\ gdb.mode # "ack" => Asked(toServer) = {} /\ Acks(toClient) = {}
         /\ Asked(toServer) # {} => gdb.mode = "ack" /\ Acks(toClient) = {}
         /\ Lone(Asked(toServer)) /\ Lone(Acks(toClient))
<1>1. gdb.mode # "ack" => Resting
  BY DEF BInv, Asking, Answered
<1>2. ASSUME ~server.targetStopped, gdb.mode = "ack" PROVE Answered
  <2>1. toClient \in Seq(Answers) /\ toClient # <<>> /\ toClient[Len(toClient)] = Plus
    BY <1>2 DEF RunInv, BInv
  <2>2. Len(toClient) \in Acks(toClient)
    BY <2>1 DEF Acks, Plus, Token
  <2> QED BY <1>2, <2>2 DEF BInv, Resting, Asking
<1>3. Lone(Asked(toServer)) /\ Lone(Acks(toClient))
  BY DEF BInv, Resting, Asking, Answered, Lone
<1>4. ~server.targetStopped => Asked(toServer) = {} /\ \A a \in Addr : Exact(a)
  BY <1>1, <1>2 DEF Resting, Answered
<1>5. gdb.mode # "ack" => Asked(toServer) = {} /\ Acks(toClient) = {}
  BY <1>1 DEF Resting
<1>6. Asked(toServer) # {} => gdb.mode = "ack" /\ Acks(toClient) = {}
  BY DEF BInv, Resting, Asking, Answered
<1> QED BY <1>3, <1>4, <1>5, <1>6

\* What is left of the stream to the server was in it.
LEMMA TokensLeft ==
  ASSUME toServer \in Seq(Requests \cup {Plus, Etx}),
         toServer' = toServer \/ (toServer # <<>> /\ toServer' = Tail(toServer))
  PROVE  \A i \in Asked(toServer') : \E j \in Asked(toServer) : toServer'[i] = toServer[j]
<1>1. CASE toServer' = toServer
  BY <1>1
<1>2. CASE toServer # <<>> /\ toServer' = Tail(toServer)
  <2>1. \A i \in Asked(Tail(toServer)) :
          i + 1 \in Asked(toServer) /\ Tail(toServer)[i] = toServer[i + 1]
    BY <1>2, TailAsked
  <2> QED BY <1>2, <2>1
<1> QED BY <1>1, <1>2

\* The steps of rspServer between requests: it waits for an acknowledgement, polls,
\* stalls the target, or finds it stopped.
LEMMA ServerMoves ==
  ASSUME IInv, rspServer, ~rspClientRequest
  PROVE  /\ toServer' = toServer \/ (toServer # <<>> /\ toServer' = Tail(toServer))
         /\ toClient' = toClient \/ (\E p \in Packets : toClient' = Append(toClient, p))
         /\ mpHash' = mpHash
         /\ \/ /\ server.targetStopped /\ server'.targetStopped /\ cpu' = cpu
               /\ server'.rsp_sigval = server.rsp_sigval
            \/ /\ ~server.targetStopped /\ ~server'.targetStopped /\ cpu' = cpu
               /\ toClient' = toClient
            \/ /\ ~server.targetStopped /\ server'.targetStopped
               /\ server'.rsp_sigval = "NONE"
            \/ /\ ~server.targetStopped /\ server'.targetStopped
               /\ server'.rsp_sigval = server.rsp_sigval
               /\ isStalled(Both) /\ cpu.stalled /\ cpu' = BackUp(stallNoted(Both)).cpu
<1> USE DEF At
<1>1. server \in Servers /\ Agree(Both) /\ Both.cpu = cpu
  BY DEF IInv, Both
<1>2. /\ server.pc \in {"poll", "check", "peek", "stall"} => ~server.targetStopped
      /\ server.pc \in {"request", "ack"} => server.targetStopped
      /\ server.pkt \in Packets /\ \A v \in {"NONE", "TRAP"} : StopReply(v) \in Packets
      /\ server.rsp_sigval \in {"NONE", "TRAP"}
  BY <1>1 DEF IInv, Serving, Servers, StopReply, Token, Packets
<1>3. CASE MonitorAsks \/ TargetIsRunning \/ rspSocketPeek
  <2>1. /\ UNCHANGED <<cpu, mpHash, toClient>>
        /\ toServer' = toServer \/ (toServer # <<>> /\ toServer' = Tail(toServer))
        /\ ~server.targetStopped
    BY <1>2, <1>3 DEF MonitorAsks, TargetIsRunning, rspSocketPeek
  <2>2. \E pc, caller : server' = [server EXCEPT !.pc = pc, !.caller = caller] \/ server' = [server EXCEPT !.pc = pc]
    BY <1>3, Zenon DEF MonitorAsks, TargetIsRunning, rspSocketPeek
  <2>3. server'.targetStopped = server.targetStopped
    BY <1>1, <2>2, Zenon DEF Servers
  <2> QED BY <2>1, <2>3
<1>4. CASE rspCheckForException
  <2>1. cpu' = stallNoted(Both).cpu /\ UNCHANGED <<mpHash, toServer, toClient>> /\ ~server.targetStopped
    BY <1>2, <1>4 DEF rspCheckForException, DebugUnitIs
  <2>2. cpu' = cpu
    BY <1>1, <2>1, StallNotedAgrees
  <2>3. \E v : server' = [server EXCEPT !.pc = "check", !.rsp_sigval = v]
    BY <1>4 DEF rspCheckForException
  <2>4. server'.targetStopped = server.targetStopped
    BY <1>1, <2>3, Zenon DEF Servers
  <2> QED BY <2>1, <2>2, <2>4
<1>5. CASE TargetHasStopped
  <2>1. /\ isStalled(Both) /\ cpu' = BackUp(stallNoted(Both)).cpu /\ ~server.targetStopped
        /\ UNCHANGED <<mpHash, toServer>>
        /\ toClient' = Append(toClient, StopReply(server.rsp_sigval))
    BY <1>2, <1>5 DEF TargetHasStopped, DebugUnitIs
  <2>2. cpu.stalled
    BY <1>1, <2>1, StallNotedAgrees DEF Agree
  <2>3. server' = [server EXCEPT !.pc = "ack", !.pkt = StopReply(server.rsp_sigval), !.targetStopped = TRUE]
    BY <1>5 DEF TargetHasStopped
  <2>4. server'.targetStopped /\ server'.rsp_sigval = server.rsp_sigval
    BY <1>1, <2>3, Zenon DEF Servers
  <2> QED BY <1>2, <2>1, <2>2, <2>4
<1>6. CASE StallTarget
  <2>1. /\ ~server.targetStopped /\ UNCHANGED <<mpHash, toServer>>
        /\ toClient' = Append(toClient, StopReply("NONE"))
    BY <1>2, <1>6 DEF StallTarget
  <2>2. server' = [server EXCEPT !.pc = "ack", !.pkt = StopReply("NONE"),
                              !.rsp_sigval = "NONE", !.targetStopped = TRUE,
                              !.caller = "none"]
    BY <1>6 DEF StallTarget
  <2>3. server'.targetStopped /\ server'.rsp_sigval = "NONE"
    BY <1>1, <2>2, Zenon DEF Servers
  <2> QED BY <1>2, <2>1, <2>3
<1>7. CASE AwaitAck \/ AckFails \/ rspClose
  <2>1. /\ server.targetStopped /\ UNCHANGED <<cpu, mpHash>>
        /\ toServer' = toServer \/ (toServer # <<>> /\ toServer' = Tail(toServer))
        /\ toClient' = toClient \/ toClient' = Append(toClient, server.pkt)
    BY <1>2, <1>7 DEF AwaitAck, AckFails, rspClose, putPkt
  <2>2. \E pc, pkt : server' = [server EXCEPT !.pkt = pkt, !.pc = pc] \/ server' = [server EXCEPT !.pc = pc, !.pkt = pkt]
                     \/ server' = [server EXCEPT !.pc = pc]
    BY <1>7, Zenon DEF AwaitAck, AckFails, rspClose, putPkt, PacketDone
  <2>3. server'.targetStopped = server.targetStopped /\ server'.rsp_sigval = server.rsp_sigval
    BY <1>1, <2>2, Zenon DEF Servers
  <2> QED BY <1>2, <2>1, <2>3
<1> QED BY <1>3, <1>4, <1>5, <1>6, <1>7 DEF rspServer

\* A trap sends the target back to the instruction under the breakpoint.
LEMMA BackUpGoes ==
  ASSUME IInv, isStalled(Both), server.rsp_sigval = "TRAP"
  PROVE  BackUp(stallNoted(Both)).cpu.npc = IF mpHash[cpu.ppc] # NoBreakpoint THEN cpu.ppc ELSE cpu.npc
<1> DEFINE s == stallNoted(Both)
<1>1. Agree(s) /\ s.unit.stallState = "STALLED" /\ s.cpu = cpu
  BY StallNotedAgrees DEF IInv, Both
<1>2. cpu.ppc \in Addr
  BY <1>1 DEF Agree, Pair, Cpu
<1>3. writeNpc(s, cpu.ppc).cpu.npc = cpu.ppc
  BY <1>1, <1>2, WriteNpcAgrees
<1> HIDE DEF s
<1>4. BackUp(s) = IF mpHash[cpu.ppc] # NoBreakpoint THEN writeNpc(s, cpu.ppc) ELSE s
  BY <1>1 DEF BackUp
<1> QED BY <1>1, <1>3, <1>4 DEF s

\* What a request does to the stop of the target and to its next address.
LEMMA RequestMoves ==
  ASSUME IInv, rspClientRequest
  PROVE  \E kind \in Kinds :
           /\ Serves(kind)
           /\ \/ /\ kind \in {"c", "s"} /\ ~server'.targetStopped /\ ~cpu'.stalled
                 /\ toClient' = Acked
              \/ /\ kind \notin {"c", "s"} /\ server'.targetStopped
                 /\ server'.rsp_sigval = server.rsp_sigval
                 /\ cpu'.npc = IF Moves(toServer[RequestPos])
                               THEN Destination(toServer[RequestPos]) ELSE cpu.npc
<1>1. server \in Servers /\ (server.pc = "request" => server.targetStopped)
  BY DEF IInv, Serving
<1>2. Agree(Both) /\ Both.cpu = cpu /\ Both.unit = unit /\ cpu \in Cpu
      /\ Both = [unit |-> unit, cpu |-> cpu]
  BY DEF IInv, Both, Agree, Pair
<1>3. ASSUME NEW on \in BOOLEAN, Resumes(on), NEW kind \in {"c", "s"}, Serves(kind)
      PROVE  ~server'.targetStopped /\ ~cpu'.stalled /\ toClient' = Acked
  <2> DEFINE s == setSingleStep(clearDrr(writeNpc(Both, ResumeAddr)), on)
  <2>1. /\ server' = [server EXCEPT !.pc = "poll", !.targetStopped = FALSE]
        /\ toClient' = Acked /\ cpu' = unstall(s).cpu
    BY <1>3 DEF Resumes, DebugUnitIs
  <2>2. ~server'.targetStopped
    BY <1>1, <2>1, Zenon DEF IInv, Servers
  <2>3. Agree(s)
    <3>1. ResumeAddr \in Addr
      <4>1. toServer[RequestPos] \in Requests
        BY <1>3, ServedRequest DEF IInv
      <4>2. RequestAddr \in Addr \cup {Flushed}
        BY <4>1 DEF Requests, RequestAddr
      <4>3. readNpc(Both) \in Addr
        BY <1>2, <1>3, ServesStopped, KnownNpc DEF Cpu
      <4> QED BY <4>2, <4>3 DEF ResumeAddr
    <3>2. Agree(writeNpc(Both, ResumeAddr))
      BY <1>2, <1>3, <3>1, ServesStopped, WriteNpcAgrees
    <3> QED BY <3>2, OthersAgree
  <2> HIDE DEF s
  <2>4. ~unstall(s).cpu.stalled
    <3>1. s = [unit |-> s.unit, cpu |-> s.cpu] /\ s.cpu \in Cpu
      BY <2>3 DEF Agree, Pair
    <3>2. unstall(s).cpu = [s.cpu EXCEPT !.stalled = FALSE]
      BY <3>1 DEF unstall
    <3> QED BY <3>1, <3>2 DEF Cpu
  <2> QED BY <2>1, <2>2, <2>4
<1>4. ASSUME NEW kind \in Kinds, kind \notin {"c", "s"}, Serves(kind),
             server' = server \/ (\E k, v : Replies(k, v)),
             cpu'.npc = IF Moves(toServer[RequestPos])
                        THEN Destination(toServer[RequestPos]) ELSE cpu.npc
      PROVE  \E k \in Kinds :
               /\ Serves(k)
               /\ \/ /\ k \in {"c", "s"} /\ ~server'.targetStopped /\ ~cpu'.stalled
                     /\ toClient' = Acked
                  \/ /\ k \notin {"c", "s"} /\ server'.targetStopped
                     /\ server'.rsp_sigval = server.rsp_sigval
                     /\ cpu'.npc = IF Moves(toServer[RequestPos])
                                   THEN Destination(toServer[RequestPos]) ELSE cpu.npc
  <2>1. server.targetStopped
    BY <1>1, <1>4 DEF Serves, At
  <2>2. server' = server \/ \E pkt : server' = [server EXCEPT !.pc = "ack", !.pkt = pkt]
    BY <1>4 DEF Replies, putPkt
  <2>3. server'.targetStopped = server.targetStopped /\ server'.rsp_sigval = server.rsp_sigval
    BY <2>2, Zenon DEF IInv, Servers
  <2> QED BY <1>4, <2>1, <2>3
<1>5. ASSUME NEW kind, Serves(kind)
      PROVE  /\ toServer[RequestPos] \in Requests /\ toServer[RequestPos].kind = kind
             /\ RequestAddr = toServer[RequestPos].addr
             /\ kind \notin {"P", "R", "c", "s"} => ~Moves(toServer[RequestPos])
             /\ Both.unit.stallState = "STALLED"
  BY <1>5, ServedRequest, ServesStopped DEF IInv, Moves, RequestAddr
<1>6. CASE rspContinue \/ rspStep
  <2>1. PICK kind \in {"c", "s"}, on \in BOOLEAN : Serves(kind) /\ Resumes(on)
    BY <1>6 DEF rspContinue, rspStep
  <2> QED BY <1>3, <2>1 DEF Kinds
<1>7. CASE LastSignal \/ Detach \/ Ignored
  <2>1. PICK kind \in {"?", "D", "k"} : Serves(kind)
    BY <1>7 DEF LastSignal, Detach, Ignored
  <2>2. cpu' = cpu /\ (server' = server \/ (\E k, v : Replies(k, v)))
    BY <1>7 DEF LastSignal, Detach, Ignored, NoReply
  <2> QED BY <1>4, <1>5, <2>1, <2>2 DEF Kinds
<1>8. CASE rspReadReg
  <2>1. Serves("p") /\ Replies("npc", readNpc(Both)) /\ cpu' = npcRead(Both).cpu
    BY <1>8 DEF rspReadReg, DebugUnitIs
  <2>2. cpu' = cpu
    BY <1>2, <1>5, <2>1, NpcReadAgrees
  <2> QED BY <1>4, <1>5, <2>1, <2>2 DEF Kinds
<1>9. CASE rspWriteReg
  <2>1. Serves("P") /\ Replies("OK", Flushed) /\ cpu' = writeNpc(Both, RequestAddr).cpu
    BY <1>9 DEF rspWriteReg, DebugUnitIs
  <2>2. RequestAddr \in Addr
    BY <2>1, AddressOf
  <2>3. cpu'.npc = RequestAddr
    BY <1>2, <1>5, <2>1, <2>2, WriteNpcAgrees
  <2>4. Moves(toServer[RequestPos]) /\ Destination(toServer[RequestPos]) = RequestAddr
    BY <1>5, <2>1, <2>2 DEF Moves, Destination
  <2> QED BY <1>4, <2>1, <2>3, <2>4 DEF Kinds
<1>10. CASE rspRestart
  <2>1. Serves("R") /\ server' = server /\ cpu' = writeNpc(Both, 1).cpu
    BY <1>10 DEF rspRestart, NoReply, DebugUnitIs
  <2>2. cpu'.npc = 1
    BY <1>2, <1>5, <2>1, Addresses, WriteNpcAgrees
  <2>3. Moves(toServer[RequestPos]) /\ Destination(toServer[RequestPos]) = 1
    BY <1>5, <2>1 DEF Moves, Destination
  <2> QED BY <1>4, <2>1, <2>2, <2>3 DEF Kinds
<1>11. CASE rspWriteMem \/ rspInsertMatchpoint \/ rspRemoveMatchpoint
  <2>1. PICK kind \in {"M", "Z", "z"} : Serves(kind) /\ Replies("OK", Flushed)
    BY <1>11 DEF rspWriteMem, rspInsertMatchpoint, rspRemoveMatchpoint
  <2>2. cpu' = cpu \/ \E insn : cpu' = writeMem(Both, RequestAddr, insn).cpu
    BY <1>11 DEF rspWriteMem, rspInsertMatchpoint, rspRemoveMatchpoint, DebugUnitIs
  <2>3. \A insn : writeMem(Both, RequestAddr, insn).cpu = [cpu EXCEPT !.mem[RequestAddr] = insn]
    BY <1>2 DEF writeMem
  <2>4. ASSUME NEW insn, cpu' = [cpu EXCEPT !.mem[RequestAddr] = insn] PROVE cpu'.npc = cpu.npc
    BY <1>2, <2>4 DEF Cpu
  <2>5. cpu'.npc = cpu.npc
    BY <2>2, <2>3, <2>4
  <2> QED BY <1>4, <1>5, <2>1, <2>5 DEF Kinds
<1> QED BY <1>6, <1>7, <1>8, <1>9, <1>10, <1>11 DEF rspClientRequest

\* The request that is served is the one the client waits for.
LEMMA ServedOne ==
  ASSUME IInv, BInv, RunInv, gdb.mode # "gone", NEW kind, Serves(kind)
  PROVE  /\ RequestPos \in Asked(toServer) /\ Asked(toServer') = {}
         /\ gdb.mode = "ack" /\ gdb.asked = kind
<1>1. /\ RequestPos \in 1..Len(toServer) /\ toServer[RequestPos] \in Requests
      /\ toServer[RequestPos].kind = kind
  BY ServedRequest DEF IInv
<1>2. RequestPos \in Asked(toServer)
  BY <1>1 DEF Asked, Requests, IsRequest, IInv
<1>3. toServer' = SubSeq(toServer, RequestPos + 1, Len(toServer)) /\ RequestPos \in 0..Len(toServer)
  BY <1>1 DEF Serves
<1>4. Asked(toServer') = {}
  BY <1>2, <1>3, Phases, RestAsked DEF IInv
<1> QED BY <1>1, <1>2, <1>4, Phases DEF RunInv

-----------------------------------------------------------------------------
\* A request is of one of the kinds, and what the client waits for is a mode.
LEMMA ClientTypes ==
  /\ \A r \in Sends : r.kind \in Kinds /\ IsRequest(r)
  /\ \A kind \in Kinds \cup {"none"} : Waits(kind) \in Modes \ {"ack", "gone"}
  /\ \A mode, asked : Client(mode, asked) = [mode |-> mode, asked |-> asked, interrupted |-> FALSE]
<1>1. \A r \in Sends : r.kind \in Kinds /\ IsRequest(r)
  BY SendsAssumption DEF Requests, Kinds, IsRequest
<1>2. \A kind \in Kinds \cup {"none"} : Waits(kind) \in Modes \ {"ack", "gone"}
  BY DEF Waits, Modes, Kinds
<1> QED BY <1>1, <1>2 DEF Client

\* The last element of a stream stays the last when others are taken.
LEMMA LastStays ==
  ASSUME NEW T, NEW s \in Seq(T), s # <<>>, Head(s) # s[Len(s)]
  PROVE  Tail(s) # <<>> /\ Tail(s)[Len(Tail(s))] = s[Len(s)]
<1>1. Len(s) \in Nat /\ Len(s) # 0 /\ Len(s) # 1
  OBVIOUS
<1>2. Len(s) > 1
  BY <1>1
<1>3. Len(Tail(s)) = Len(s) - 1
  OBVIOUS
<1>4. \A i \in 1..Len(s) - 1 : Tail(s)[i] = s[i + 1]
  OBVIOUS
<1>5. Len(s) - 1 \in 1..Len(s) - 1 /\ (Len(s) - 1) + 1 = Len(s)
  BY <1>1, <1>2
<1>6. Tail(s) # <<>>
  <2>1. Len(<<>>) = 0
    OBVIOUS
  <2>2. Len(Tail(s)) # 0
    BY <1>1, <1>2, <1>3
  <2> QED BY <2>1, <2>2
<1> QED BY <1>3, <1>4, <1>5, <1>6

\* What the server does while the client waits.
LEMMA ServerRuns ==
  ASSUME IInv, BInv, RunInv, Server
  PROVE  RunInv'
<1>1. gdb' = gdb /\ rspServer
  BY DEF Server
<1>2. CASE gdb.mode = "gone"
  BY <1>1, <1>2 DEF RunInv
<1>3. CASE gdb.mode # "gone" /\ ~rspClientRequest
  <2>1. \A i \in Asked(toServer') : \E j \in Asked(toServer) : toServer'[i] = toServer[j]
    BY <1>1, <1>3, ServerMoves, TokensLeft DEF IInv
  <2>2. gdb.mode = "ack" => \A i \in Asked(toServer') : toServer'[i].kind = gdb.asked
    BY <2>1 DEF RunInv
  <2>3. server'.targetStopped \/ (~server.targetStopped /\ toClient' = toClient)
    BY <1>1, <1>3, ServerMoves
  <2> QED BY <1>1, <1>3, <2>2, <2>3 DEF RunInv
<1>4. CASE gdb.mode # "gone" /\ rspClientRequest
  <2>1. PICK kind \in Kinds :
          /\ Serves(kind)
          /\ \/ kind \in {"c", "s"} /\ toClient' = Acked
             \/ kind \notin {"c", "s"} /\ server'.targetStopped
    BY <1>4, RequestMoves
  <2>2. Asked(toServer') = {} /\ gdb.mode = "ack" /\ gdb.asked = kind
    BY <1>4, <2>1, ServedOne
  <2>3. toClient' = Acked => toClient' # <<>> /\ toClient'[Len(toClient')] = Plus
    <3>1. toClient \in Seq(Answers)
      BY DEF BInv
    <3>2. Append(toClient, Plus) # <<>> /\ Append(toClient, Plus)[Len(Append(toClient, Plus))] = Plus
      BY <3>1
    <3> QED BY <3>2 DEF Acked
  <2> QED BY <1>1, <2>1, <2>2, <2>3 DEF RunInv
<1> QED BY <1>2, <1>3, <1>4

\* What the client receives.
LEMMA ReceiveRuns ==
  ASSUME IInv, BInv, RunInv, Receive
  PROVE  RunInv'
<1>1. /\ toClient \in Seq(Answers) /\ toClient # <<>> /\ toClient' = Tail(toClient)
      /\ gdb.mode # "gone" /\ server' = server
  BY DEF Receive, ReceiveAck, ReceivePacket, BInv
<1>2. /\ gdb \in [mode : Modes, asked : Kinds \cup {"none"}, interrupted : BOOLEAN]
      /\ \/ server.targetStopped
         \/ gdb.mode = "ack" /\ gdb.asked \in {"c", "s"} /\ toClient[Len(toClient)] = Plus
  BY <1>1 DEF RunInv
<1>3. CASE ReceiveAck /\ gdb.mode = "ack"
  <2>1. gdb' = Client(Waits(gdb.asked), "none") /\ Head(toClient).kind = "+"
    BY <1>3 DEF ReceiveAck
  <2>2. Waits(gdb.asked) \in Modes \ {"ack", "gone"} /\ (gdb.asked \in {"c", "s"} => Waits(gdb.asked) = "stop")
    BY <1>2, ClientTypes DEF Waits
  <2>3. /\ gdb' \in [mode : Modes, asked : Kinds \cup {"none"}, interrupted : BOOLEAN]
        /\ gdb'.mode # "ack" /\ (gdb.asked \in {"c", "s"} => gdb'.mode = "stop")
    BY <2>1, <2>2 DEF Client
  <2>4. ASSUME ~server.targetStopped PROVE toClient' = <<>>
    <3>1. 1 \in Acks(toClient) /\ Len(toClient) \in Acks(toClient)
      BY <1>1, <1>2, <2>1, <2>4 DEF Acks, Plus, Token
    <3>2. Len(toClient) = 1
      BY <1>1, <3>1, Phases DEF Lone
    <3> QED BY <1>1, <3>2
  <2> QED BY <1>1, <1>2, <2>3, <2>4 DEF RunInv
<1>4. CASE ReceiveAck /\ gdb.mode # "ack"
  BY <1>1, <1>2, <1>4 DEF ReceiveAck, RunInv
<1>5. CASE ReceivePacket /\ gdb.mode = "ack"
  <2>1. gdb' = gdb /\ toServer' = Append(toServer, Plus) /\ Head(toClient).kind # "+"
    BY <1>5 DEF ReceivePacket
  <2>2. \A i \in Asked(toServer') : i \in Asked(toServer) /\ toServer'[i] = toServer[i]
    <3>1. ~IsRequest(Plus) /\ toServer \in Seq(Requests \cup {Plus, Etx})
      BY DEF IInv, IsRequest, Plus, Token
    <3>2. Asked(toServer') = Asked(toServer)
      BY <2>1, <3>1, AppendAsked
    <3>3. \A i \in Asked(toServer) : toServer'[i] = toServer[i]
      BY <2>1, <3>1 DEF Asked
    <3> QED BY <3>2, <3>3
  <2>3. ASSUME toClient[Len(toClient)] = Plus PROVE toClient' # <<>> /\ toClient'[Len(toClient')] = Plus
    <3>1. Head(toClient) # Plus
      BY <2>1 DEF Plus, Token
    <3> QED BY <1>1, <2>3, <3>1, LastStays
  <2> QED BY <1>1, <1>2, <1>5, <2>1, <2>2, <2>3 DEF RunInv
<1>6. CASE ReceivePacket /\ gdb.mode # "ack"
  <2>1. PICK mode \in {"idle", "gone"} : gdb' = Client(mode, "none")
    BY <1>6 DEF ReceivePacket
  <2>2. gdb' \in [mode : Modes, asked : Kinds \cup {"none"}, interrupted : BOOLEAN] /\ gdb'.mode # "ack"
    BY <2>1 DEF Client, Modes
  <2> QED BY <1>1, <1>2, <1>6, <2>2 DEF RunInv
<1> QED BY <1>3, <1>4, <1>5, <1>6 DEF Receive

LEMMA RunStep == IInv /\ BInv /\ RunInv /\ [Next]_vars => RunInv'
<1> SUFFICES ASSUME IInv, BInv, RunInv, [Next]_vars PROVE RunInv'
  OBVIOUS
<1>1. CASE Send
  <2>1. PICK r \in Sends : toServer' = Append(toServer, r) /\ gdb' = Client("ack", r.kind)
    BY <1>1 DEF Send
  <2>2. gdb.mode = "idle" /\ server' = server /\ toClient' = toClient
    BY <1>1 DEF Send
  <2>3. server.targetStopped
    BY <2>2 DEF RunInv
  <2>4. /\ gdb' \in [mode : Modes, asked : Kinds \cup {"none"}, interrupted : BOOLEAN]
        /\ gdb'.asked = r.kind
    BY <2>1, ClientTypes DEF Modes
  <2>5. \A i \in Asked(toServer') : toServer'[i] = r
    BY <2>1, <2>2, Phases, AppendAsked DEF IInv
  <2> QED BY <2>2, <2>3, <2>4, <2>5 DEF RunInv
<1>2. CASE Interrupt
  BY <1>2 DEF Interrupt, RunInv
<1>3. CASE Disconnect
  BY <1>3 DEF Disconnect, RunInv, Client, Modes
<1>4. CASE Target \/ Monitor \/ UNCHANGED vars
  BY <1>4 DEF Target, Monitor, vars, serverVars, RunInv
<1> QED BY <1>1, <1>2, <1>3, <1>4, ServerRuns, ReceiveRuns DEF Next, Ended

-----------------------------------------------------------------------------
\* The server sends no acknowledgement but the one of a request.
LEMMA PacketSent ==
  ASSUME BInv, toClient' = toClient \/ (\E p \in Packets : toClient' = Append(toClient, p))
  PROVE  Acks(toClient') = Acks(toClient)
<1>1. \A p \in Packets : p.kind # "+"
  BY DEF Packets
<1> QED BY <1>1, AppendAcks DEF BInv

\* The server finds the target stopped at a trap, and sends it back.
LEMMA StopFound ==
  ASSUME IInv, BInv, RunInv, GoalInv, gdb.mode # "gone", ~server.targetStopped,
         isStalled(Both), cpu.stalled, server.rsp_sigval = "TRAP",
         cpu' = BackUp(stallNoted(Both)).cpu
  PROVE  cpu'.npc = expected
<1>1. cpu'.npc = IF mpHash[cpu.ppc] # NoBreakpoint THEN cpu.ppc ELSE cpu.npc
  BY BackUpGoes
<1>2. expected = IF cpu.mem[cpu.ppc] = "trap" THEN cpu.ppc ELSE cpu.npc
  BY DEF GoalInv, StoppedRight
<1>3. cpu.ppc \in Addr
  BY DEF IInv, Agree, Pair, Cpu, Both
<1>4. Exact(cpu.ppc) /\ written[cpu.ppc] # "trap"
  BY <1>3, Phases DEF BInv, Held
<1> QED BY <1>1, <1>2, <1>4 DEF Exact

\* rspServer goes where the client expects it.
LEMMA ServerGoal ==
  ASSUME IInv, BInv, RunInv, GoalInv, Server
  PROVE  GoalInv'
<1>1. gdb' = gdb /\ expected' = expected /\ rspServer
  BY DEF Server
<1>2. CASE gdb.mode = "gone"
  BY <1>1, <1>2 DEF GoalInv
<1>3. CASE gdb.mode # "gone" /\ ~rspClientRequest
  <2>1. \A i \in Asked(toServer') : \E j \in Asked(toServer) : toServer'[i] = toServer[j]
    BY <1>1, <1>3, ServerMoves, TokensLeft DEF IInv
  <2>2. Acks(toClient') = Acks(toClient)
    BY <1>1, <1>3, ServerMoves, PacketSent
  <2>3. CASE server.targetStopped /\ server'.targetStopped /\ cpu' = cpu
             /\ server'.rsp_sigval = server.rsp_sigval
    <3>1. GoalRight => GoalRight'
      BY <1>1, <2>1, <2>2, <2>3 DEF GoalRight
    <3> QED BY <1>3, <2>3, <3>1 DEF GoalInv
  <2>4. CASE ~server.targetStopped /\ ~server'.targetStopped /\ cpu' = cpu
    <3>1. StoppedRight => StoppedRight'
      BY <1>1, <2>4 DEF StoppedRight
    <3> QED BY <1>3, <2>4, <3>1 DEF GoalInv
  <2>5. CASE ~server.targetStopped /\ server'.targetStopped /\ server'.rsp_sigval = "NONE"
    BY <2>5 DEF GoalInv
  <2>6. CASE ~server.targetStopped /\ server'.targetStopped
             /\ server'.rsp_sigval = server.rsp_sigval
             /\ isStalled(Both) /\ cpu.stalled /\ cpu' = BackUp(stallNoted(Both)).cpu
    <3>1. Asked(toServer') = {}
      BY <1>3, <2>1, <2>6, Phases
    <3>2. server.rsp_sigval = "TRAP" => cpu'.npc = expected
      BY <1>3, <2>6, StopFound
    <3> QED BY <1>1, <2>6, <3>1, <3>2 DEF GoalInv, GoalRight
  <2> QED BY <1>1, <1>3, <2>3, <2>4, <2>5, <2>6, ServerMoves
<1>4. CASE gdb.mode # "gone" /\ rspClientRequest
  <2>1. PICK kind \in Kinds :
          /\ Serves(kind)
          /\ \/ ~server'.targetStopped /\ ~cpu'.stalled
             \/ /\ server'.targetStopped /\ server'.rsp_sigval = server.rsp_sigval
                /\ cpu'.npc = IF Moves(toServer[RequestPos])
                              THEN Destination(toServer[RequestPos]) ELSE cpu.npc
    BY <1>4, RequestMoves
  <2>2. RequestPos \in Asked(toServer) /\ Asked(toServer') = {}
    BY <1>4, <2>1, ServedOne
  <2>3. server.targetStopped
    BY <2>1, ServesStopped
  <2>4. server.rsp_sigval = "TRAP" =>
          expected = IF Moves(toServer[RequestPos])
                     THEN Destination(toServer[RequestPos]) ELSE cpu.npc
    BY <1>4, <2>2, <2>3 DEF GoalInv, GoalRight
  <2> QED BY <1>1, <2>1, <2>2, <2>4 DEF GoalInv, GoalRight
<1> QED BY <1>2, <1>3, <1>4

\* The client asks: it expects the address it asks for.
LEMMA SendGoal ==
  ASSUME IInv, BInv, RunInv, GoalInv, Send
  PROVE  GoalInv'
<1>1. PICK r \in Sends :
        /\ toServer' = Append(toServer, r)
        /\ gdb' = Client("ack", r.kind)
        /\ expected' = CASE r.kind = "R" -> 1
                         [] r.kind \in {"P", "c", "s"} /\ r.addr \in Addr -> r.addr
                         [] OTHER -> expected
  BY DEF Send
<1>2. gdb.mode = "idle" /\ UNCHANGED <<server, cpu, toClient>>
  BY DEF Send
<1>3. server.targetStopped
  BY <1>2 DEF RunInv
<1>4. Asked(toServer) = {} /\ Acks(toClient) = {}
  BY <1>2, Phases
<1>5. \A i \in Asked(toServer') : toServer'[i] = r
  BY <1>1, <1>4, AppendAsked DEF IInv
<1>6. server.rsp_sigval = "TRAP" => cpu.npc = expected
  BY <1>2, <1>3 DEF GoalInv, GoalRight
<1>7. expected' = IF Moves(r) THEN Destination(r) ELSE expected
  BY <1>1 DEF Moves, Destination
<1>8. gdb'.mode = "ack" /\ Acks(toClient') = {}
  BY <1>1, <1>2, <1>4 DEF Client
<1>9. server.rsp_sigval = "TRAP" => GoalRight'
  BY <1>2, <1>5, <1>6, <1>7, <1>8 DEF GoalRight
<1> QED BY <1>2, <1>3, <1>9 DEF GoalInv

\* The client hears of the request, or interrupts: neither asks for an address.
LEMMA ClientGoal ==
  ASSUME IInv, BInv, RunInv, GoalInv, Receive \/ Interrupt
  PROVE  GoalInv'
<1>1. gdb.mode # "gone" /\ UNCHANGED <<server, cpu, expected>>
  BY DEF Receive, ReceiveAck, ReceivePacket, Interrupt
<1>2. toServer' = toServer \/ toServer' = Append(toServer, Plus) \/ toServer' = Append(toServer, Etx)
  BY DEF Receive, ReceiveAck, ReceivePacket, Interrupt
<1>3. \A i \in Asked(toServer') : i \in Asked(toServer) /\ toServer'[i] = toServer[i]
  <2>1. /\ ~IsRequest(Plus) /\ ~IsRequest(Etx)
        /\ toServer \in Seq(Requests \cup {Plus, Etx})
    BY DEF IInv, IsRequest, Plus, Etx, Token
  <2>2. ASSUME NEW e \in {Plus, Etx}, toServer' = Append(toServer, e)
        PROVE  \A i \in Asked(toServer') : i \in Asked(toServer) /\ toServer'[i] = toServer[i]
    <3>1. Asked(toServer') = Asked(toServer)
      BY <2>1, <2>2, AppendAsked
    <3>2. \A i \in Asked(toServer) : toServer'[i] = toServer[i]
      BY <2>1, <2>2 DEF Asked
    <3> QED BY <3>1, <3>2
  <2> QED BY <1>2, <2>2
<1>4. gdb'.mode # "ack" \/ Acks(toClient') # {} => gdb.mode # "ack" \/ Acks(toClient) # {}
  <2>1. CASE ReceiveAck
    <3>1. toClient \in Seq(Answers) /\ toClient # <<>> /\ Head(toClient).kind = "+"
      BY <2>1 DEF ReceiveAck, BInv
    <3>2. 1 \in Acks(toClient)
      BY <3>1 DEF Acks
    <3> QED BY <3>2
  <2>2. CASE ReceivePacket
    <3>1. toClient \in Seq(Answers) /\ toClient # <<>> /\ toClient' = Tail(toClient)
      BY <2>2 DEF ReceivePacket, BInv
    <3>2. Acks(toClient) = {} => Acks(toClient') = {}
      BY <3>1, RestAcks
    <3>3. gdb.mode = "ack" => gdb' = gdb
      BY <2>2 DEF ReceivePacket
    <3> QED BY <3>2, <3>3
  <2>3. CASE Interrupt
    BY <2>3 DEF Interrupt
  <2> QED BY <2>1, <2>2, <2>3 DEF Receive
<1>5. (StoppedRight => StoppedRight') /\ (GoalRight => GoalRight')
  BY <1>1, <1>3, <1>4 DEF StoppedRight, GoalRight
<1> QED BY <1>1, <1>5 DEF GoalInv

\* The target stops at a trap, or behind the instruction.
LEMMA TargetGoal ==
  ASSUME IInv, GoalInv, Target
  PROVE  GoalInv'
<1>1. /\ ~cpu.stalled /\ cpu' = Execute(cpu) /\ server' = server
      /\ expected' = IF cpu.mem[cpu.npc] = "trap" THEN cpu.npc ELSE NextAddr(cpu.npc)
  BY DEF Target
<1>2. ~server.targetStopped /\ cpu \in Cpu
  BY <1>1 DEF IInv, Agree, Pair, Both
<1>3. cpu'.ppc = cpu.npc /\ cpu'.npc = NextAddr(cpu.npc) /\ cpu'.mem = cpu.mem
  BY <1>1, <1>2 DEF Execute, Cpu
<1>4. StoppedRight'
  BY <1>1, <1>3 DEF StoppedRight
<1> QED BY <1>1, <1>2, <1>4 DEF GoalInv

LEMMA GoalStep == IInv /\ BInv /\ RunInv /\ GoalInv /\ [Next]_vars => GoalInv'
<1> SUFFICES ASSUME IInv, BInv, RunInv, GoalInv, [Next]_vars PROVE GoalInv'
  OBVIOUS
<1>1. CASE Disconnect
  BY <1>1 DEF Disconnect, GoalInv, Client
<1>2. CASE Monitor \/ UNCHANGED vars
  BY <1>2 DEF Monitor, vars, serverVars, GoalInv, StoppedRight, GoalRight
<1> QED BY <1>1, <1>2, ServerGoal, SendGoal, ClientGoal, TargetGoal DEF Next, Ended

LEMMA GoalInit == Init => RunInv /\ GoalInv
<1> SUFFICES ASSUME Init PROVE RunInv /\ GoalInv
  OBVIOUS
<1>1. /\ gdb = Client("idle", "none") /\ server.targetStopped /\ server.rsp_sigval = "NONE"
  BY DEF Init, ServerInit
<1> QED BY <1>1 DEF RunInv, GoalInv, Client, Modes

\* After a stop with signal TRAP the target goes on with the very instruction that
\* comes next, the one under a breakpoint included, however server, processor and
\* client interleave (rspServer, rspCheckForException, GdbServerSC.cpp), for every
\* program and every client that does not write over its breakpoints.
THEOREM TrapStopsAreExact == Spec => []TrapStopExact
<1>1. GoalInv => TrapStopExact
  BY DEF GoalInv, GoalRight, TrapStopExact
<1>2. Init => BInv /\ RunInv /\ GoalInv
  BY BreakpointsInit, GoalInit
<1>3. BInv /\ RunInv /\ GoalInv /\ IInv /\ [Next]_vars => BInv' /\ RunInv' /\ GoalInv'
  BY BreakpointsStep, RunStep, GoalStep
<1>4. Spec => [][Next]_vars /\ Init
  BY PTL DEF Spec
<1>5. Spec => [](BInv /\ RunInv /\ GoalInv)
  BY <1>2, <1>3, <1>4, Invariant, PTL
<1> QED BY <1>1, <1>5, PTL

-----------------------------------------------------------------------------
(* The streams stay short.  What is in them is counted: every element is   *)
(* the one request, the one interrupt character, the one acknowledgement   *)
(* of a request, the packet the server waits to have acknowledged, or the  *)
(* acknowledgement of that, and at most one more.                          *)

Etxs(stream) == {i \in DOMAIN stream : stream[i].kind = "ETX"}

One(b) == IF b THEN 1 ELSE 0

Weight == One(At("ack")) + One(Etxs(toServer) # {}) + One(Asked(toServer) # {})
          + One(Acks(toClient) # {})

InStreams == Len(toServer) + Len(toClient)

\* After the client has gone a packet may be given up.
GivenUp == /\ closed /\ toServer = <<>> /\ server.pc \in {"request", "end"}
           /\ Len(toClient) <= 3

Short == InStreams <= Weight + 1 \/ GivenUp

\* There is one request and one interrupt character at most, behind the request there
\* is nothing but acknowledgements, and none is there while the target runs.
OneOfEach ==
  /\ ~server.targetStopped => Asked(toServer) = {}
  /\ Lone(Etxs(toServer)) /\ Lone(Acks(toClient))
  /\ Asked(toServer) = {} \/ Acks(toClient) = {}
  /\ \A i \in Asked(toServer), j \in DOMAIN toServer : i < j => toServer[j] = Plus

\* The client acknowledges a packet before it makes its next request, so that the
\* server does not take the request for the answer to its packet.
AckComesFirst ==
  /\ gdb.mode = "idle" /\ At("ack") => \E j \in DOMAIN toServer : toServer[j] = Plus
  /\ At("ack") => \A i \in Asked(toServer) : \E j \in DOMAIN toServer : j < i /\ toServer[j] = Plus
  /\ gdb.mode = "ack" /\ gdb.asked \in {"k", "R"} /\ Asked(toServer) = {}
       => server.pc \in {"request", "end"}

\* An interrupt character is left over from the stop before the request, and when
\* there is an acknowledgement to spare already it is behind that.
InterruptPlace ==
  /\ gdb.mode = "gone" \/ Etxs(toServer) = {} \/ Asked(toServer) # {} \/ gdb.mode = "idle"
     \/ (gdb.mode = "stop" /\ gdb.interrupted)
  /\ At("ack") \/ ~server.targetStopped =>
       Etxs(toServer) = {} \/ InStreams <= Weight \/ Head(toServer) = Plus

\* Behind the acknowledgement of its request the client finds one packet at most.
OneAnswer ==
  /\ gdb.mode = "stop" /\ ~gdb.interrupted => Len(toClient) <= 1
  /\ gdb.mode = "ack" => \A i \in Acks(toClient) : Len(toClient) <= i + 1

\* What the streams are made of, and who has closed them.
Elements ==
  /\ \A i \in DOMAIN toServer : toServer[i] \in Sends \cup {Plus, Etx}
  /\ \A i \in DOMAIN toClient : toClient[i].kind # "none"
  /\ At("ack") => server.pkt.kind # "none"
  /\ closed => gdb.mode = "gone"
  /\ monitorPipe \in {"idle", "asked"}

\* A trap is never what a breakpoint stands for, and nowhere without a breakpoint.
TrapsHidden ==
  \A a \in Addr : mpHash[a] # "trap" /\ (mpHash[a] = NoBreakpoint => cpu.mem[a] # "trap")

StreamInv ==
  Short /\ OneOfEach /\ AckComesFirst /\ InterruptPlace /\ OneAnswer /\ Elements /\ TrapsHidden

-----------------------------------------------------------------------------
\* A stream with one element more.
LEMMA AppendIs ==
  ASSUME NEW T, NEW s \in Seq(T), NEW e, NEW r, r = Append(s, e)
  PROVE  /\ Len(s) \in Nat /\ Len(r) = Len(s) + 1 /\ DOMAIN s = 1..Len(s) /\ DOMAIN r = 1..Len(r)
         /\ r # <<>> /\ r[Len(r)] = e /\ \A i \in DOMAIN s : i \in DOMAIN r /\ r[i] = s[i]
         /\ \A i \in DOMAIN r : i \in DOMAIN s \/ i = Len(r)
         /\ s # <<>> => Head(r) = Head(s)
         /\ s = <<>> => Head(r) = e
<1>1. /\ DOMAIN Append(s, e) = 1..Len(s) + 1 /\ DOMAIN s = 1..Len(s) /\ Len(s) \in Nat
      /\ Len(Append(s, e)) = Len(s) + 1
      /\ Append(s, e)[Len(s) + 1] = e
      /\ \A i \in 1..Len(s) : Append(s, e)[i] = s[i]
  OBVIOUS
<1>2. Append(s, e) # <<>> /\ (s # <<>> => Head(Append(s, e)) = Head(s)) /\ (s = <<>> => Head(Append(s, e)) = e)
  OBVIOUS
<1> QED BY <1>1, <1>2

\* A stream without its first element.
LEMMA TailIs ==
  ASSUME NEW T, NEW s \in Seq(T), s # <<>>, NEW r, r = Tail(s)
  PROVE  /\ Len(s) \in Nat /\ Len(r) = Len(s) - 1 /\ DOMAIN s = 1..Len(s) /\ DOMAIN r = 1..Len(r)
         /\ Len(s) > 0 /\ Head(s) = s[1]
         /\ \A i \in DOMAIN r : i + 1 \in DOMAIN s /\ r[i] = s[i + 1]
         /\ \A i \in DOMAIN s : i # 1 => i - 1 \in DOMAIN r /\ r[i - 1] = s[i]
<1>1. /\ DOMAIN Tail(s) = 1..Len(s) - 1 /\ DOMAIN s = 1..Len(s) /\ Len(s) \in Nat /\ Len(s) > 0
      /\ Len(Tail(s)) = Len(s) - 1 /\ Head(s) = s[1]
  OBVIOUS
<1>2. \A i \in 1..Len(s) - 1 : Tail(s)[i] = s[i + 1]
  OBVIOUS
<1>3. ASSUME NEW i \in 1..Len(s), i # 1 PROVE i - 1 \in 1..Len(s) - 1 /\ Tail(s)[i - 1] = s[i]
  <2>1. i - 1 \in 1..Len(s) - 1 /\ (i - 1) + 1 = i
    BY <1>1, <1>3
  <2> QED BY <1>2, <2>1
<1>4. \A i \in 1..Len(s) - 1 : i + 1 \in 1..Len(s)
  BY <1>1
<1> QED BY <1>1, <1>2, <1>3, <1>4, Zenon

\* A stream without its first n elements.
LEMMA RestIs ==
  ASSUME NEW T, NEW s \in Seq(T), NEW n \in 1..Len(s), NEW r, r = SubSeq(s, n + 1, Len(s))
  PROVE  /\ Len(s) \in Nat /\ Len(r) = Len(s) - n /\ DOMAIN s = 1..Len(s) /\ DOMAIN r = 1..Len(r)
         /\ \A i \in DOMAIN r : i + n \in DOMAIN s /\ r[i] = s[i + n]
<1>1. DOMAIN r = 1..Len(s) - n /\ DOMAIN s = 1..Len(s) /\ Len(s) \in Nat /\ n \in Nat /\ Len(r) = Len(s) - n
  OBVIOUS
<1>2. \A i \in 1..Len(s) - n : r[i] = s[i + n]
  OBVIOUS
<1>3. ASSUME NEW i \in 1..Len(s) - n PROVE i + n \in 1..Len(s)
  <2>1. Len(s) \in Nat
    OBVIOUS
  <2> QED BY <2>1
<1> QED BY <1>1, <1>2, <1>3, Zenon

\* What a stream has when an element is put behind it ...
LEMMA AppendHas ==
  ASSUME NEW T, NEW s \in Seq(T), NEW e, NEW r, r = Append(s, e)
  PROVE  /\ Etxs(r) = Etxs(s) \cup (IF e.kind = "ETX" THEN {Len(r)} ELSE {})
         /\ Asked(r) = Asked(s) \cup (IF IsRequest(e) THEN {Len(r)} ELSE {})
         /\ Acks(r) = Acks(s) \cup (IF e.kind = "+" THEN {Len(r)} ELSE {})
<1>1. /\ r[Len(r)] = e /\ Len(r) \in DOMAIN r /\ \A i \in DOMAIN s : i \in DOMAIN r /\ r[i] = s[i]
      /\ \A i \in DOMAIN r : i \in DOMAIN s \/ i = Len(r)
  BY AppendIs
<1> QED BY <1>1, Zenon DEF Etxs, Asked, Acks

\* ... and when its first element is taken.
LEMMA TailHas ==
  ASSUME NEW T, NEW s \in Seq(T), s # <<>>, NEW r, r = Tail(s)
  PROVE  /\ \A i \in Etxs(r) : i + 1 \in Etxs(s)
         /\ \A i \in Etxs(s) : i # 1 => i - 1 \in Etxs(r)
         /\ \A i \in Asked(r) : i + 1 \in Asked(s)
         /\ \A i \in Asked(s) : i # 1 => i - 1 \in Asked(r)
         /\ \A i \in Acks(r) : i + 1 \in Acks(s)
         /\ \A i \in Acks(s) : i # 1 => i - 1 \in Acks(r)
         /\ 1 \in Etxs(s) <=> Head(s).kind = "ETX"
         /\ 1 \in Asked(s) <=> IsRequest(Head(s))
         /\ 1 \in Acks(s) <=> Head(s).kind = "+"
<1>1. /\ \A i \in DOMAIN r : i + 1 \in DOMAIN s /\ r[i] = s[i + 1]
      /\ \A i \in DOMAIN s : i # 1 => i - 1 \in DOMAIN r /\ r[i - 1] = s[i]
      /\ Head(s) = s[1] /\ 1 \in DOMAIN s
  BY TailIs
<1> QED BY <1>1 DEF Etxs, Asked, Acks

-----------------------------------------------------------------------------
\* What the streams are made of.
LEMMA StreamTokens ==
  ASSUME IInv, BInv
  PROVE  /\ toServer \in Seq(Requests \cup {Plus, Etx}) /\ toClient \in Seq(Answers)
         /\ \A r \in Requests : IsRequest(r) /\ r.kind # "ETX" /\ r # Plus
         /\ Plus.kind = "+" /\ ~IsRequest(Plus) /\ Etx.kind = "ETX" /\ ~IsRequest(Etx) /\ Etx # Plus
         /\ \A p \in Packets : p.kind # "+" /\ p.kind # "ETX"
<1>1. \A r \in Requests : IsRequest(r) /\ r.kind # "ETX" /\ r # Plus
  BY DEF Requests, IsRequest, Plus, Token
<1>2. \A p \in Packets : p.kind # "+" /\ p.kind # "ETX"
  BY DEF Packets
<1>3. Plus.kind = "+" /\ ~IsRequest(Plus) /\ Etx.kind = "ETX" /\ ~IsRequest(Etx) /\ Etx # Plus
  BY DEF Plus, Etx, Token, IsRequest
<1> QED BY <1>1, <1>2, <1>3 DEF IInv, BInv

\* The counts and places.
StreamsRight == Short /\ OneOfEach /\ AckComesFirst /\ InterruptPlace /\ OneAnswer

\* A step that leaves the streams and who waits for what.
LEMMA StreamsLeft ==
  ASSUME StreamsRight, UNCHANGED <<toServer, toClient, closed, gdb>>,
         server'.targetStopped = server.targetStopped,
         \/ server'.pc = server.pc
         \/ /\ server.pc \in {"poll", "check", "peek", "stall"}
            /\ server'.pc \in {"poll", "check", "peek", "stall"}
         \/ server.pc = "request" /\ server'.pc = "end"
  PROVE  StreamsRight'
<1>1. At("ack")' = At("ack") /\ (server.pc \in {"request", "end"} => server'.pc \in {"request", "end"})
  BY DEF At
<1>2. Weight' = Weight /\ InStreams' = InStreams
  BY <1>1 DEF Weight, InStreams
<1>3. Short'
  BY <1>1, <1>2 DEF StreamsRight, Short, GivenUp
<1>4. OneOfEach' /\ OneAnswer'
  BY DEF StreamsRight, OneOfEach, OneAnswer
<1>5. AckComesFirst'
  BY <1>1 DEF StreamsRight, AckComesFirst
<1>6. InterruptPlace'
  BY <1>1, <1>2 DEF StreamsRight, InterruptPlace
<1> QED BY <1>3, <1>4, <1>5, <1>6 DEF StreamsRight

\* A packet goes out, when the server finds the target stopped.
LEMMA StopStreams ==
  ASSUME IInv, BInv, RunInv, StreamsRight, UNCHANGED <<toServer, closed, gdb>>,
         server.pc \in {"poll", "check", "peek", "stall"}, ~server.targetStopped,
         server'.pc = "ack",
         NEW p \in Packets, toClient' = Append(toClient, p)
  PROVE  StreamsRight'
<1>1. /\ Len(toClient') = Len(toClient) + 1 /\ Len(toClient) \in Nat /\ Len(toServer) \in Nat
      /\ Acks(toClient') = Acks(toClient)
  <2>1. toClient \in Seq(Answers) /\ toServer \in Seq(Requests \cup {Plus, Etx}) /\ p.kind # "+"
    BY StreamTokens
  <2>2. Acks(toClient') = Acks(toClient) \cup {}
    BY <2>1, AppendHas
  <2> QED BY <2>1, <2>2, AppendIs
<1>2. ~At("ack") /\ At("ack")' /\ InStreams' = InStreams + 1 /\ Weight' = Weight + 1 /\ InStreams \in Nat /\ Weight \in Nat
  BY <1>1 DEF At, InStreams, Weight, One
<1>3. Short'
  BY <1>2 DEF StreamsRight, Short, GivenUp
<1>4. OneOfEach'
  BY <1>1 DEF StreamsRight, OneOfEach
<1>5. AckComesFirst'
  <2>1. Asked(toServer) = {} /\ gdb.mode # "idle" /\ (gdb.mode = "ack" => gdb.asked \in {"c", "s"})
    BY DEF StreamsRight, OneOfEach, RunInv
  <2> QED BY <1>2, <2>1 DEF AckComesFirst
<1>6. InterruptPlace'
  BY <1>2 DEF StreamsRight, InterruptPlace
<1>7. OneAnswer'
  <2>1. gdb.mode = "stop" => Len(toClient) = 0
    BY DEF RunInv
  <2>2. ASSUME gdb.mode = "ack", NEW i \in Acks(toClient) PROVE Len(toClient) = i
    <3>1. toClient \in Seq(Answers) /\ toClient # <<>> /\ toClient[Len(toClient)] = Plus
      BY <2>2 DEF RunInv, BInv
    <3>2. Len(toClient) \in Acks(toClient)
      BY <3>1 DEF Acks, Plus, Token
    <3> QED BY <2>2, <3>2 DEF StreamsRight, OneOfEach, Lone
  <2> QED BY <1>1, <2>1, <2>2 DEF OneAnswer
<1> QED BY <1>3, <1>4, <1>5, <1>6, <1>7 DEF StreamsRight

\* The server takes an interrupt character while the target runs.
LEMMA PeekStreams ==
  ASSUME IInv, BInv, RunInv, StreamsRight, UNCHANGED <<toClient, closed, gdb>>,
         server.pc = "peek", ~server.targetStopped, server'.pc = "stall", ~server'.targetStopped,
         toServer # <<>>, Head(toServer) = Etx, toServer' = Tail(toServer)
  PROVE  StreamsRight'
<1>1. toServer \in Seq(Requests \cup {Plus, Etx}) /\ Etx.kind = "ETX"
  BY StreamTokens
<1>2. /\ 1 \in Etxs(toServer) /\ \A i \in Etxs(toServer') : i + 1 \in Etxs(toServer)
      /\ \A i \in Asked(toServer') : i + 1 \in Asked(toServer)
  BY <1>1, TailHas
<1>3. Etxs(toServer') = {}
  <2>1. ASSUME NEW i \in Etxs(toServer') PROVE FALSE
    <3>1. i + 1 = 1
      BY <1>2 DEF StreamsRight, OneOfEach, Lone
    <3>2. i \in 1..Len(toServer')
      BY <1>1, TailIs DEF Etxs
    <3> QED BY <3>1, <3>2
  <2> QED BY <2>1
<1>4. Asked(toServer) = {} /\ Asked(toServer') = {}
  BY <1>2 DEF StreamsRight, OneOfEach
<1>5. Len(toServer') = Len(toServer) - 1 /\ Len(toServer) \in Nat /\ Len(toClient) \in Nat
  BY <1>1, StreamTokens, TailIs
<1>6. /\ ~At("ack") /\ ~At("ack")' /\ Weight' = Weight - 1 /\ InStreams' = InStreams - 1
      /\ Weight' \in Nat /\ InStreams' \in Nat /\ Weight \in Nat /\ InStreams \in Nat
  BY <1>2, <1>3, <1>4, <1>5 DEF At, Weight, One, InStreams
<1>7. Short'
  <2>1. InStreams <= Weight + 1
    BY DEF StreamsRight, Short, GivenUp
  <2>2. InStreams' <= Weight' + 1
    BY <1>6, <2>1
  <2> QED BY <2>2 DEF Short
<1>8. OneOfEach'
  BY <1>3, <1>4 DEF StreamsRight, OneOfEach, Lone
<1>9. AckComesFirst'
  BY <1>4, <1>6 DEF StreamsRight, AckComesFirst, RunInv
<1>10. InterruptPlace' /\ OneAnswer'
  BY <1>3 DEF StreamsRight, InterruptPlace, OneAnswer
<1> QED BY <1>7, <1>8, <1>9, <1>10 DEF StreamsRight

\* The packet the server waits to have acknowledged is.
LEMMA AckedStreams ==
  ASSUME IInv, BInv, RunInv, StreamsRight, UNCHANGED <<toClient, closed, gdb>>,
         server.pc = "ack", server.targetStopped, server'.pc \in {"request", "end"}, server'.targetStopped,
         toServer # <<>>, Head(toServer) = Plus, toServer' = Tail(toServer)
  PROVE  StreamsRight'
<1>1. toServer \in Seq(Requests \cup {Plus, Etx}) /\ Plus.kind = "+" /\ ~IsRequest(Plus)
  BY StreamTokens
<1>2. /\ 1 \notin Etxs(toServer) /\ 1 \notin Asked(toServer)
      /\ \A i \in Etxs(toServer') : i + 1 \in Etxs(toServer)
      /\ \A i \in Etxs(toServer) : i # 1 => i - 1 \in Etxs(toServer')
      /\ \A i \in Asked(toServer') : i + 1 \in Asked(toServer)
      /\ \A i \in Asked(toServer) : i # 1 => i - 1 \in Asked(toServer')
  BY <1>1, TailHas
<1>3. /\ Etxs(toServer') = {} <=> Etxs(toServer) = {}
      /\ Asked(toServer') = {} <=> Asked(toServer) = {}
  BY <1>2
<1>4. /\ Len(toServer') = Len(toServer) - 1 /\ Len(toServer) \in Nat /\ Len(toClient) \in Nat
      /\ DOMAIN toServer' \subseteq Nat
      /\ \A i \in DOMAIN toServer' : i + 1 \in DOMAIN toServer /\ toServer'[i] = toServer[i + 1]
  BY <1>1, StreamTokens, TailIs
<1>5. /\ At("ack") /\ ~At("ack")' /\ Weight' = Weight - 1 /\ InStreams' = InStreams - 1
      /\ Weight' \in Nat /\ InStreams' \in Nat /\ Weight \in Nat /\ InStreams \in Nat
  BY <1>3, <1>4 DEF At, Weight, One, InStreams
<1>6. Short'
  <2>1. InStreams <= Weight + 1
    BY DEF StreamsRight, Short, GivenUp
  <2>2. InStreams' <= Weight' + 1
    BY <1>5, <2>1
  <2> QED BY <2>2 DEF Short
<1>7. OneOfEach'
  <2>1. Lone(Etxs(toServer'))
    <3>1. ASSUME NEW i \in Etxs(toServer'), NEW j \in Etxs(toServer') PROVE i = j
      <4>1. i + 1 = j + 1
        BY <1>2 DEF StreamsRight, OneOfEach, Lone
      <4>2. i \in Nat /\ j \in Nat
        BY <1>4 DEF Etxs
      <4> QED BY <4>1, <4>2
    <3> QED BY <3>1 DEF Lone
  <2>2. ASSUME NEW i \in Asked(toServer'), NEW j \in DOMAIN toServer', i < j PROVE toServer'[j] = Plus
    <3>1. i + 1 \in Asked(toServer) /\ j + 1 \in DOMAIN toServer /\ toServer'[j] = toServer[j + 1]
      BY <1>2, <1>4
    <3>2. i + 1 < j + 1
      BY <1>4, <2>2 DEF Asked
    <3> QED BY <3>1, <3>2 DEF StreamsRight, OneOfEach
  <2> QED BY <1>3, <2>1, <2>2 DEF StreamsRight, OneOfEach
<1>8. AckComesFirst'
  BY <1>5 DEF AckComesFirst
<1>9. InterruptPlace'
  BY <1>3, <1>5 DEF StreamsRight, InterruptPlace
<1>10. OneAnswer'
  BY DEF StreamsRight, OneAnswer
<1> QED BY <1>6, <1>7, <1>8, <1>9, <1>10 DEF StreamsRight

\* What is not an acknowledgement has the packet sent again: it is the interrupt
\* character.
LEMMA ResentStreams ==
  ASSUME IInv, BInv, RunInv, StreamsRight, UNCHANGED <<closed, gdb>>,
         server.pc = "ack", server.targetStopped, server'.pc = "ack", server'.targetStopped,
         toServer # <<>>, Head(toServer) # Plus, toServer' = Tail(toServer),
         NEW p \in Packets, toClient' = Append(toClient, p)
  PROVE  StreamsRight'
<1>1. /\ toServer \in Seq(Requests \cup {Plus, Etx}) /\ toClient \in Seq(Answers)
      /\ p.kind # "+" /\ \A r \in Requests : IsRequest(r)
      /\ Etx.kind = "ETX" /\ ~IsRequest(Etx)
  BY StreamTokens
<1>2. /\ 1 \in Etxs(toServer) <=> Head(toServer).kind = "ETX"
      /\ 1 \in Asked(toServer) <=> IsRequest(Head(toServer))
      /\ \A i \in Etxs(toServer') : i + 1 \in Etxs(toServer)
      /\ \A i \in Asked(toServer') : i + 1 \in Asked(toServer)
      /\ \A i \in Asked(toServer) : i # 1 => i - 1 \in Asked(toServer')
  BY <1>1, TailHas
<1>3. /\ Len(toServer') = Len(toServer) - 1 /\ Len(toServer) \in Nat /\ Len(toServer) > 0
      /\ DOMAIN toServer = 1..Len(toServer) /\ DOMAIN toServer' \subseteq Nat \ {0}
      /\ \A i \in DOMAIN toServer' : i + 1 \in DOMAIN toServer /\ toServer'[i] = toServer[i + 1]
      /\ \A i \in DOMAIN toServer : i # 1 => i - 1 \in DOMAIN toServer' /\ toServer'[i - 1] = toServer[i]
      /\ Head(toServer) = toServer[1]
  BY <1>1, TailIs
<1>4. /\ Len(toClient') = Len(toClient) + 1 /\ Len(toClient) \in Nat
  BY <1>1, AppendIs
<1>5. Acks(toClient') = Acks(toClient) \cup {}
  BY <1>1, AppendHas
<1>6. 1 \notin Asked(toServer)
  <2>1. ASSUME 1 \in Asked(toServer) PROVE FALSE
    <3>1. \E j \in DOMAIN toServer : j < 1
      BY <2>1 DEF StreamsRight, AckComesFirst, At
    <3> QED BY <1>3, <3>1
  <2> QED BY <2>1
<1>7. Head(toServer) = Etx /\ 1 \in Etxs(toServer)
  <2>1. Head(toServer) \in Requests \cup {Plus, Etx}
    BY <1>1
  <2> QED BY <1>1, <1>2, <1>6, <2>1
<1>8. Etxs(toServer') = {}
  <2>1. ASSUME NEW i \in Etxs(toServer') PROVE FALSE
    <3>1. i + 1 = 1
      BY <1>2, <1>7 DEF StreamsRight, OneOfEach, Lone
    <3>2. i \in Nat \ {0}
      BY <1>3 DEF Etxs
    <3> QED BY <3>1, <3>2
  <2> QED BY <2>1
<1>9. Asked(toServer') = {} <=> Asked(toServer) = {}
  BY <1>2, <1>6
<1>10. /\ At("ack") /\ At("ack")' /\ Weight = Weight' + 1 /\ InStreams = InStreams'
       /\ Weight' \in Nat /\ InStreams' \in Nat /\ Weight \in Nat /\ InStreams \in Nat
  BY <1>3, <1>4, <1>5, <1>7, <1>8, <1>9 DEF At, Weight, One, InStreams
<1>11. Short'
  <2>1. InStreams <= Weight
    BY <1>7, <1>10 DEF StreamsRight, InterruptPlace
  <2> QED BY <1>10, <2>1 DEF Short
<1>12. OneOfEach'
  <2>1. ASSUME NEW i \in Asked(toServer'), NEW j \in DOMAIN toServer', i < j PROVE toServer'[j] = Plus
    <3>1. i + 1 \in Asked(toServer) /\ j + 1 \in DOMAIN toServer /\ toServer'[j] = toServer[j + 1]
      BY <1>2, <1>3
    <3>2. i + 1 < j + 1
      BY <1>3, <2>1 DEF Asked
    <3> QED BY <3>1, <3>2 DEF StreamsRight, OneOfEach
  <2> QED BY <1>5, <1>8, <1>9, <2>1 DEF StreamsRight, OneOfEach, Lone
<1>13. AckComesFirst'
  <2>1. ASSUME gdb.mode = "idle" PROVE \E j \in DOMAIN toServer' : toServer'[j] = Plus
    <3>1. PICK j \in DOMAIN toServer : toServer[j] = Plus
      BY <1>10, <2>1 DEF StreamsRight, AckComesFirst
    <3>2. j # 1
      BY <1>3, <3>1
    <3> QED BY <1>3, <3>1, <3>2
  <2>2. ASSUME NEW i \in Asked(toServer') PROVE \E j \in DOMAIN toServer' : j < i /\ toServer'[j] = Plus
    <3>1. i + 1 \in Asked(toServer) /\ i \in Nat
      BY <1>2, <1>3 DEF Asked
    <3>2. PICK j \in DOMAIN toServer : j < i + 1 /\ toServer[j] = Plus
      BY <1>10, <3>1 DEF StreamsRight, AckComesFirst
    <3>3. j # 1
      BY <1>3, <3>2
    <3>4. j - 1 \in DOMAIN toServer' /\ toServer'[j - 1] = Plus /\ j \in Nat
      BY <1>3, <3>2, <3>3
    <3>5. j - 1 < i
      BY <3>1, <3>2, <3>4
    <3> QED BY <3>4, <3>5
  <2>3. gdb.mode = "ack" /\ gdb.asked \in {"k", "R"} => Asked(toServer) # {}
    BY DEF StreamsRight, AckComesFirst
  <2> QED BY <1>9, <2>1, <2>2, <2>3 DEF AckComesFirst
<1>14. InterruptPlace'
  BY <1>8 DEF InterruptPlace
<1>15. gdb.mode = "gone" \/ Asked(toServer) # {} \/ gdb.mode = "idle" \/ (gdb.mode = "stop" /\ gdb.interrupted)
  BY <1>7 DEF StreamsRight, InterruptPlace
<1>16. gdb.mode = "stop" => Asked(toServer) = {}
  BY Phases
<1>17. OneAnswer'
  BY <1>5, <1>15, <1>16 DEF StreamsRight, OneOfEach, OneAnswer
<1> QED BY <1>11, <1>12, <1>13, <1>14, <1>17 DEF StreamsRight

\* The client has gone, and a packet is given up.
LEMMA GivenUpStreams ==
  ASSUME IInv, BInv, RunInv, StreamsRight, UNCHANGED <<toServer, toClient, closed, gdb>>,
         closed, gdb.mode = "gone",
         server.pc = "ack", toServer = <<>>, server'.pc \in {"request", "end"}
  PROVE  StreamsRight'
<1>1. /\ Etxs(toServer) = {} /\ Asked(toServer) = {} /\ Len(toServer) = 0
      /\ DOMAIN toServer = {}
  BY DEF Etxs, Asked
<1>2. Len(toClient) \in Nat
  BY StreamTokens
<1>3. GivenUp'
  <2>1. InStreams <= Weight + 1
    BY DEF StreamsRight, Short, GivenUp
  <2>2. Weight <= 2 /\ InStreams = Len(toClient) /\ Weight \in Nat
    BY <1>1, <1>2 DEF Weight, One, InStreams
  <2> QED BY <1>2, <2>1, <2>2 DEF GivenUp
<1>4. Short'
  BY <1>3 DEF Short
<1>5. OneOfEach' /\ InterruptPlace' /\ OneAnswer' /\ AckComesFirst'
  BY <1>1 DEF StreamsRight, OneOfEach, InterruptPlace, OneAnswer, AckComesFirst, At
<1> QED BY <1>4, <1>5 DEF StreamsRight

\* A request is served: what was in front of it is skipped, and what is behind it are
\* acknowledgements.
LEMMA ServedStreams ==
  ASSUME IInv, BInv, RunInv, StreamsRight, NEW kind, Serves(kind), gdb' = gdb,
         \/ toClient' = Acked /\ server'.pc \in {"request", "poll"}
         \/ server'.pc = "ack" /\ \E p \in Packets : toClient' = Append(Acked, p),
         kind \in {"k", "R"} => server'.pc = "request"
  PROVE  StreamsRight'
<1> DEFINE n == RequestPos
<1>1. /\ toServer \in Seq(Requests \cup {Plus, Etx}) /\ toClient \in Seq(Answers)
      /\ Plus \in Answers /\ Plus.kind = "+" /\ ~IsRequest(Plus)
      /\ \A p \in Packets : p.kind # "+" /\ p \in Answers
      /\ \A r \in Requests : IsRequest(r) /\ r.kind # "ETX" /\ r # Plus
  BY StreamTokens DEF Answers
<1>2. n \in 1..Len(toServer) /\ toServer[n] \in Requests
  BY <1>1, ServedRequest
<1>3. toServer' = SubSeq(toServer, n + 1, Len(toServer)) /\ closed' = closed /\ server.pc = "request"
  BY DEF Serves, At
<1> HIDE DEF n
<1>4. /\ Len(toServer) \in Nat /\ Len(toServer') = Len(toServer) - n /\ DOMAIN toServer = 1..Len(toServer)
      /\ DOMAIN toServer' = 1..Len(toServer') /\ n \in Nat
      /\ \A i \in DOMAIN toServer' : i + n \in DOMAIN toServer /\ toServer'[i] = toServer[i + n]
  BY <1>1, <1>2, <1>3, RestIs
<1>5. n \in Asked(toServer)
  BY <1>1, <1>2, <1>4 DEF Asked
<1>6. \A i \in DOMAIN toServer' : toServer'[i] = Plus
  <2>1. ASSUME NEW i \in DOMAIN toServer' PROVE n < i + n
    BY <1>4
  <2> QED BY <1>4, <1>5, <2>1 DEF StreamsRight, OneOfEach
<1>7. Asked(toServer') = {} /\ Etxs(toServer') = {}
  BY <1>1, <1>6 DEF Asked, Etxs
<1>8. Etxs(toServer) # {} => n > 1
  <2>1. ASSUME NEW i \in Etxs(toServer) PROVE i < n
    <3>1. i \in DOMAIN toServer /\ toServer[i] # Plus /\ i # n
      BY <1>1, <1>2, <2>1 DEF Etxs
    <3>2. ~(n < i)
      BY <1>5, <3>1 DEF StreamsRight, OneOfEach
    <3> QED BY <1>4, <3>1, <3>2
  <2> QED BY <1>4, <2>1 DEF Etxs
<1>9. Acks(toClient) = {}
  BY <1>5 DEF StreamsRight, OneOfEach
<1>10. /\ Acked \in Seq(Answers) /\ Len(Acked) = Len(toClient) + 1 /\ Len(toClient) \in Nat
       /\ Acks(Acked) = {Len(Acked)}
  <2>1. Acks(Acked) = Acks(toClient) \cup {Len(Acked)}
    BY <1>1, AppendHas DEF Acked
  <2> QED BY <1>1, <1>9, <2>1, AppendIs DEF Acked
<1>11. /\ Acks(toClient') = {Len(Acked)}
       /\ Len(toClient') = Len(toClient) + 1 + One(server'.pc = "ack")
  <2>1. ASSUME NEW p \in Packets, toClient' = Append(Acked, p)
        PROVE  Acks(toClient') = {Len(Acked)} /\ Len(toClient') = Len(Acked) + 1
    <3>1. Acks(toClient') = Acks(Acked) \cup {}
      BY <1>1, <1>10, <2>1, AppendHas
    <3> QED BY <1>10, <2>1, <3>1, AppendIs
  <2>2. CASE toClient' = Acked /\ server'.pc \in {"request", "poll"}
    BY <1>10, <2>2 DEF One
  <2>3. CASE server'.pc = "ack" /\ \E p \in Packets : toClient' = Append(Acked, p)
    BY <1>10, <2>1, <2>3 DEF One
  <2> QED BY <2>2, <2>3
<1>12. Short'
  <2> DEFINE A == One(server'.pc = "ack")
             E == One(Etxs(toServer) # {})
  <2>1. A \in Nat /\ E \in Nat /\ (Etxs(toServer) = {} => E = 0) /\ (Etxs(toServer) # {} => E = 1)
    BY DEF One
  <2>2. Weight' = A + 1
    BY <1>7, <1>11 DEF Weight, One, At
  <2>3. Weight = E + 1
    BY <1>3, <1>5, <1>9 DEF Weight, One, At
  <2>4. InStreams' = (Len(toServer) - n) + Len(toClient) + 1 + A
    BY <1>4, <1>10, <1>11, <2>1 DEF InStreams
  <2>5. Len(toServer) + Len(toClient) <= E + 2
    <3>1. InStreams <= Weight + 1
      BY <1>2, <1>4 DEF StreamsRight, Short, GivenUp
    <3> QED BY <2>1, <2>3, <3>1 DEF InStreams
  <2> HIDE DEF A, E
  <2>6. InStreams' <= Weight' + 1
    <3>1. CASE Etxs(toServer) = {}
      BY <1>2, <1>4, <1>10, <2>1, <2>2, <2>4, <2>5, <3>1
    <3>2. CASE Etxs(toServer) # {}
      BY <1>4, <1>8, <1>10, <2>1, <2>2, <2>4, <2>5, <3>2
    <3> QED BY <3>1, <3>2
  <2> QED BY <2>6 DEF Short
<1>13. OneOfEach'
  BY <1>7, <1>11 DEF OneOfEach, Lone
<1>14. gdb.mode = "gone" \/ (gdb.mode = "ack" /\ gdb.asked = kind)
  BY ServedOne
<1>15. AckComesFirst'
  BY <1>7, <1>14 DEF AckComesFirst
<1>16. InterruptPlace'
  BY <1>7 DEF InterruptPlace
<1>17. OneAnswer'
  <2>1. Len(toClient') <= Len(Acked) + 1
    BY <1>10, <1>11 DEF One
  <2> QED BY <1>11, <1>14, <2>1 DEF OneAnswer
<1> QED BY <1>12, <1>13, <1>15, <1>16, <1>17 DEF StreamsRight

-----------------------------------------------------------------------------
\* The client makes a request.
LEMMA SendStreams ==
  ASSUME IInv, BInv, RunInv, StreamsRight, closed => gdb.mode = "gone", Send
  PROVE  StreamsRight'
<1>1. PICK r \in Sends : toServer' = Append(toServer, r) /\ gdb' = Client("ack", r.kind)
  BY DEF Send
<1>2. UNCHANGED <<server, toClient, closed>> /\ gdb.mode = "idle"
  BY DEF Send
<1>3. /\ toServer \in Seq(Requests \cup {Plus, Etx}) /\ toClient \in Seq(Answers)
      /\ IsRequest(r) /\ r.kind # "ETX" /\ Asked(toServer) = {} /\ Acks(toClient) = {}
  BY <1>2, StreamTokens, ClientTypes, SendsAssumption, Phases
<1>4. /\ Len(toServer') = Len(toServer) + 1 /\ Len(toServer) \in Nat /\ Len(toClient) \in Nat
      /\ DOMAIN toServer = 1..Len(toServer) /\ DOMAIN toServer' = 1..Len(toServer')
      /\ \A i \in DOMAIN toServer : i \in DOMAIN toServer' /\ toServer'[i] = toServer[i]
      /\ toServer # <<>> => Head(toServer') = Head(toServer)
  <2>1. Len(toClient) \in Nat
    BY <1>3
  <2> QED BY <1>1, <1>3, <2>1, AppendIs
<1>5. Etxs(toServer') = Etxs(toServer) /\ Asked(toServer') = {Len(toServer')}
  <2>1. Etxs(toServer') = Etxs(toServer) \cup {} /\ Asked(toServer') = Asked(toServer) \cup {Len(toServer')}
    BY <1>1, <1>3, AppendHas
  <2> QED BY <1>3, <2>1
<1>6. gdb'.mode = "ack" /\ At("ack")' = At("ack") /\ server.targetStopped
  BY <1>1, <1>2 DEF Client, At, RunInv
<1>7. /\ Weight' = Weight + 1 /\ InStreams' = InStreams + 1
      /\ Weight \in Nat /\ InStreams \in Nat
  BY <1>2, <1>3, <1>4, <1>5, <1>6 DEF Weight, One, InStreams
<1>8. Short'
  <2>1. InStreams <= Weight + 1
    BY <1>2 DEF StreamsRight, Short, GivenUp
  <2>2. InStreams' <= Weight' + 1
    BY <1>7, <2>1
  <2> QED BY <2>2 DEF Short
<1>9. OneOfEach'
  BY <1>2, <1>3, <1>4, <1>5, <1>6 DEF StreamsRight, OneOfEach, Lone
<1>10. AckComesFirst'
  <2>1. ASSUME At("ack") PROVE \E j \in DOMAIN toServer' : j < Len(toServer') /\ toServer'[j] = Plus
    <3>1. PICK j \in DOMAIN toServer : toServer[j] = Plus
      BY <1>2, <2>1 DEF StreamsRight, AckComesFirst
    <3> QED BY <1>4, <3>1
  <2> QED BY <1>5, <1>6, <2>1 DEF AckComesFirst
<1>11. InterruptPlace'
  <2>1. Etxs(toServer) # {} => toServer # <<>>
    BY <1>4 DEF Etxs
  <2>2. InStreams <= Weight => InStreams' <= Weight'
    BY <1>7
  <2> QED BY <1>2, <1>4, <1>5, <1>6, <2>1, <2>2 DEF StreamsRight, InterruptPlace
<1>12. OneAnswer'
  BY <1>2, <1>3, <1>6 DEF OneAnswer
<1> QED BY <1>8, <1>9, <1>10, <1>11, <1>12 DEF StreamsRight

\* The client interrupts the target.  What it finds in the stream are acknowledgements
\* that are left over, of which the server takes one for that of its packet.
LEMMA InterruptStreams ==
  ASSUME IInv, BInv, RunInv, StreamsRight, closed => gdb.mode = "gone", Interrupt
  PROVE  StreamsRight'
<1>1. /\ toServer' = Append(toServer, Etx) /\ UNCHANGED <<server, toClient, closed>>
      /\ gdb.mode = "stop" /\ ~gdb.interrupted
  BY DEF Interrupt
<1>2. gdb'.mode = "stop" /\ gdb'.interrupted
  BY DEF Interrupt, RunInv
<1>3. /\ toServer \in Seq(Requests \cup {Plus, Etx}) /\ toClient \in Seq(Answers)
      /\ Etx.kind = "ETX" /\ ~IsRequest(Etx) /\ Asked(toServer) = {} /\ Acks(toClient) = {}
  BY <1>1, StreamTokens, Phases
<1>4. Etxs(toServer) = {}
  BY <1>1, <1>3 DEF StreamsRight, InterruptPlace
<1>5. /\ Len(toServer') = Len(toServer) + 1 /\ Len(toServer) \in Nat /\ Len(toClient) \in Nat
      /\ toServer # <<>> => Head(toServer') = Head(toServer)
  <2>1. Len(toClient) \in Nat
    BY <1>3
  <2> QED BY <1>1, <1>3, <2>1, AppendIs
<1>6. Etxs(toServer') = {Len(toServer')} /\ Asked(toServer') = {}
  <2>1. Etxs(toServer') = Etxs(toServer) \cup {Len(toServer')} /\ Asked(toServer') = Asked(toServer) \cup {}
    BY <1>1, <1>3, AppendHas
  <2> QED BY <1>3, <1>4, <2>1
<1>7. /\ Weight' = Weight + 1 /\ InStreams' = InStreams + 1
      /\ Weight = One(At("ack")) /\ InStreams \in Nat /\ Weight \in Nat
  BY <1>1, <1>3, <1>4, <1>5, <1>6 DEF Weight, One, InStreams, At
<1>8. InStreams <= Weight + 1
  BY <1>1 DEF StreamsRight, Short, GivenUp
<1>9. Short'
  <2>1. InStreams' <= Weight' + 1
    BY <1>7, <1>8
  <2> QED BY <2>1 DEF Short
<1>10. OneOfEach'
  BY <1>1, <1>3, <1>6 DEF OneOfEach, Lone
<1>11. AckComesFirst'
  BY <1>2, <1>6 DEF AckComesFirst
<1>12. ASSUME At("ack") \/ ~server.targetStopped, ~(InStreams <= Weight)
       PROVE  toServer # <<>> /\ Head(toServer) = Plus
  <2>1. Len(toServer) + Len(toClient) = One(At("ack")) + 1
    BY <1>5, <1>7, <1>8, <1>12 DEF InStreams
  <2>2. CASE At("ack")
    <3>1. Len(toClient) <= 1
      BY <1>1 DEF StreamsRight, OneAnswer
    <3>2. Len(toServer) # 0
      BY <1>5, <2>1, <2>2, <3>1 DEF One
    <3>3. toServer # <<>> /\ 1 \in DOMAIN toServer /\ Head(toServer) = toServer[1]
      BY <1>3, <3>2
    <3>4. toServer[1] \in Requests \cup {Plus, Etx} /\ ~IsRequest(toServer[1]) /\ toServer[1] # Etx
      BY <1>3, <1>4, <3>3 DEF Asked, Etxs
    <3> QED BY <3>3, <3>4, StreamTokens
  <2>3. CASE ~At("ack")
    <3>1. Len(toClient) = 0
      BY <1>1, <1>12, <2>3 DEF RunInv
    <3>2. Len(toServer) # 0
      BY <1>5, <2>1, <2>3, <3>1 DEF One
    <3>3. toServer # <<>> /\ 1 \in DOMAIN toServer /\ Head(toServer) = toServer[1]
      BY <1>3, <3>2
    <3>4. toServer[1] \in Requests \cup {Plus, Etx} /\ ~IsRequest(toServer[1]) /\ toServer[1] # Etx
      BY <1>3, <1>4, <3>3 DEF Asked, Etxs
    <3> QED BY <3>3, <3>4, StreamTokens
  <2> QED BY <2>2, <2>3
<1>13. InterruptPlace'
  <2>1. InStreams <= Weight => InStreams' <= Weight'
    BY <1>7
  <2> QED BY <1>1, <1>2, <1>5, <1>12, <2>1 DEF InterruptPlace, At
<1>14. OneAnswer'
  BY <1>2 DEF OneAnswer
<1> QED BY <1>9, <1>10, <1>11, <1>13, <1>14 DEF StreamsRight

\* The client reads the acknowledgement of its request.
LEMMA ReceiveAckStreams ==
  ASSUME IInv, BInv, RunInv, StreamsRight, closed => gdb.mode = "gone", ReceiveAck
  PROVE  StreamsRight'
<1>1. /\ toClient # <<>> /\ Head(toClient).kind = "+" /\ gdb.mode # "gone"
      /\ toClient' = Tail(toClient) /\ UNCHANGED <<server, toServer, closed>>
  BY DEF ReceiveAck
<1>2. toClient \in Seq(Answers) /\ Len(toServer) \in Nat
  BY StreamTokens
<1>3. /\ Len(toClient') = Len(toClient) - 1 /\ Len(toClient) \in Nat
      /\ 1 \in Acks(toClient) /\ \A i \in Acks(toClient') : i + 1 \in Acks(toClient)
      /\ DOMAIN toClient' = 1..Len(toClient')
  BY <1>1, <1>2, TailIs, TailHas
<1>4. Acks(toClient') = {}
  <2>1. ASSUME NEW i \in Acks(toClient') PROVE FALSE
    <3>1. i + 1 = 1
      BY <1>3 DEF StreamsRight, OneOfEach, Lone
    <3>2. i \in 1..Len(toClient')
      BY <1>3 DEF Acks
    <3> QED BY <1>3, <3>1, <3>2
  <2> QED BY <2>1
<1>5. gdb.mode = "ack" /\ Asked(toServer) = {}
  BY <1>1, <1>3, Phases DEF StreamsRight, OneOfEach
<1>6. Etxs(toServer) = {}
  BY <1>5 DEF StreamsRight, InterruptPlace
<1>7. gdb' = Client(Waits(gdb.asked), "none")
  BY <1>5 DEF ReceiveAck
<1>8. /\ gdb'.mode \in {"idle", "stop", "reply"}
      /\ gdb'.mode = "idle" => gdb.asked \in {"k", "R"}
  BY <1>7 DEF Client, Waits
<1>9. At("ack")' = At("ack") /\ server' = server
  BY <1>1 DEF At
<1>10. /\ Weight' = Weight - 1 /\ InStreams' = InStreams - 1
       /\ Weight' \in Nat /\ InStreams' \in Nat /\ Weight \in Nat /\ InStreams \in Nat
  <2>1. Len(toClient) > 0
    BY <1>3 DEF Acks, StreamsRight, OneAnswer
  <2> QED BY <1>1, <1>2, <1>3, <1>4, <1>5, <1>6, <1>9, <2>1 DEF Weight, One, InStreams
<1>11. Short'
  <2>1. InStreams <= Weight + 1
    BY <1>1 DEF StreamsRight, Short, GivenUp
  <2>2. InStreams' <= Weight' + 1
    BY <1>10, <2>1
  <2> QED BY <2>2 DEF Short
<1>12. OneOfEach'
  BY <1>1, <1>4, <1>5 DEF StreamsRight, OneOfEach, Lone
<1>13. AckComesFirst'
  <2>1. gdb'.mode = "idle" => server.pc \in {"request", "end"}
    BY <1>5, <1>8 DEF StreamsRight, AckComesFirst
  <2> QED BY <1>1, <1>5, <1>8, <2>1 DEF AckComesFirst, At
<1>14. InterruptPlace'
  BY <1>1, <1>6 DEF InterruptPlace
<1>15. OneAnswer'
  <2>1. Len(toClient) <= 1 + 1
    BY <1>3, <1>5 DEF StreamsRight, OneAnswer
  <2> QED BY <1>3, <1>4, <2>1 DEF OneAnswer
<1> QED BY <1>11, <1>12, <1>13, <1>14, <1>15 DEF StreamsRight

\* The client reads a packet and acknowledges it.
LEMMA ReceivePacketStreams ==
  ASSUME IInv, BInv, RunInv, StreamsRight, closed => gdb.mode = "gone", ReceivePacket
  PROVE  StreamsRight'
<1>1. /\ toClient # <<>> /\ Head(toClient).kind # "+" /\ gdb.mode \in {"ack", "reply", "stop"}
      /\ toClient' = Tail(toClient) /\ toServer' = Append(toServer, Plus) /\ server' = server
      /\ gdb.mode = "ack" => gdb' = gdb
      /\ closed' = (gdb'.mode = "gone")
  BY DEF ReceivePacket
<1>2. gdb.mode # "ack" => gdb'.mode \in {"idle", "gone"}
  <2>1. gdb.mode # "ack" => \E mode \in {"idle", "gone"} : gdb' = Client(mode, "none")
    BY DEF ReceivePacket
  <2> QED BY <2>1 DEF Client
<1>3. /\ toServer \in Seq(Requests \cup {Plus, Etx}) /\ toClient \in Seq(Answers)
      /\ Plus.kind = "+" /\ ~IsRequest(Plus)
  BY StreamTokens
<1>4. /\ Len(toClient') = Len(toClient) - 1 /\ Len(toClient) \in Nat /\ Len(toClient) > 0
      /\ DOMAIN toClient' = 1..Len(toClient')
      /\ 1 \notin Acks(toClient)
      /\ \A i \in Acks(toClient') : i + 1 \in Acks(toClient)
      /\ \A i \in Acks(toClient) : i # 1 => i - 1 \in Acks(toClient')
  BY <1>1, <1>3, TailIs, TailHas
<1>5. /\ Len(toServer') = Len(toServer) + 1 /\ Len(toServer) \in Nat
      /\ DOMAIN toServer = 1..Len(toServer) /\ DOMAIN toServer' = 1..Len(toServer')
      /\ toServer'[Len(toServer')] = Plus
      /\ \A i \in DOMAIN toServer : i \in DOMAIN toServer' /\ toServer'[i] = toServer[i]
      /\ \A i \in DOMAIN toServer' : i \in DOMAIN toServer \/ i = Len(toServer')
      /\ toServer # <<>> => Head(toServer') = Head(toServer)
  BY <1>1, <1>3, AppendIs
<1>6. Etxs(toServer') = Etxs(toServer) /\ Asked(toServer') = Asked(toServer)
  <2>1. Etxs(toServer') = Etxs(toServer) \cup {} /\ Asked(toServer') = Asked(toServer) \cup {}
    BY <1>1, <1>3, AppendHas
  <2> QED BY <2>1
<1>7. Acks(toClient') = {} <=> Acks(toClient) = {}
  BY <1>4
<1>8. /\ At("ack")' = At("ack") /\ Weight' = Weight /\ InStreams' = InStreams
  BY <1>1, <1>4, <1>5, <1>6, <1>7 DEF At, Weight, InStreams
<1>9. Short'
  <2>1. InStreams <= Weight + 1
    BY <1>1 DEF StreamsRight, Short, GivenUp
  <2> QED BY <1>8, <2>1 DEF Short
<1>10. OneOfEach'
  <2>1. ASSUME NEW i \in Acks(toClient'), NEW j \in Acks(toClient') PROVE i = j
    <3>1. i + 1 = j + 1
      BY <1>4 DEF StreamsRight, OneOfEach, Lone
    <3>2. i \in 1..Len(toClient') /\ j \in 1..Len(toClient')
      BY <1>4 DEF Acks
    <3> QED BY <3>1, <3>2
  <2>2. Lone(Acks(toClient'))
    BY <2>1 DEF Lone
  <2>3. ASSUME NEW i \in Asked(toServer'), NEW j \in DOMAIN toServer', i < j PROVE toServer'[j] = Plus
    BY <1>5, <1>6, <2>3 DEF StreamsRight, OneOfEach
  <2> QED BY <1>1, <1>6, <1>7, <2>2, <2>3 DEF StreamsRight, OneOfEach
<1>11. AckComesFirst'
  <2>1. \E j \in DOMAIN toServer' : toServer'[j] = Plus
    BY <1>5
  <2>2. ASSUME At("ack"), NEW i \in Asked(toServer)
        PROVE  \E j \in DOMAIN toServer' : j < i /\ toServer'[j] = Plus
    <3>1. PICK j \in DOMAIN toServer : j < i /\ toServer[j] = Plus
      BY <2>2 DEF StreamsRight, AckComesFirst
    <3> QED BY <1>5, <3>1
  <2>3. gdb'.mode = "ack" => gdb' = gdb
    BY <1>1, <1>2
  <2> QED BY <1>1, <1>6, <1>8, <2>1, <2>2, <2>3 DEF StreamsRight, AckComesFirst
<1>12. InterruptPlace'
  <2>1. Etxs(toServer) # {} => toServer # <<>>
    BY <1>5 DEF Etxs
  <2> QED BY <1>1, <1>2, <1>5, <1>6, <1>8, <2>1 DEF StreamsRight, InterruptPlace
<1>13. OneAnswer'
  <2>1. ASSUME gdb.mode = "ack", NEW i \in Acks(toClient') PROVE Len(toClient') <= i + 1
    <3>1. Len(toClient) <= (i + 1) + 1 /\ i \in 1..Len(toClient')
      BY <1>4, <2>1 DEF StreamsRight, OneAnswer, Acks
    <3> QED BY <1>4, <3>1
  <2> QED BY <1>1, <1>2, <2>1 DEF OneAnswer
<1> QED BY <1>9, <1>10, <1>11, <1>12, <1>13 DEF StreamsRight

\* The client goes.
LEMMA DisconnectStreams ==
  ASSUME StreamsRight, Disconnect
  PROVE  StreamsRight'
<1>1. UNCHANGED <<server, toServer, toClient>> /\ closed' /\ gdb'.mode = "gone"
  BY DEF Disconnect, Client
<1>2. Weight' = Weight /\ InStreams' = InStreams /\ At("ack")' = At("ack")
  BY <1>1 DEF Weight, InStreams, At
<1>3. Short' /\ OneOfEach'
  BY <1>1, <1>2 DEF StreamsRight, Short, GivenUp, OneOfEach
<1>4. AckComesFirst' /\ InterruptPlace' /\ OneAnswer'
  BY <1>1, <1>2 DEF StreamsRight, AckComesFirst, InterruptPlace, OneAnswer
<1> QED BY <1>3, <1>4 DEF StreamsRight

\* The steps of rspServer between requests that leave the streams alone.
LEMMA QuietStreams ==
  ASSUME IInv, BInv, RunInv, StreamsRight, gdb' = gdb, server \in Servers,
         \/ MonitorAsks \/ rspCheckForException \/ TargetIsRunning \/ rspClose
         \/ (rspSocketPeek /\ UNCHANGED toServer)
  PROVE  StreamsRight' /\ UNCHANGED <<toServer, toClient, closed>> /\ ~At("ack")'
<1>1. UNCHANGED <<toServer, toClient, closed>>
  BY DEF MonitorAsks, rspCheckForException, TargetIsRunning, rspClose, rspSocketPeek
<1>2. CASE MonitorAsks
  <2>1. server' = [server EXCEPT !.pc = "stall", !.caller = "monitor"] /\ server.pc = "poll"
    BY <1>2 DEF MonitorAsks, At
  <2>2. server'.pc = "stall" /\ server'.targetStopped = server.targetStopped
    BY <2>1, Zenon DEF Servers
  <2> QED BY <1>1, <2>1, <2>2, StreamsLeft DEF At
<1>3. CASE rspCheckForException
  <2>1. /\ \E v : server' = [server EXCEPT !.pc = "check", !.rsp_sigval = v]
        /\ server.pc = "poll"
    BY <1>3 DEF rspCheckForException, At
  <2>2. server'.pc = "check" /\ server'.targetStopped = server.targetStopped
    BY <2>1, Zenon DEF Servers
  <2> QED BY <1>1, <2>1, <2>2, StreamsLeft DEF At
<1>4. CASE TargetIsRunning
  <2>1. server' = [server EXCEPT !.pc = "peek"] /\ server.pc = "check"
    BY <1>4 DEF TargetIsRunning, At
  <2>2. server'.pc = "peek" /\ server'.targetStopped = server.targetStopped
    BY <2>1, Zenon DEF Servers
  <2> QED BY <1>1, <2>1, <2>2, StreamsLeft DEF At
<1>5. CASE rspClose
  <2>1. server' = [server EXCEPT !.pc = "end"] /\ server.pc = "request"
    BY <1>5 DEF rspClose, At
  <2>2. server'.pc = "end" /\ server'.targetStopped = server.targetStopped
    BY <2>1, Zenon DEF Servers
  <2> QED BY <1>1, <2>1, <2>2, StreamsLeft DEF At
<1>6. CASE rspSocketPeek /\ UNCHANGED toServer
  <2>1. server.pc = "peek" /\ \E pc \in {"poll", "stall"} : \E caller :
           server' = [server EXCEPT !.pc = pc] \/ server' = [server EXCEPT !.pc = pc, !.caller = caller]
    BY <1>6 DEF rspSocketPeek, At
  <2>2. server'.pc \in {"poll", "stall"} /\ server'.targetStopped = server.targetStopped
    BY <2>1, Zenon DEF Servers
  <2> QED BY <1>1, <2>1, <2>2, StreamsLeft DEF At
<1> QED BY <1>1, <1>2, <1>3, <1>4, <1>5, <1>6

\* What a request has the server send.
LEMMA RequestSends ==
  ASSUME IInv, rspClientRequest
  PROVE  \E kind :
           /\ Serves(kind)
           /\ \/ toClient' = Acked /\ server'.pc \in {"request", "poll"}
              \/ /\ server'.pc = "ack" /\ server'.pkt \in Packets /\ server'.pkt.kind # "none"
                 /\ toClient' = Append(Acked, server'.pkt)
           /\ kind \in {"k", "R"} => server'.pc = "request"
<1>1. server \in Servers /\ server.rsp_sigval \in {"NONE", "TRAP"}
  BY DEF IInv, Servers
<1>2. ASSUME NEW k \in {"stop", "OK", "npc", "detached"},
             NEW value \in Addr \cup {Flushed, "NONE", "TRAP"}, Replies(k, value)
      PROVE  /\ server'.pc = "ack" /\ server'.pkt \in Packets /\ server'.pkt.kind # "none"
             /\ toClient' = Append(Acked, server'.pkt)
  <2>1. server' = [server EXCEPT !.pc = "ack", !.pkt = Token(k, value)]
        /\ toClient' = Append(Acked, Token(k, value))
    BY <1>2 DEF Replies, putPkt
  <2>2. Token(k, value) \in Packets /\ Token(k, value).kind # "none"
    BY DEF Token, Packets
  <2>3. server'.pc = "ack" /\ server'.pkt = Token(k, value)
    BY <1>1, <2>1, Zenon DEF Servers
  <2> QED BY <2>1, <2>2, <2>3
<1>3. CASE rspContinue \/ rspStep
  <2>1. PICK kind \in {"c", "s"}, on \in BOOLEAN : Serves(kind) /\ Resumes(on)
    BY <1>3 DEF rspContinue, rspStep
  <2>2. server' = [server EXCEPT !.pc = "poll", !.targetStopped = FALSE] /\ toClient' = Acked
    BY <2>1 DEF Resumes
  <2>3. server'.pc = "poll"
    BY <1>1, <2>2, Zenon DEF Servers
  <2> QED BY <2>1, <2>2, <2>3
<1>4. CASE LastSignal
  BY <1>1, <1>2, <1>4 DEF LastSignal
<1>5. CASE Detach
  BY <1>2, <1>5 DEF Detach
<1>6. CASE Ignored \/ rspRestart
  <2>1. PICK kind \in {"k", "R"} : Serves(kind) /\ toClient' = Acked /\ server' = server
    BY <1>6 DEF Ignored, rspRestart, NoReply
  <2> QED BY <2>1 DEF Serves, At
<1>7. CASE rspReadReg
  <2>1. Serves("p") /\ Replies("npc", readNpc(Both))
    BY <1>7 DEF rspReadReg
  <2>2. readNpc(Both) \in Addr
    BY <2>1, ServesStopped, KnownNpc DEF IInv, Agree, Pair, Cpu
  <2> QED BY <1>2, <2>1, <2>2
<1>8. CASE rspWriteReg \/ rspWriteMem \/ rspInsertMatchpoint \/ rspRemoveMatchpoint
  <2>1. PICK kind \in {"P", "M", "Z", "z"} : Serves(kind) /\ Replies("OK", Flushed)
    BY <1>8 DEF rspWriteReg, rspWriteMem, rspInsertMatchpoint, rspRemoveMatchpoint
  <2> QED BY <1>2, <2>1
<1> QED BY <1>3, <1>4, <1>5, <1>6, <1>7, <1>8 DEF rspClientRequest

\* What the server takes from its stream and puts into that of the client.
LEMMA ServerTakes ==
  ASSUME IInv, rspServer, ~rspClientRequest, At("ack") => server.pkt.kind # "none"
  PROVE  /\ toClient' = toClient \/ (\E p \in Packets : p.kind # "none" /\ toClient' = Append(toClient, p))
         /\ At("ack")' => server'.pkt.kind # "none"
<1>1. /\ server \in Servers /\ server.rsp_sigval \in {"NONE", "TRAP"} /\ server.pkt \in Packets
      /\ \A v \in {"NONE", "TRAP"} : StopReply(v) \in Packets /\ StopReply(v).kind # "none"
  BY DEF IInv, Servers, Packets, StopReply, Token
<1>2. CASE MonitorAsks \/ rspCheckForException \/ TargetIsRunning \/ rspSocketPeek \/ rspClose
  <2>1. /\ toClient' = toClient
        /\ \E pc \in {"stall", "check", "peek", "poll", "end"} : \E caller, v :
             \/ server' = [server EXCEPT !.pc = pc, !.caller = caller]
             \/ server' = [server EXCEPT !.pc = pc, !.rsp_sigval = v]
             \/ server' = [server EXCEPT !.pc = pc]
    BY <1>2, Zenon DEF MonitorAsks, rspCheckForException, TargetIsRunning, rspSocketPeek, rspClose
  <2>2. server'.pc # "ack"
    BY <1>1, <2>1, Zenon DEF Servers
  <2> QED BY <2>1, <2>2 DEF At
<1>3. CASE TargetHasStopped \/ StallTarget
  <2>1. PICK v \in {"NONE", "TRAP"} :
          /\ toClient' = Append(toClient, StopReply(v))
          /\ \/ server' = [server EXCEPT !.pc = "ack", !.pkt = StopReply(v), !.targetStopped = TRUE]
             \/ server' = [server EXCEPT !.pc = "ack", !.pkt = StopReply(v),
                              !.rsp_sigval = "NONE", !.targetStopped = TRUE, !.caller = "none"]
    BY <1>1, <1>3, Zenon DEF TargetHasStopped, StallTarget
  <2>2. server'.pkt = StopReply(v)
    BY <1>1, <2>1, Zenon DEF Servers
  <2> QED BY <1>1, <2>1, <2>2
<1>4. CASE AwaitAck \/ AckFails
  <2>1. \/ PacketDone /\ toClient' = toClient
        \/ putPkt(toClient, server.pkt)
    BY <1>4 DEF AwaitAck, AckFails
  <2>2. server.pc = "ack"
    BY <1>4 DEF AwaitAck, AckFails, At
  <2>3. CASE PacketDone /\ toClient' = toClient
    <3>1. server.targetStopped
      BY <2>2 DEF IInv, Serving
    <3>2. server'.pc # "ack"
      BY <1>1, <2>3, <3>1, Zenon DEF PacketDone, Loop, Servers
    <3> QED BY <2>3, <3>2 DEF At
  <2>4. CASE putPkt(toClient, server.pkt)
    <3>1. server' = [server EXCEPT !.pc = "ack", !.pkt = server.pkt] /\ toClient' = Append(toClient, server.pkt)
      BY <2>4 DEF putPkt
    <3>2. server'.pkt = server.pkt
      BY <1>1, <3>1, Zenon DEF Servers
    <3> QED BY <1>1, <2>2, <3>1, <3>2 DEF At
  <2> QED BY <2>1, <2>3, <2>4
<1> QED BY <1>2, <1>3, <1>4 DEF rspServer

\* rspServer.
LEMMA ServerStreams ==
  ASSUME IInv, BInv, RunInv, StreamsRight, closed => gdb.mode = "gone", Server
  PROVE  StreamsRight'
<1>1. /\ server \in Servers /\ gdb' = gdb /\ rspServer /\ server.pkt \in Packets
      /\ server.pc \in {"poll", "check", "peek", "stall"} => ~server.targetStopped
      /\ server.pc \in {"request", "ack"} => server.targetStopped
      /\ \A v \in {"NONE", "TRAP"} : StopReply(v) \in Packets
      /\ server.rsp_sigval \in {"NONE", "TRAP"}
  BY DEF IInv, Serving, Server, Servers, StopReply, Token, Packets
<1>2. CASE MonitorAsks \/ rspCheckForException \/ TargetIsRunning \/ rspClose
           \/ (rspSocketPeek /\ UNCHANGED toServer)
  BY <1>1, <1>2, QuietStreams
<1>3. CASE rspSocketPeek /\ toServer' # toServer
  <2>1. /\ server.pc = "peek" /\ UNCHANGED <<toClient, closed>>
        /\ toServer # <<>> /\ Head(toServer) = Etx /\ toServer' = Tail(toServer)
        /\ server' = [server EXCEPT !.pc = "stall", !.caller = "client"]
    BY <1>3 DEF rspSocketPeek, At
  <2>2. server'.pc = "stall" /\ server'.targetStopped = server.targetStopped
    BY <1>1, <2>1, Zenon DEF Servers
  <2> QED BY <1>1, <2>1, <2>2, PeekStreams
<1>4. CASE TargetHasStopped \/ StallTarget
  <2>1. /\ UNCHANGED <<toServer, closed>> /\ server.pc \in {"check", "stall"}
        /\ \E v \in {"NONE", "TRAP"} : toClient' = Append(toClient, StopReply(v))
    BY <1>1, <1>4, Zenon DEF TargetHasStopped, StallTarget, At
  <2>2. \E v \in {"NONE", "TRAP"} :
             \/ server' = [server EXCEPT !.pc = "ack", !.pkt = StopReply(v), !.targetStopped = TRUE]
             \/ server' = [server EXCEPT !.pc = "ack", !.pkt = StopReply(v),
                              !.rsp_sigval = "NONE", !.targetStopped = TRUE, !.caller = "none"]
    BY <1>1, <1>4, Zenon DEF TargetHasStopped, StallTarget
  <2>3. server'.pc = "ack"
    BY <1>1, <2>2, Zenon DEF Servers
  <2> QED BY <1>1, <2>1, <2>3, StopStreams
<1>5. CASE AwaitAck /\ Head(toServer) = Plus
  <2>1. /\ server.pc = "ack" /\ UNCHANGED <<toClient, closed>> /\ PacketDone
        /\ toServer # <<>> /\ toServer' = Tail(toServer)
    BY <1>5 DEF AwaitAck, At
  <2>2. server'.pc \in {"request", "end"} /\ server'.targetStopped
    BY <1>1, <2>1, Zenon DEF PacketDone, Loop, Servers
  <2> QED BY <1>1, <1>5, <2>1, <2>2, AckedStreams
<1>6. CASE AwaitAck /\ Head(toServer) # Plus
  <2>1. /\ server.pc = "ack" /\ UNCHANGED closed /\ toClient' = Append(toClient, server.pkt)
        /\ toServer # <<>> /\ toServer' = Tail(toServer)
        /\ server' = [server EXCEPT !.pc = "ack", !.pkt = server.pkt]
    BY <1>6 DEF AwaitAck, At, putPkt
  <2>2. server'.pc = "ack" /\ server'.targetStopped = server.targetStopped
    BY <1>1, <2>1, Zenon DEF Servers
  <2> QED BY <1>1, <1>6, <2>1, <2>2, ResentStreams
<1>7. CASE AckFails
  <2>1. /\ server.pc = "ack" /\ UNCHANGED <<toServer, toClient, closed>> /\ PacketDone
        /\ toServer = <<>> /\ closed /\ gdb.mode = "gone"
    BY <1>7 DEF AckFails, At
  <2>2. server'.pc \in {"request", "end"}
    BY <1>1, <2>1, Zenon DEF PacketDone, Loop, Servers
  <2> QED BY <1>1, <2>1, <2>2, GivenUpStreams
<1>8. CASE rspClientRequest
  <2>1. PICK kind :
           /\ Serves(kind)
           /\ \/ toClient' = Acked /\ server'.pc \in {"request", "poll"}
              \/ server'.pc = "ack" /\ \E p \in Packets : toClient' = Append(Acked, p)
           /\ kind \in {"k", "R"} => server'.pc = "request"
    BY <1>8, RequestSends
  <2> QED BY <1>1, <2>1, ServedStreams
<1> QED BY <1>1, <1>2, <1>3, <1>4, <1>5, <1>6, <1>7, <1>8 DEF rspServer

-----------------------------------------------------------------------------
\* What a stream is made of stays so whatever is taken or comes behind.
LEMMA StreamOf ==
  ASSUME NEW T, NEW s \in Seq(T), NEW r, NEW S, \A i \in DOMAIN s : s[i] \in S,
         \/ r = s
         \/ s # <<>> /\ r = Tail(s)
         \/ \E n \in 1..Len(s) : r = SubSeq(s, n + 1, Len(s))
         \/ \E e \in S : r = Append(s, e)
  PROVE  \A i \in DOMAIN r : r[i] \in S
<1>1. CASE s # <<>> /\ r = Tail(s)
  <2>1. \A i \in DOMAIN r : i + 1 \in DOMAIN s /\ r[i] = s[i + 1]
    BY <1>1, TailIs
  <2> QED BY <2>1
<1>2. ASSUME NEW n \in 1..Len(s), r = SubSeq(s, n + 1, Len(s)) PROVE \A i \in DOMAIN r : r[i] \in S
  <2>1. \A i \in DOMAIN r : i + n \in DOMAIN s /\ r[i] = s[i + n]
    BY <1>2, RestIs
  <2> QED BY <2>1
<1>3. ASSUME NEW e \in S, r = Append(s, e) PROVE \A i \in DOMAIN r : r[i] \in S
  <2>1. /\ r[Len(r)] = e /\ \A i \in DOMAIN s : r[i] = s[i]
        /\ \A i \in DOMAIN r : i \in DOMAIN s \/ i = Len(r)
    BY <1>3, AppendIs
  <2> QED BY <2>1, Zenon
<1> QED BY <1>1, <1>2, <1>3

\* The server takes elements from its stream and sends replies that it has.
LEMMA ServerElements ==
  ASSUME IInv, BInv, Elements, Server
  PROVE  Elements'
<1> DEFINE S == Sends \cup {Plus, Etx}
           K == {p \in Answers : p.kind # "none"}
<1>1. /\ toServer \in Seq(Requests \cup {Plus, Etx}) /\ toClient \in Seq(Answers)
      /\ \A i \in DOMAIN toServer : toServer[i] \in S
      /\ \A i \in DOMAIN toClient : toClient[i] \in K
      /\ rspServer /\ gdb' = gdb
      /\ Plus \in K /\ \A p \in Packets : p.kind # "none" => p \in K
  BY DEF IInv, BInv, Elements, Server, Answers, Plus, Token
<1>2. closed' = closed /\ monitorPipe' \in {"idle", "asked"}
  <2>1. CASE rspClientRequest
    BY <2>1, RequestSends DEF Serves, Elements
  <2>2. CASE ~rspClientRequest
    BY <1>1, <2>2 DEF rspServer, MonitorAsks, rspCheckForException, TargetHasStopped, TargetIsRunning,
       rspSocketPeek, StallTarget, AwaitAck, AckFails, rspClose, Elements
  <2> QED BY <2>1, <2>2
<1> HIDE DEF S, K
<1>3. CASE ~rspClientRequest
  <2>1. toServer' = toServer \/ (toServer # <<>> /\ toServer' = Tail(toServer))
    BY <1>1, <1>3, ServerMoves
  <2>2. /\ toClient' = toClient \/ (\E p \in K : toClient' = Append(toClient, p))
        /\ At("ack")' => server'.pkt.kind # "none"
    BY <1>1, <1>3, ServerTakes DEF Elements
  <2>3. \A i \in DOMAIN toServer' : toServer'[i] \in S
    BY <1>1, <2>1, StreamOf
  <2>4. \A i \in DOMAIN toClient' : toClient'[i] \in K
    BY <1>1, <2>2, StreamOf
  <2> QED BY <1>1, <1>2, <2>2, <2>3, <2>4 DEF Elements, S, K
<1>4. CASE rspClientRequest
  <2>1. PICK kind :
           /\ Serves(kind)
           /\ \/ toClient' = Acked /\ server'.pc \in {"request", "poll"}
              \/ /\ server'.pc = "ack" /\ server'.pkt \in Packets /\ server'.pkt.kind # "none"
                 /\ toClient' = Append(Acked, server'.pkt)
    BY <1>4, RequestSends
  <2>2. \E n \in 1..Len(toServer) : toServer' = SubSeq(toServer, n + 1, Len(toServer))
    BY <1>1, <2>1, ServedRequest DEF Serves
  <2>3. \A i \in DOMAIN toServer' : toServer'[i] \in S
    BY <1>1, <2>2, StreamOf
  <2>4. Acked \in Seq(Answers) /\ \A i \in DOMAIN Acked : Acked[i] \in K
    <3>1. Plus \in Answers
      BY DEF Answers
    <3> QED BY <1>1, <3>1, StreamOf DEF Acked
  <2>5. toClient' = Acked \/ \E p \in K : toClient' = Append(Acked, p)
    BY <1>1, <2>1
  <2>6. \A i \in DOMAIN toClient' : toClient'[i] \in K
    BY <2>4, <2>5, StreamOf
  <2>7. At("ack")' => server'.pkt.kind # "none"
    BY <2>1 DEF At
  <2> QED BY <1>1, <1>2, <2>3, <2>6, <2>7 DEF Elements, S, K
<1> QED BY <1>3, <1>4

\* The client sends what it may.
LEMMA ClientElements ==
  ASSUME IInv, BInv, RunInv, Elements, Send \/ Interrupt \/ Receive \/ Disconnect
  PROVE  Elements'
<1> DEFINE S == Sends \cup {Plus, Etx}
           K == {p \in Answers : p.kind # "none"}
<1>1. /\ toServer \in Seq(Requests \cup {Plus, Etx}) /\ toClient \in Seq(Answers)
      /\ \A i \in DOMAIN toServer : toServer[i] \in S
      /\ \A i \in DOMAIN toClient : toClient[i] \in K
  BY DEF IInv, BInv, Elements
<1>2. UNCHANGED <<server, monitorPipe>>
  BY DEF Send, Interrupt, Receive, ReceiveAck, ReceivePacket, Disconnect
<1>3. /\ toServer' = toServer \/ \E e \in S : toServer' = Append(toServer, e)
      /\ toClient' = toClient \/ (toClient # <<>> /\ toClient' = Tail(toClient))
  BY DEF Send, Interrupt, Receive, ReceiveAck, ReceivePacket, Disconnect
<1>4. closed' => gdb'.mode = "gone"
  <2>1. CASE Disconnect
    BY <2>1 DEF Disconnect, Client
  <2>2. CASE ReceivePacket
    BY <2>2 DEF ReceivePacket
  <2>3. CASE Send \/ Interrupt \/ ReceiveAck
    <3>1. closed' = closed /\ gdb.mode # "gone"
      BY <2>3 DEF Send, Interrupt, ReceiveAck
    <3> QED BY <3>1 DEF Elements
  <2> QED BY <2>1, <2>2, <2>3 DEF Receive
<1> HIDE DEF S, K
<1>5. \A i \in DOMAIN toServer' : toServer'[i] \in S
  BY <1>1, <1>3, StreamOf
<1>6. \A i \in DOMAIN toClient' : toClient'[i] \in K
  BY <1>1, <1>3, StreamOf
<1> QED BY <1>2, <1>4, <1>5, <1>6 DEF Elements, S, K, At

-----------------------------------------------------------------------------
\* Between requests the server leaves memory and breakpoints alone.
LEMMA MemLeft ==
  ASSUME IInv, BInv, rspServer, ~rspClientRequest
  PROVE  cpu'.mem = cpu.mem /\ mpHash' = mpHash
<1>1. Both \in Pair /\ Agree(Both) /\ Both.cpu = cpu
  BY MemoryTypes DEF Both
<1>2. mpHash' = mpHash
  BY ServerMoves
<1>3. CASE rspCheckForException \/ StallTarget
  <2>1. cpu' = stallNoted(Both).cpu \/ cpu' = stall(Both).cpu
    BY <1>3 DEF rspCheckForException, StallTarget, DebugUnitIs
  <2> QED BY <1>1, <1>2, <2>1, MemKept
<1>4. CASE TargetHasStopped
  <2> DEFINE s == stallNoted(Both)
  <2>1. Agree(s) /\ s.unit.stallState = "STALLED" /\ s.cpu = cpu
    BY <1>1, <1>4, StallNotedAgrees DEF TargetHasStopped
  <2>2. cpu' = BackUp(s).cpu
    BY <1>4 DEF TargetHasStopped, DebugUnitIs
  <2>3. BackUp(s) \in {s, writeNpc(s, s.cpu.ppc)}
    BY DEF BackUp
  <2> HIDE DEF s
  <2> QED BY <1>2, <2>1, <2>2, <2>3, WriteNpcMem
<1>5. CASE ~(rspCheckForException \/ StallTarget \/ TargetHasStopped)
  <2>1. cpu' = cpu
    BY <1>5 DEF rspServer, MonitorAsks, TargetIsRunning, rspSocketPeek, AwaitAck, AckFails, rspClose
  <2> QED BY <1>2, <2>1
<1> QED BY <1>3, <1>4, <1>5

\* What a request does to memory and the breakpoints.
LEMMA RequestMem ==
  ASSUME IInv, BInv, rspClientRequest
  PROVE  \/ cpu'.mem = cpu.mem /\ mpHash' = mpHash
         \/ \E a \in Addr :
              \/ cpu'.mem = [cpu.mem EXCEPT ![a] = "written"] /\ mpHash' = mpHash
              \/ cpu'.mem = [cpu.mem EXCEPT ![a] = "trap"] /\ mpHash' = HashAdd(a, cpu.mem[a])
              \/ /\ cpu'.mem = [cpu.mem EXCEPT ![a] = mpHash[a]] /\ mpHash[a] # NoBreakpoint
                 /\ mpHash' = [mpHash EXCEPT ![a] = NoBreakpoint]
<1>1. Both \in Pair /\ Agree(Both) /\ Both.cpu = cpu
  BY MemoryTypes DEF Both
<1>2. ASSUME NEW on \in BOOLEAN, NEW kind \in {"c", "s"}, Serves(kind), Resumes(on)
      PROVE  cpu'.mem = cpu.mem /\ mpHash' = mpHash
  <2> DEFINE s1 == writeNpc(Both, ResumeAddr)
             s2 == clearDrr(s1)
             s3 == setSingleStep(s2, on)
  <2>1. Both.unit.stallState = "STALLED"
    BY <1>2, ServesStopped
  <2>2. RequestAddr \in Addr \cup {Flushed}
    <3>1. toServer[RequestPos] \in Requests /\ toServer[RequestPos].kind = kind
      BY <1>2, ServedRequest DEF IInv
    <3> QED BY <3>1 DEF Requests, RequestAddr
  <2>3. readNpc(Both) \in Addr
    BY <1>1, <2>1, KnownNpc DEF Agree, Pair, Cpu
  <2>4. ResumeAddr \in Addr
    BY <2>2, <2>3 DEF ResumeAddr
  <2>5. Agree(s1) /\ s1.cpu.mem = cpu.mem
    BY <1>1, <2>1, <2>4, WriteNpcAgrees, WriteNpcMem
  <2> HIDE DEF s1
  <2>6. Agree(s2) /\ s2.cpu.mem = cpu.mem
    BY <2>5, OthersAgree, MemKept DEF Agree
  <2> HIDE DEF s2
  <2>7. Agree(s3) /\ s3.cpu.mem = cpu.mem
    BY <2>6, OthersAgree, MemKept DEF Agree
  <2> HIDE DEF s3
  <2>8. unstall(s3).cpu.mem = cpu.mem
    BY <2>7, MemKept DEF Agree
  <2>9. cpu' = unstall(s3).cpu /\ UNCHANGED mpHash
    BY <1>2 DEF Resumes, DebugUnitIs, s3, s2, s1
  <2> QED BY <2>8, <2>9
<1>3. CASE rspContinue \/ rspStep
  BY <1>2, <1>3 DEF rspContinue, rspStep
<1>4. CASE LastSignal \/ Detach \/ Ignored
  BY <1>4 DEF LastSignal, Detach, Ignored
<1>5. CASE rspReadReg
  BY <1>1, <1>5, MemKept DEF rspReadReg, DebugUnitIs
<1>6. CASE rspWriteReg \/ rspRestart
  <2>1. PICK kind \in {"P", "R"} : \E a : Serves(kind) /\ cpu' = writeNpc(Both, a).cpu /\ UNCHANGED mpHash
    BY <1>6 DEF rspWriteReg, rspRestart, DebugUnitIs
  <2> QED BY <1>1, <2>1, ServesStopped, WriteNpcMem
<1>7. CASE rspWriteMem
  <2>1. Serves("M") /\ cpu' = writeMem(Both, RequestAddr, "written").cpu /\ UNCHANGED mpHash
    BY <1>7 DEF rspWriteMem, DebugUnitIs
  <2>2. RequestAddr \in Addr
    BY <2>1, AddressOf
  <2> QED BY <1>1, <2>1, <2>2, WriteMemAt
<1>8. CASE rspInsertMatchpoint
  <2>1. /\ Serves("Z") /\ cpu' = writeMem(Both, RequestAddr, "trap").cpu
        /\ mpHash' = HashAdd(RequestAddr, cpu.mem[RequestAddr])
    BY <1>8 DEF rspInsertMatchpoint, DebugUnitIs
  <2>2. RequestAddr \in Addr
    BY <2>1, AddressOf
  <2>3. cpu'.mem = [cpu.mem EXCEPT ![RequestAddr] = "trap"]
    BY <1>1, <2>1, <2>2, WriteMemAt
  <2> QED BY <2>1, <2>2, <2>3, Zenon
<1>9. CASE rspRemoveMatchpoint /\ mpHash[RequestAddr] = NoBreakpoint
  BY <1>9 DEF rspRemoveMatchpoint
<1>10. CASE rspRemoveMatchpoint /\ mpHash[RequestAddr] # NoBreakpoint
  <2>1. /\ Serves("z") /\ cpu' = writeMem(Both, RequestAddr, mpHash[RequestAddr]).cpu
        /\ mpHash' = [mpHash EXCEPT ![RequestAddr] = NoBreakpoint]
    BY <1>10 DEF rspRemoveMatchpoint, DebugUnitIs
  <2>2. RequestAddr \in Addr
    BY <2>1, AddressOf
  <2>3. cpu'.mem = [cpu.mem EXCEPT ![RequestAddr] = mpHash[RequestAddr]]
    BY <1>1, <2>1, <2>2, WriteMemAt
  <2> QED BY <1>10, <2>1, <2>2, <2>3, Zenon
<1> QED BY <1>3, <1>4, <1>5, <1>6, <1>7, <1>8, <1>9, <1>10 DEF rspClientRequest

LEMMA TrapsStep ==
  ASSUME IInv, BInv, TrapsHidden, [Next]_vars
  PROVE  TrapsHidden'
<1>1. cpu.mem \in [Addr -> Insn] /\ mpHash \in [Addr -> Insn \cup {NoBreakpoint}] /\ NoBreakpoint # "trap"
  BY MemoryTypes DEF NoBreakpoint
<1>2. ASSUME cpu'.mem = cpu.mem, mpHash' = mpHash PROVE TrapsHidden'
  BY <1>2 DEF TrapsHidden
<1>3. CASE Server /\ ~rspClientRequest
  BY <1>2, <1>3, MemLeft DEF Server
<1>4. CASE Server /\ rspClientRequest
  <2>1. ASSUME NEW a \in Addr, cpu'.mem = [cpu.mem EXCEPT ![a] = "written"], mpHash' = mpHash
        PROVE  TrapsHidden'
    BY <1>1, <2>1 DEF TrapsHidden
  <2>2. ASSUME NEW a \in Addr, cpu'.mem = [cpu.mem EXCEPT ![a] = "trap"], mpHash' = HashAdd(a, cpu.mem[a])
        PROVE  TrapsHidden'
    <3>1. ASSUME NEW b \in Addr PROVE mpHash'[b] # "trap" /\ (mpHash'[b] = NoBreakpoint => cpu'.mem[b] # "trap")
      <4>1. /\ cpu'.mem[b] = (IF b = a THEN "trap" ELSE cpu.mem[b])
            /\ mpHash'[b] = (IF b = a /\ mpHash[a] = NoBreakpoint THEN cpu.mem[a] ELSE mpHash[b])
        BY <1>1, <2>2 DEF HashAdd
      <4>2. cpu.mem[a] # NoBreakpoint
        BY <1>1 DEF Insn, NoBreakpoint
      <4> QED BY <4>1, <4>2 DEF TrapsHidden
    <3> QED BY <3>1 DEF TrapsHidden
  <2>3. ASSUME NEW a \in Addr, cpu'.mem = [cpu.mem EXCEPT ![a] = mpHash[a]], mpHash[a] # NoBreakpoint,
               mpHash' = [mpHash EXCEPT ![a] = NoBreakpoint]
        PROVE  TrapsHidden'
    BY <1>1, <2>3 DEF TrapsHidden
  <2> QED BY <1>2, <1>4, <2>1, <2>2, <2>3, RequestMem
<1>5. CASE Target
  <2>1. cpu'.mem = cpu.mem
    BY <1>5 DEF Target, Execute, IInv, Agree, Pair, Cpu, Both
  <2> QED BY <1>2, <1>5, <2>1 DEF Target
<1>6. CASE Send \/ Interrupt \/ Receive \/ Disconnect \/ Monitor \/ UNCHANGED vars
  BY <1>2, <1>6 DEF Send, Interrupt, Receive, ReceiveAck, ReceivePacket, Disconnect, Monitor, vars, serverVars
<1> QED BY <1>3, <1>4, <1>5, <1>6 DEF Next, Ended

-----------------------------------------------------------------------------
\* The streams stay right whatever happens, and they are right at first.
LEMMA StreamStep == IInv /\ BInv /\ RunInv /\ StreamInv /\ [Next]_vars => StreamInv'
<1> SUFFICES ASSUME IInv, BInv, RunInv, StreamInv, [Next]_vars PROVE StreamInv'
  OBVIOUS
<1>1. StreamsRight /\ Elements /\ TrapsHidden /\ (closed => gdb.mode = "gone")
  BY DEF StreamInv, StreamsRight, Elements
<1>2. TrapsHidden'
  BY <1>1, TrapsStep
<1>3. CASE Server
  BY <1>1, <1>2, <1>3, ServerStreams, ServerElements DEF StreamInv, StreamsRight
<1>4. CASE Send \/ Interrupt \/ Receive \/ Disconnect
  <2>1. StreamsRight'
    BY <1>1, <1>4, SendStreams, InterruptStreams, ReceiveAckStreams, ReceivePacketStreams,
       DisconnectStreams DEF Receive
  <2> QED BY <1>1, <1>2, <1>4, <2>1, ClientElements DEF StreamInv, StreamsRight
<1>5. CASE Target \/ Monitor \/ UNCHANGED vars
  <2>1. UNCHANGED <<server, toServer, toClient, closed, gdb>> /\ monitorPipe' \in {monitorPipe, "asked"}
    BY <1>5 DEF Target, Monitor, vars, serverVars
  <2>2. StreamsRight'
    BY <1>1, <2>1, StreamsLeft
  <2>3. Elements'
    BY <1>1, <2>1 DEF Elements, At
  <2> QED BY <1>2, <2>2, <2>3 DEF StreamInv, StreamsRight
<1> QED BY <1>3, <1>4, <1>5 DEF Next, Ended

LEMMA StreamInit == Init => StreamInv
<1> SUFFICES ASSUME Init PROVE StreamInv
  OBVIOUS
<1>1. /\ gdb = Client("idle", "none") /\ server.targetStopped /\ server.pc = "request"
      /\ toServer = <<>> /\ toClient = <<>> /\ closed = FALSE /\ monitorPipe = "idle"
      /\ mpHash = [a \in Addr |-> NoBreakpoint] /\ cpu.mem = [b \in Addr |-> "loaded"]
  BY DEF Init, ServerInit
<1>2. /\ Etxs(toServer) = {} /\ Asked(toServer) = {} /\ Acks(toClient) = {}
      /\ Len(toServer) = 0 /\ Len(toClient) = 0 /\ DOMAIN toServer = {} /\ DOMAIN toClient = {}
  BY <1>1 DEF Etxs, Asked, Acks
<1>3. gdb.mode = "idle" /\ ~At("ack") /\ InStreams = 0 /\ Weight = 0
  BY <1>1, <1>2 DEF Client, At, InStreams, Weight, One
<1>4. Short /\ OneOfEach /\ AckComesFirst /\ InterruptPlace /\ OneAnswer
  BY <1>1, <1>2, <1>3 DEF Short, OneOfEach, Lone, AckComesFirst, InterruptPlace, OneAnswer
<1>5. Elements /\ TrapsHidden
  BY <1>1, <1>2, <1>3 DEF Elements, TrapsHidden, NoBreakpoint
<1> QED BY <1>4, <1>5 DEF StreamInv

\* The processor, the debug unit and the streams are what their declarations say, and
\* neither stream ever holds more than four elements, for every program and every
\* client that waits for the answer to its request (RspConnection, rspServer).
THEOREM StreamsAreBounded == Spec => []TypeOK
<1>1. IInv /\ BInv /\ RunInv /\ StreamInv => TypeOK
  <2> SUFFICES ASSUME IInv, BInv, RunInv, StreamInv PROVE TypeOK
    OBVIOUS
  <2>1. unit \in Unit /\ cpu \in Cpu
    BY DEF IInv, Agree, Pair, Both
  <2>2. mpHash \in [Addr -> (Insn \ {"trap"}) \cup {NoBreakpoint}]
    BY DEF IInv, StreamInv, TrapsHidden
  <2>3. /\ server.pc \in {"request", "poll", "check", "peek", "stall", "ack", "end"}
        /\ server.targetStopped \in BOOLEAN /\ server.rsp_sigval \in {"NONE", "TRAP"}
    BY DEF IInv, Servers
  <2>4. toServer \in Seq(Requests \cup {Plus, Etx}) /\ toClient \in Seq(Answers)
        /\ Len(toServer) \in Nat /\ Len(toClient) \in Nat
    BY DEF IInv, BInv
  <2>5. Len(toServer) <= 4 /\ Len(toClient) <= 4
    <3>1. Weight <= 3
      BY DEF StreamInv, OneOfEach, Weight, One
    <3>2. CASE InStreams <= Weight + 1
      <4>1. Weight \in Nat
        BY DEF Weight, One
      <4> QED BY <2>4, <3>1, <3>2, <4>1 DEF InStreams
    <3>3. CASE GivenUp
      BY <2>4, <3>3 DEF GivenUp
    <3> QED BY <3>2, <3>3 DEF StreamInv, Short
  <2>6. Range(toServer) \subseteq Sends \cup {Plus, Etx}
    BY DEF StreamInv, Elements, Range
  <2>7. {toClient[n].kind : n \in DOMAIN toClient} \subseteq Tokens
    <3>1. ASSUME NEW n \in DOMAIN toClient PROVE toClient[n].kind \in Tokens
      <4>1. toClient[n] \in Answers /\ toClient[n].kind # "none"
        BY <2>4 DEF StreamInv, Elements
      <4> QED BY <4>1 DEF Answers, Packets, Plus, Token, Tokens
    <3> QED BY <3>1
  <2>8. gdb.mode \in {"idle", "ack", "reply", "stop", "gone"} /\ monitorPipe \in {"idle", "asked"}
    BY DEF RunInv, Modes, StreamInv, Elements
  <2> QED BY <2>1, <2>2, <2>3, <2>4, <2>5, <2>6, <2>7, <2>8 DEF TypeOK
<1>2. Init => BInv /\ RunInv /\ StreamInv
  BY BreakpointsInit, GoalInit, StreamInit
<1>3. BInv /\ RunInv /\ StreamInv /\ IInv /\ [Next]_vars => BInv' /\ RunInv' /\ StreamInv'
  BY BreakpointsStep, RunStep, StreamStep
<1>4. Spec => [][Next]_vars /\ Init
  BY PTL DEF Spec
<1>5. Spec => [](BInv /\ RunInv /\ StreamInv)
  BY <1>2, <1>3, <1>4, Invariant, PTL
<1> QED BY <1>1, <1>5, Invariant, PTL

-----------------------------------------------------------------------------
(* The link: what lies below the requests.                                *)

\* What holds at the start and after every step holds up to the end.
LEMMA UpTo ==
  ASSUME NEW N \in Nat, NEW S, 0 \in S, \A n \in 1..N : n - 1 \in S => n \in S
  PROVE  \A n \in 0..N : n \in S
<1> DEFINE T == {n \in 0..N : n \notin S}
<1> SUFFICES ASSUME T # {} PROVE FALSE
  OBVIOUS
<1>1. PICK x \in T : \A y \in T : x <= y
  <2>1. T \subseteq Nat /\ T # {}
    OBVIOUS
  <2> HIDE DEF T
  <2> QED BY <2>1, LeastNatural
<1>2. x \in 1..N /\ x - 1 \in 0..N /\ ~(x <= x - 1)
  BY <1>1
<1>3. x - 1 \in S
  BY <1>1, <1>2
<1> QED BY <1>1, <1>2, <1>3

Climbs(S, N) == 0 \in S /\ \A n \in 1..N : n - 1 \in S => n \in S

LEMMA UpToEnd ==
  ASSUME NEW N \in Nat, NEW S, Climbs(S, N) PROVE N \in S
BY UpTo DEF Climbs

\* A step for each of N elements, and what it makes of a start value.
StepOn(F, T, N) == F \in [T \X (1..N) -> T]
RunOf(r, F, start, T, N) ==
  /\ r \in [0..N -> T]
  /\ r[0] = start /\ \A n \in 1..N : r[n] = F[<<r[n - 1], n>>]

LEMMA Iterates ==
  ASSUME NEW N \in Nat, NEW T, NEW s \in T, NEW F, StepOn(F, T, N)
  PROVE  \E r : RunOf(r, F, s, T, N)
<1>0. F \in [T \X (1..N) -> T]
  BY DEF StepOn
<1> DEFINE Upto(m, r) == r[0] = s /\ \A n \in 1..m : r[n] = F[<<r[n - 1], n>>]
           S == {m \in 0..N : \E r \in [0..m -> T] : Upto(m, r)}
<1>1. 0 \in S
  <2> DEFINE r == [n \in 0..0 |-> s]
  <2>1. r \in [0..0 -> T] /\ Upto(0, r)
    OBVIOUS
  <2> HIDE DEF r
  <2> QED BY <2>1
<1>2. ASSUME NEW m \in 1..N, m - 1 \in S PROVE m \in S
  <2>1. PICK q \in [0..(m - 1) -> T] : Upto(m - 1, q)
    BY <1>2
  <2> DEFINE last == F[<<q[m - 1], m>>]
             r == [n \in 0..m |-> IF n = m THEN last ELSE q[n]]
  <2>2. m \in Nat /\ m - 1 \in 0..(m - 1) /\ m - 1 \in Nat
    OBVIOUS
  <2>3. last \in T
    <3>1. q[m - 1] \in T
      BY <2>2
    <3> QED BY <1>0, <3>1
  <2> HIDE DEF last
  <2>4. r \in [0..m -> T]
    BY <2>2, <2>3
  <2>5. \A n \in 0..(m - 1) : r[n] = q[n]
    BY <2>2
  <2>6. r[m] = last
    BY <2>2
  <2> HIDE DEF r
  <2>7. r[0] = s
    BY <2>1, <2>2, <2>5
  <2>8. ASSUME NEW n \in 1..m PROVE r[n] = F[<<r[n - 1], n>>]
    <3>1. CASE n = m
      BY <2>2, <2>5, <2>6, <3>1 DEF last
    <3>2. CASE n # m
      <4>1. n \in 1..(m - 1) /\ n - 1 \in 0..(m - 1) /\ n \in 0..(m - 1)
        BY <2>2, <3>2
      <4>2. q[n] = F[<<q[n - 1], n>>]
        BY <2>1, <4>1
      <4> QED BY <2>5, <4>1, <4>2
    <3> QED BY <3>1, <3>2
  <2>9. Upto(m, r)
    BY <2>7, <2>8
  <2> QED BY <2>4, <2>9
<1> HIDE DEF S
<1>3. N \in S
  BY <1>1, <1>2, UpTo
<1> QED BY <1>3 DEF S, RunOf

-----------------------------------------------------------------------------
(* Hardware matchpoints.                                                   *)

HwPair == Matchpoints!Pair
HwRegisters(addr) ==
  [DCR : [HwPair -> Nat], DVR : [HwPair -> {0, addr}], WGB : SUBSET HwPair]

\* The first of some pairs of registers is one of them.
LEMMA FirstPair ==
  ASSUME NEW pairs, pairs \subseteq HwPair, pairs # {}
  PROVE  /\ Matchpoints!First(pairs) \in pairs
         /\ \A m \in pairs : Matchpoints!First(pairs) <= m
<1>1. pairs \subseteq Nat
  BY DEF HwPair, Matchpoints!Pair
<1>2. \E n \in pairs : \A m \in pairs : n <= m
  BY <1>1, LeastNatural
<1> QED BY <1>2 DEF Matchpoints!First

\* Insertion keeps the registers in their types.
LEMMA InsertType ==
  ASSUME NEW addr, NEW du \in HwRegisters(addr), NEW type \in Matchpoints!MatchType,
         NEW present \in BOOLEAN
  PROVE  Matchpoints!Insert(du, type, addr, present).du \in HwRegisters(addr)
<1> DEFINE free == Matchpoints!Free(du)
           n == Matchpoints!First(free)
           control == Matchpoints!Control[type]
           new == [DCR |-> [du.DCR EXCEPT ![n] = control],
                   DVR |-> [du.DVR EXCEPT ![n] = addr],
                   WGB |-> du.WGB \cup {n}]
<1>1. CASE free = {}
  BY <1>1 DEF Matchpoints!Insert
<1>2. CASE free # {}
  <2>1. free \subseteq HwPair
    BY DEF Matchpoints!Free, HwPair
  <2>2. n \in HwPair
    <3> HIDE DEF free
    <3> QED BY <1>2, <2>1, FirstPair
  <2>3. control \in Nat
    BY DEF Matchpoints!Control, Matchpoints!MatchType
  <2>4. Matchpoints!Insert(du, type, addr, present).du = Matchpoints!Stored(du, new, present)
    BY <1>2 DEF Matchpoints!Insert
  <2> HIDE DEF n, control
  <2>5. du.DCR \in [HwPair -> Nat] /\ du.DVR \in [HwPair -> {0, addr}] /\ du.WGB \in SUBSET HwPair
    BY DEF HwRegisters
  <2>6. [du.DCR EXCEPT ![n] = control] \in [HwPair -> Nat]
    BY <2>3, <2>5
  <2>7. [du.DVR EXCEPT ![n] = addr] \in [HwPair -> {0, addr}]
    BY <2>5
  <2>8. du.WGB \cup {n} \in SUBSET HwPair
    BY <2>2, <2>5
  <2>9. new \in HwRegisters(addr)
    BY <2>6, <2>7, <2>8 DEF HwRegisters
  <2> HIDE DEF new
  <2> QED BY <2>4, <2>9 DEF Matchpoints!Stored
<1> QED BY <1>1, <1>2

\* The first pairs are in use for one type of matchpoint, the others are free.
InUse(du, type, used) ==
  \A n \in HwPair : du.DCR[n] = IF n < used THEN Matchpoints!Control[type] ELSE 0

LEMMA FreePairs ==
  ASSUME NEW du, NEW type \in Matchpoints!MatchType, NEW used \in 0..8, InUse(du, type, used)
  PROVE  Matchpoints!Free(du) = {m \in HwPair : m >= used}
<1> DEFINE control == Matchpoints!Control[type]
<1>1. (control \div 32) % 8 # 0 /\ control \in Nat
  BY DEF Matchpoints!Control, Matchpoints!MatchType
<1>2. (0 \div 32) % 8 = 0
  OBVIOUS
<1> HIDE DEF control
<1>3. \A m \in HwPair : Matchpoints!CompareTo(du.DCR[m]) = 0 <=> m >= used
  BY <1>1, <1>2 DEF InUse, Matchpoints!CompareTo, HwPair, Matchpoints!Pair, control
<1> QED BY <1>3 DEF Matchpoints!Free, HwPair

\* The reply to one more insertion, and the registers after it.
FillsNext(inserted, du, type, present, used) ==
  /\ inserted.reply = IF used = 8 THEN "" ELSE "OK"
  /\ ~present => inserted.du = du
  /\ present => InUse(inserted.du, type, IF used = 8 THEN 8 ELSE used + 1)

LEMMA InsertFills ==
  ASSUME NEW addr, NEW du \in HwRegisters(addr), NEW type \in Matchpoints!MatchType,
         NEW used \in 0..8, InUse(du, type, used), NEW present \in BOOLEAN
  PROVE  FillsNext(Matchpoints!Insert(du, type, addr, present), du, type, present, used)
<1> DEFINE free == Matchpoints!Free(du)
           n == Matchpoints!First(free)
           control == Matchpoints!Control[type]
           new == [DCR |-> [du.DCR EXCEPT ![n] = control],
                   DVR |-> [du.DVR EXCEPT ![n] = addr],
                   WGB |-> du.WGB \cup {n}]
           inserted == Matchpoints!Insert(du, type, addr, present)
<1>1. control \in Nat
  BY DEF Matchpoints!Control, Matchpoints!MatchType
<1> HIDE DEF control
<1>3. free = {m \in HwPair : m >= used}
  BY FreePairs
<1>4. CASE used = 8
  <2>1. free = {}
    BY <1>3, <1>4 DEF HwPair, Matchpoints!Pair
  <2>2. inserted = [reply |-> "", du |-> du]
    BY <2>1 DEF Matchpoints!Insert
  <2> HIDE DEF inserted
  <2>3. inserted.reply = "" /\ inserted.du = du
    BY <2>2
  <2> HIDE DEF inserted
  <2> QED BY <1>4, <2>3 DEF inserted, FillsNext
<1>5. CASE used # 8
  <2>1. used \in free /\ free \subseteq HwPair
    BY <1>3, <1>5 DEF HwPair, Matchpoints!Pair
  <2>2. n = used
    <3>1. n \in free /\ n <= used
      <4> HIDE DEF free
      <4> QED BY <2>1, FirstPair
    <3> QED BY <1>3, <3>1 DEF HwPair, Matchpoints!Pair
  <2>3. inserted = [reply |-> "OK", du |-> Matchpoints!Stored(du, new, present)]
    BY <2>1 DEF Matchpoints!Insert, control
  <2> HIDE DEF n
  <2>4. du.DCR \in [HwPair -> Nat]
    BY DEF HwRegisters
  <2>5. \A m \in HwPair : new.DCR[m] = IF m = used THEN control ELSE du.DCR[m]
    BY <2>2, <2>4
  <2>6. InUse(new, type, used + 1)
    BY <2>5, <1>5 DEF InUse, HwPair, Matchpoints!Pair, control
  <2> HIDE DEF new
  <2>7. inserted.reply = "OK" /\ inserted.du = IF present THEN new ELSE du
    BY <2>3 DEF Matchpoints!Stored
  <2> HIDE DEF inserted
  <2> QED BY <1>5, <2>6, <2>7 DEF inserted, FillsNext
<1> QED BY <1>4, <1>5

\* After any number of insertions, of any kind and at any address, none of them can be
\* taken back: removal looks for a value of DCR that insertion does not write
\* (rspInsertMatchpoint, rspRemoveMatchpoint).
THEOREM NeverRemovedAtAll ==
  ASSUME NEW type \in Matchpoints!MatchType, NEW other \in Matchpoints!MatchType,
         NEW addr, NEW count \in Nat, NEW present \in BOOLEAN
  PROVE  Matchpoints!Stays(type, other, addr, count, present)
<1> DEFINE none == Matchpoints!NoMatchpoints
           T == HwRegisters(addr)
           step(du) == Matchpoints!Insert(du, type, addr, present).du
           F == [x \in T \X (1..count) |-> step(x[1])]
           after == CHOOSE after : after = [n \in 0..count |->
                                     IF n = 0 THEN none ELSE step(after[n - 1])]
           used(n) == IF ~present THEN 0 ELSE IF n <= 8 THEN n ELSE 8
           Filled(n) == /\ after[n] \in T /\ InUse(after[n], type, used(n))
                        /\ ~present => after[n] = none
           S == {n \in 0..count : Filled(n)}
<1>1. none \in T
  BY DEF Matchpoints!NoMatchpoints, HwRegisters, HwPair
<1>2. PICK r \in [0..count -> T] : r[0] = none /\ \A n \in 1..count : r[n] = step(r[n - 1])
  <2>1. F \in [T \X (1..count) -> T]
    BY InsertType
  <2>2. PICK r \in [0..count -> T] : r[0] = none /\ \A n \in 1..count : r[n] = F[<<r[n - 1], n>>]
    <3>1. StepOn(F, T, count)
      BY <2>1 DEF StepOn
    <3> HIDE DEF F, T, none
    <3>2. PICK r : RunOf(r, F, none, T, count)
      BY <1>1, <3>1, Iterates
    <3> QED BY <3>2 DEF RunOf
  <2>3. ASSUME NEW n \in 1..count PROVE r[n] = step(r[n - 1])
    <3>1. r[n - 1] \in T
      OBVIOUS
    <3> HIDE DEF T, step
    <3>2. F[<<r[n - 1], n>>] = step(r[n - 1])
      BY <3>1
    <3> QED BY <2>2, <3>2
  <2> QED BY <2>2, <2>3
<1> HIDE DEF none, step, T
<1>3. r = [n \in 0..count |-> IF n = 0 THEN none ELSE step(r[n - 1])]
  BY <1>2
<1>4. after = [n \in 0..count |-> IF n = 0 THEN none ELSE step(after[n - 1])]
  BY <1>3
<1>5. Matchpoints!Inserted(count, type, addr, present) = after[count]
  BY DEF Matchpoints!Inserted, none, step
<1> HIDE DEF after
<1>6. after[0] = none /\ \A n \in 1..count : after[n] = step(after[n - 1])
  BY <1>4
<1> HIDE DEF T
<1>7. 0 \in S
  <2>1. InUse(none, type, 0) /\ used(0) = 0
    BY DEF InUse, none, Matchpoints!NoMatchpoints, HwPair, Matchpoints!Pair
  <2> QED BY <1>1, <1>6, <2>1
<1> HIDE DEF used
<1>8. ASSUME NEW n \in 1..count, n - 1 \in S PROVE n \in S
  <2> DEFINE du == after[n - 1]
             before == used(n - 1)
  <2>1. du \in T /\ InUse(du, type, before) /\ (~present => du = none)
    <3> HIDE DEF Filled
    <3>1. Filled(n - 1)
      BY <1>8
    <3> QED BY <3>1 DEF Filled
  <2>2. after[n] = step(du)
    BY <1>6
  <2>3. before \in 0..8
    BY DEF used
  <2>4. ~present => used(n) = before
    BY DEF used
  <2>5. present => used(n) = IF before = 8 THEN 8 ELSE before + 1
    BY DEF used
  <2> HIDE DEF du, before
  <2>6. step(du) \in T
    BY <2>1, InsertType DEF step, T
  <2>7. /\ ~present => step(du) = du
        /\ present => InUse(step(du), type, IF before = 8 THEN 8 ELSE before + 1)
    <3>1. du \in HwRegisters(addr)
      BY <2>1 DEF T
    <3>2. InUse(du, type, before)
      BY <2>1
    <3>3. FillsNext(Matchpoints!Insert(du, type, addr, present), du, type, present, before)
      BY <3>1, <3>2, <2>3, InsertFills
    <3> QED BY <3>3 DEF step, FillsNext
  <2>8. InUse(step(du), type, used(n))
    BY <2>1, <2>4, <2>5, <2>7
  <2>9. Filled(n)
    BY <2>1, <2>2, <2>6, <2>7, <2>8
  <2> HIDE DEF Filled
  <2> QED BY <2>9
<1> HIDE DEF Filled
<1>9. count \in S
  <2> HIDE DEF S
  <2> QED BY <1>7, <1>8, UpTo
<1> DEFINE du == after[count]
<1>91. Filled(count)
  BY <1>9
<1>10. du \in T /\ InUse(du, type, used(count)) /\ (~present => du = none)
  BY <1>91 DEF Filled
<1> HIDE DEF du
<1>11. Matchpoints!Remove(du, other, addr, present).reply = "E02"
  <2>1. Matchpoints!Sought[other] # 0 /\ Matchpoints!Sought[other] # Matchpoints!Control[type]
    BY DEF Matchpoints!Sought, Matchpoints!Control, Matchpoints!MatchType
  <2>2. Matchpoints!Found(du, other, addr) = {}
    BY <1>10, <2>1 DEF Matchpoints!Found, InUse, HwPair
  <2> QED BY <2>2 DEF Matchpoints!Remove
<1>12. Matchpoints!Insert(du, other, addr, present).reply = IF present /\ count >= 8 THEN "" ELSE "OK"
  <2>1. used(count) \in 0..8 /\ (used(count) = 8 <=> present /\ count >= 8)
    BY DEF used
  <2>2. Matchpoints!Free(du) = {m \in HwPair : m >= used(count)}
    BY <1>10, <2>1, FreePairs
  <2>3. Matchpoints!Free(du) = {} <=> used(count) = 8
    <3>1. used(count) # 8 => used(count) \in HwPair
      BY <2>1 DEF HwPair, Matchpoints!Pair
    <3>2. \A m \in HwPair : m <= 7 /\ m \in Nat
      BY DEF HwPair, Matchpoints!Pair
    <3> QED BY <2>1, <2>2, <3>1, <3>2
  <2> QED BY <2>1, <2>3 DEF Matchpoints!Insert
<1> QED BY <1>5, <1>10, <1>11, <1>12 DEF du, none, Matchpoints!Stays

\* The same for the numbers and addresses of the runs.
LEMMA HwMatchpointsStayHolds == HwMatchpointsStay
<1> SUFFICES ASSUME NEW type \in Matchpoints!MatchType, NEW other \in Matchpoints!MatchType,
                    NEW addr \in 1..2, NEW count \in 0..9, NEW present \in BOOLEAN
             PROVE  Matchpoints!Stays(type, other, addr, count, present)
  BY DEF HwMatchpointsStay, Matchpoints!NeverRemoved
<1>1. count \in Nat
  OBVIOUS
<1> QED BY <1>1, NeverRemovedAtAll

-----------------------------------------------------------------------------
(* The binary write.                                                       *)

\* A write of any length to any memory: it is right exactly if it is one of whole
\* words (rspWriteMemBin).
THEOREM WholeWordsExactly ==
  ASSUME NEW Memory, NEW mem \in [Memory -> Int], NEW addr \in Nat, NEW len \in Nat \ {0},
         addr % 4 = 0, addr + len \in Memory, mem[addr + len] # Junk,
         NEW bindat \in [0..(len - 1) -> Int]
  PROVE  RightIfWholeWords(mem, addr, len, bindat)
<1> DEFINE last == LastBytes(addr, len)
           new == rspWriteMemBin(mem, addr, len, bindat)
           end == endBytes(addr, len)
<1>1. end = len % 4 /\ end \in 0..3 /\ end <= len
  BY DEF endBytes
<1>2. /\ DOMAIN last = (len - end)..(len - 1)
      /\ \A off \in DOMAIN last : last[off] = addr + len - end + off
  BY DEF LastBytes
<1>3. \A a \in Memory : new[a] =
        IF \E off \in DOMAIN last : last[off] = a
        THEN bindat[CHOOSE off \in DOMAIN last : last[off] = a]
        ELSE IF a \in BulkBytes(addr, len)
        THEN IF a - addr < len THEN bindat[a - addr] ELSE Junk
        ELSE mem[a]
  BY DEF rspWriteMemBin
<1>4. DOMAIN new = Memory
  BY DEF rspWriteMemBin
<1>5. CASE len % 4 = 0
  <2>1. DOMAIN last = {}
    BY <1>1, <1>2, <1>5
  <2>2. BulkBytes(addr, len) = addr..(addr + len - 1)
    BY <1>5 DEF BulkBytes
  <2> HIDE DEF last
  <2> QED BY <1>5, <2>1, <2>2 DEF RightIfWholeWords, rspWriteMemBin, Written, last
<1>6. CASE len % 4 # 0
  <2> DEFINE a == addr + len
  <2>1. ~\E off \in DOMAIN last : last[off] = a
    <3> SUFFICES ASSUME NEW off \in DOMAIN last, last[off] = a PROVE FALSE
      OBVIOUS
    <3>1. off \in (len - end)..(len - 1) /\ addr + len - end + off = addr + len
      BY <1>2
    <3>2. off = end
      BY <1>1, <3>1
    <3>3. len - end <= end /\ end <= len - 1
      BY <1>1, <3>1, <3>2
    <3>4. len = 4 * (len \div 4) + end /\ len \div 4 \in Nat
      BY <1>1
    <3> QED BY <1>1, <1>6, <3>3, <3>4
  <2>2. a \in BulkBytes(addr, len)
    BY <1>6 DEF BulkBytes
  <2>3. ~(a - addr < len)
    OBVIOUS
  <2>4. new[a] = Junk
    BY <1>3, <2>1, <2>2, <2>3
  <2>5. Written(mem, addr, len, bindat)[a] = mem[a]
    BY DEF Written
  <2> QED BY <1>6, <2>4, <2>5 DEF RightIfWholeWords
<1> QED BY <1>5, <1>6

\* The writes of the run are among them.
LEMMA BinaryWritesHold == BinaryWrites
<1> SUFFICES ASSUME NEW old \in {100, 101} \ {Junk},
                    NEW addr \in {a \in 0..31 : a % 4 = 0 /\ a + 16 \in 0..31}, NEW len \in 1..8
             PROVE  RightIfWholeWords([a \in 0..31 |-> old], addr, len, [off \in 0..(len - 1) |-> off])
  BY DEF BinaryWrites, WholeWordsOnly
<1> DEFINE Memory == 0..31
           mem == [a \in Memory |-> old]
           bindat == [off \in 0..(len - 1) |-> off]
<1>1. /\ mem \in [Memory -> Int] /\ addr \in Nat /\ len \in Nat \ {0} /\ addr % 4 = 0
      /\ addr + len \in Memory /\ bindat \in [0..(len - 1) -> Int]
  OBVIOUS
<1>2. mem[addr + len] # Junk
  BY <1>1
<1> HIDE DEF mem, bindat, Memory
<1>3. RightIfWholeWords(mem, addr, len, bindat)
  BY <1>1, <1>2, WholeWordsExactly
<1> QED BY <1>3 DEF mem, bindat, Memory

-----------------------------------------------------------------------------
(* The edges of TCK.                                                       *)

\* Run goes on with one edge after the other.
LEMMA RunNext ==
  ASSUME NEW j, NEW N \in Nat
  PROVE  Run(j, 0) = j /\ Run(j, N + 1) = ActionEdge(Run(j, N))
<1> DEFINE Solves(r, m) == r = [k \in 0..m |-> IF k = 0 THEN j ELSE ActionEdge(r[k - 1])]
<1>1. ASSUME NEW M \in Nat PROVE \E r : Solves(r, M)
  <2> DEFINE S == {m \in 0..M : \E r : Solves(r, m)}
  <2>1. 0 \in S
    <3>1. Solves([k \in 0..0 |-> j], 0)
      OBVIOUS
    <3> HIDE DEF Solves
    <3> QED BY <3>1
  <2>2. ASSUME NEW m \in 1..M, m - 1 \in S PROVE m \in S
    <3>1. PICK q : Solves(q, m - 1)
      BY <2>2
    <3> DEFINE r == [k \in 0..m |-> IF k = m THEN ActionEdge(q[m - 1]) ELSE q[k]]
    <3>2. \A k \in 0..m : r[k] = IF k = 0 THEN j ELSE ActionEdge(r[k - 1])
      <4> SUFFICES ASSUME NEW k \in 0..m PROVE r[k] = IF k = 0 THEN j ELSE ActionEdge(r[k - 1])
        OBVIOUS
      <4>1. k \in 0..(m - 1) => q[k] = IF k = 0 THEN j ELSE ActionEdge(q[k - 1])
        BY <3>1
      <4>2. k # 0 => k - 1 \in 0..m /\ k - 1 # m
        OBVIOUS
      <4>3. k # m => k \in 0..(m - 1)
        OBVIOUS
      <4> QED BY <4>1, <4>2, <4>3
    <3>3. Solves(r, m)
      <4>1. r = [k \in 0..m |-> r[k]]
        OBVIOUS
      <4> HIDE DEF r
      <4> QED BY <3>2, <4>1
    <3> HIDE DEF r, Solves
    <3> QED BY <3>3
  <2> HIDE DEF S
  <2>3. M \in S
    BY <2>1, <2>2, UpTo
  <2> QED BY <2>3 DEF S
<1>2. ASSUME NEW q, NEW r, Solves(q, N), Solves(r, N + 1) PROVE q[N] = r[N]
  <2> DEFINE S == {k \in 0..N : q[k] = r[k]}
  <2>1. 0 \in S
    BY <1>2
  <2>2. \A k \in 1..N : k - 1 \in S => k \in S
    BY <1>2
  <2> HIDE DEF S
  <2>3. N \in S
    BY <2>1, <2>2, UpTo
  <2> QED BY <2>3 DEF S
<1>3. ASSUME NEW m \in Nat PROVE \E r : Solves(r, m) /\ Run(j, m) = r[m]
  <2> DEFINE after == CHOOSE after :
                after = [k \in 0..m |-> IF k = 0 THEN j ELSE ActionEdge(after[k - 1])]
  <2>1. after = [k \in 0..m |-> IF k = 0 THEN j ELSE ActionEdge(after[k - 1])]
    BY <1>1
  <2>2. Run(j, m) = after[m]
    BY DEF Run
  <2> HIDE DEF after
  <2>3. Solves(after, m)
    BY <2>1
  <2> QED BY <2>2, <2>3
<1>4. Run(j, 0) = j
  BY <1>3
<1>5. PICK q : Solves(q, N) /\ Run(j, N) = q[N]
  BY <1>3
<1>6. PICK r : Solves(r, N + 1) /\ Run(j, N + 1) = r[N + 1]
  BY <1>3
<1>7. r[N + 1] = ActionEdge(r[N])
  BY <1>6
<1>8. q[N] = r[N]
  BY <1>2, <1>5, <1>6
<1> QED BY <1>4, <1>5, <1>6, <1>7, <1>8

\* So does Idle.
LEMMA IdleNext ==
  ASSUME NEW j, NEW N \in Nat
  PROVE  Idle(j, 0) = j /\ Idle(j, N + 1) = IdleEdge(Idle(j, N))
<1> DEFINE Solves(r, m) == r = [k \in 0..m |-> IF k = 0 THEN j ELSE IdleEdge(r[k - 1])]
<1>1. ASSUME NEW M \in Nat PROVE \E r : Solves(r, M)
  <2> DEFINE S == {m \in 0..M : \E r : Solves(r, m)}
  <2>1. 0 \in S
    <3>1. Solves([k \in 0..0 |-> j], 0)
      OBVIOUS
    <3> HIDE DEF Solves
    <3> QED BY <3>1
  <2>2. ASSUME NEW m \in 1..M, m - 1 \in S PROVE m \in S
    <3>1. PICK q : Solves(q, m - 1)
      BY <2>2
    <3> DEFINE r == [k \in 0..m |-> IF k = m THEN IdleEdge(q[m - 1]) ELSE q[k]]
    <3>2. \A k \in 0..m : r[k] = IF k = 0 THEN j ELSE IdleEdge(r[k - 1])
      <4> SUFFICES ASSUME NEW k \in 0..m PROVE r[k] = IF k = 0 THEN j ELSE IdleEdge(r[k - 1])
        OBVIOUS
      <4>1. k \in 0..(m - 1) => q[k] = IF k = 0 THEN j ELSE IdleEdge(q[k - 1])
        BY <3>1
      <4>2. k # 0 => k - 1 \in 0..m /\ k - 1 # m
        OBVIOUS
      <4>3. k # m => k \in 0..(m - 1)
        OBVIOUS
      <4> QED BY <4>1, <4>2, <4>3
    <3>3. Solves(r, m)
      <4>1. r = [k \in 0..m |-> r[k]]
        OBVIOUS
      <4> HIDE DEF r
      <4> QED BY <3>2, <4>1
    <3> HIDE DEF r, Solves
    <3> QED BY <3>3
  <2> HIDE DEF S
  <2>3. M \in S
    BY <2>1, <2>2, UpTo
  <2> QED BY <2>3 DEF S
<1>2. ASSUME NEW q, NEW r, Solves(q, N), Solves(r, N + 1) PROVE q[N] = r[N]
  <2> DEFINE S == {k \in 0..N : q[k] = r[k]}
  <2>1. 0 \in S
    BY <1>2
  <2>2. \A k \in 1..N : k - 1 \in S => k \in S
    BY <1>2
  <2> HIDE DEF S
  <2>3. N \in S
    BY <2>1, <2>2, UpTo
  <2> QED BY <2>3 DEF S
<1>3. ASSUME NEW m \in Nat PROVE \E r : Solves(r, m) /\ Idle(j, m) = r[m]
  <2> DEFINE after == CHOOSE after :
                after = [k \in 0..m |-> IF k = 0 THEN j ELSE IdleEdge(after[k - 1])]
  <2>1. after = [k \in 0..m |-> IF k = 0 THEN j ELSE IdleEdge(after[k - 1])]
    BY <1>1
  <2>2. Idle(j, m) = after[m]
    BY DEF Idle
  <2> HIDE DEF after
  <2>3. Solves(after, m)
    BY <2>1
  <2> QED BY <2>2, <2>3
<1>4. Idle(j, 0) = j
  BY <1>3
<1>5. PICK q : Solves(q, N) /\ Idle(j, N) = q[N]
  BY <1>3
<1>6. PICK r : Solves(r, N + 1) /\ Idle(j, N + 1) = r[N + 1]
  BY <1>3
<1>7. r[N + 1] = IdleEdge(r[N])
  BY <1>6
<1>8. q[N] = r[N]
  BY <1>2, <1>5, <1>6
<1> QED BY <1>4, <1>5, <1>6, <1>7, <1>8

-----------------------------------------------------------------------------
(* The TAP.                                                                *)

\* The states without a scan and those of a scan of one kind.
LEMMA TapStates ==
  \A s : s \in TapState <=> \/ s \in {TEST_LOGIC_RESET, RUN_TEST_IDLE}
                            \/ \E name \in ScanName, kind \in ScanKind : s = Tap(name, kind)
BY DEF TapState, Tap

\* Where TMS leads to from each of them.
LEMMA TapMoves ==
  ASSUME NEW kind \in ScanKind
  PROVE  /\ mapHigh(TEST_LOGIC_RESET) = TEST_LOGIC_RESET
         /\ mapLow(TEST_LOGIC_RESET) = RUN_TEST_IDLE
         /\ mapHigh(RUN_TEST_IDLE) = Tap("SELECT", "DR")
         /\ mapLow(RUN_TEST_IDLE) = RUN_TEST_IDLE
         /\ mapHigh(Tap("SELECT", "DR")) = Tap("SELECT", "IR")
         /\ mapHigh(Tap("SELECT", "IR")) = TEST_LOGIC_RESET
         /\ mapLow(Tap("SELECT", kind)) = Tap("CAPTURE", kind)
         /\ mapHigh(Tap("CAPTURE", kind)) = Tap("EXIT1", kind)
         /\ mapLow(Tap("CAPTURE", kind)) = Tap("SHIFT", kind)
         /\ mapHigh(Tap("SHIFT", kind)) = Tap("EXIT1", kind)
         /\ mapLow(Tap("SHIFT", kind)) = Tap("SHIFT", kind)
         /\ mapHigh(Tap("EXIT1", kind)) = Tap("UPDATE", kind)
         /\ mapLow(Tap("EXIT1", kind)) = Tap("PAUSE", kind)
         /\ mapHigh(Tap("PAUSE", kind)) = Tap("EXIT2", kind)
         /\ mapLow(Tap("PAUSE", kind)) = Tap("PAUSE", kind)
         /\ mapHigh(Tap("EXIT2", kind)) = Tap("UPDATE", kind)
         /\ mapLow(Tap("EXIT2", kind)) = Tap("SHIFT", kind)
         /\ mapHigh(Tap("UPDATE", kind)) = Tap("SELECT", "DR")
         /\ mapLow(Tap("UPDATE", kind)) = RUN_TEST_IDLE
<1>1. /\ mapHigh(TEST_LOGIC_RESET) = TEST_LOGIC_RESET
      /\ mapLow(TEST_LOGIC_RESET) = RUN_TEST_IDLE
      /\ mapHigh(RUN_TEST_IDLE) = Tap("SELECT", "DR")
      /\ mapLow(RUN_TEST_IDLE) = RUN_TEST_IDLE
  BY DEF mapHigh, mapLow, Tap, TEST_LOGIC_RESET, RUN_TEST_IDLE
<1>2. /\ mapHigh(Tap("SELECT", "DR")) = Tap("SELECT", "IR")
      /\ mapHigh(Tap("SELECT", "IR")) = TEST_LOGIC_RESET
      /\ mapLow(Tap("SELECT", kind)) = Tap("CAPTURE", kind)
      /\ mapHigh(Tap("CAPTURE", kind)) = Tap("EXIT1", kind)
      /\ mapLow(Tap("CAPTURE", kind)) = Tap("SHIFT", kind)
  BY DEF mapHigh, mapLow, Tap, TEST_LOGIC_RESET, RUN_TEST_IDLE, ScanKind
<1>3. /\ mapHigh(Tap("SHIFT", kind)) = Tap("EXIT1", kind)
      /\ mapLow(Tap("SHIFT", kind)) = Tap("SHIFT", kind)
      /\ mapHigh(Tap("EXIT1", kind)) = Tap("UPDATE", kind)
      /\ mapLow(Tap("EXIT1", kind)) = Tap("PAUSE", kind)
      /\ mapHigh(Tap("PAUSE", kind)) = Tap("EXIT2", kind)
      /\ mapLow(Tap("PAUSE", kind)) = Tap("PAUSE", kind)
  BY DEF mapHigh, mapLow, Tap, TEST_LOGIC_RESET, RUN_TEST_IDLE, ScanKind
<1>4. /\ mapHigh(Tap("EXIT2", kind)) = Tap("UPDATE", kind)
      /\ mapLow(Tap("EXIT2", kind)) = Tap("SHIFT", kind)
      /\ mapHigh(Tap("UPDATE", kind)) = Tap("SELECT", "DR")
      /\ mapLow(Tap("UPDATE", kind)) = RUN_TEST_IDLE
  BY DEF mapHigh, mapLow, Tap, TEST_LOGIC_RESET, RUN_TEST_IDLE, ScanKind
<1> QED BY <1>1, <1>2, <1>3, <1>4

LEMMA MovesType ==
  \A s \in TapState, tms \in BOOLEAN : nextState(s, tms) \in TapState
<1>1. \A name \in ScanName, kind \in ScanKind : Tap(name, kind) \in TapState
  BY DEF TapState, Tap
<1>2. TEST_LOGIC_RESET \in TapState /\ RUN_TEST_IDLE \in TapState
  BY DEF TapState
<1> SUFFICES ASSUME NEW s \in TapState PROVE mapHigh(s) \in TapState /\ mapLow(s) \in TapState
  BY DEF nextState
<1>3. CASE s \in {TEST_LOGIC_RESET, RUN_TEST_IDLE}
  BY <1>1, <1>2, <1>3, TapMoves DEF ScanName, ScanKind
<1>4. ASSUME NEW name \in ScanName, NEW kind \in ScanKind, s = Tap(name, kind)
      PROVE  mapHigh(s) \in TapState /\ mapLow(s) \in TapState
  BY <1>1, <1>2, <1>4, TapMoves DEF ScanName, ScanKind
<1> QED BY <1>3, <1>4, TapStates

\* How many edges with a high TMS a state is from Test-Logic-Reset.
ToReset(s) ==
  CASE s = TEST_LOGIC_RESET                -> 0
    [] s = Tap("SELECT", "IR")             -> 1
    [] s = Tap("SELECT", "DR")             -> 2
    [] s[1] \in {"RUN_TEST_IDLE", "UPDATE"} -> 3
    [] s[1] \in {"EXIT1", "EXIT2"}         -> 4
    [] OTHER                               -> 5

LEMMA ToResetFalls ==
  ASSUME NEW s \in TapState
  PROVE  /\ ToReset(s) \in 0..5 /\ mapHigh(s) \in TapState
         /\ ToReset(s) = 0 => s = TEST_LOGIC_RESET
         /\ ToReset(s) <= 1 => mapHigh(s) = TEST_LOGIC_RESET
         /\ ToReset(mapHigh(s)) = IF ToReset(s) = 0 THEN 0 ELSE ToReset(s) - 1
<1>1. mapHigh(s) \in TapState
  BY MovesType DEF nextState
<1>2. CASE s \in {TEST_LOGIC_RESET, RUN_TEST_IDLE}
  BY <1>1, <1>2 DEF ToReset, mapHigh, Tap, TEST_LOGIC_RESET, RUN_TEST_IDLE
<1>3. ASSUME NEW name \in ScanName, NEW kind \in ScanKind, s = Tap(name, kind)
      PROVE  /\ ToReset(s) \in 0..5 /\ ToReset(s) # 0
             /\ ToReset(s) <= 1 => mapHigh(s) = TEST_LOGIC_RESET
             /\ ToReset(mapHigh(s)) = ToReset(s) - 1
  BY <1>3 DEF ToReset, mapHigh, Tap, TEST_LOGIC_RESET, RUN_TEST_IDLE, ScanName, ScanKind
<1> QED BY <1>1, <1>2, <1>3, TapStates

-----------------------------------------------------------------------------
(* The map of targetState.                                                 *)

\* How many edges it is at least from a state to Run-Test/Idle.
ToIdle(s) ==
  CASE s = RUN_TEST_IDLE                                      -> 0
    [] s = TEST_LOGIC_RESET \/ s[1] = "UPDATE"                -> 1
    [] s = Tap("SELECT", "IR") \/ s[1] \in {"EXIT1", "EXIT2"} -> 2
    [] OTHER                                                  -> 3

\* To the state in which a scan begins.
ToSelectDR(s) ==
  CASE s = Tap("SELECT", "DR")                               -> 0
    [] s[1] \in {"RUN_TEST_IDLE", "UPDATE"}                  -> 1
    [] s = TEST_LOGIC_RESET \/ s[1] \in {"EXIT1", "EXIT2"}   -> 2
    [] OTHER                                                 -> 3

ToSelect(s, kind) ==
  IF s = Tap("SELECT", kind) THEN 0 ELSE ToSelectDR(s) + IF kind = "DR" THEN 0 ELSE 1

\* From one state of a scan to another of the same scan; Never without another scan.
Never == 20
Along(from, to) ==
  CASE from = to -> 0
    [] from = "SELECT" /\ to = "CAPTURE" -> 1
    [] from = "SELECT" /\ to \in {"SHIFT", "EXIT1"} -> 2
    [] from = "SELECT" /\ to \in {"PAUSE", "UPDATE"} -> 3
    [] from = "SELECT" /\ to = "EXIT2" -> 4
    [] from = "CAPTURE" /\ to \in {"SHIFT", "EXIT1"} -> 1
    [] from = "SHIFT" /\ to = "EXIT1" -> 1
    [] from \in {"CAPTURE", "SHIFT"} /\ to \in {"PAUSE", "UPDATE"} -> 2
    [] from \in {"CAPTURE", "SHIFT"} /\ to = "EXIT2" -> 3
    [] from = "EXIT1" /\ to = "PAUSE" -> 1
    [] from = "EXIT1" /\ to = "EXIT2" -> 2
    [] from = "EXIT1" /\ to = "SHIFT" -> 3
    [] from = "PAUSE" /\ to = "EXIT2" -> 1
    [] from = "PAUSE" /\ to \in {"SHIFT", "UPDATE"} -> 2
    [] from = "PAUSE" /\ to = "EXIT1" -> 3
    [] from = "EXIT2" /\ to = "SHIFT" -> 1
    [] from = "EXIT2" /\ to = "EXIT1" -> 2
    [] from = "EXIT2" /\ to = "PAUSE" -> 3
    [] from \in {"EXIT1", "EXIT2"} /\ to = "UPDATE" -> 1
    [] OTHER -> Never

Distance(s, t) ==
  IF t = TEST_LOGIC_RESET THEN ToReset(s)
  ELSE IF t = RUN_TEST_IDLE THEN ToIdle(s)
  ELSE IF s[2] = t[2] /\ Along(s[1], t[1]) # Never THEN Along(s[1], t[1])
  ELSE ToSelect(s, t[2]) + Along("SELECT", t[1])

\* The map takes a shortest way.
Shortest(s, t) ==
  /\ Distance(s, t) \in 0..15
  /\ Distance(s, t) = 0 <=> s = t
  /\ s # t => Distance(nextState(s, targetState(s, t)), t) = Distance(s, t) - 1
  /\ Distance(s, t) <= Distance(mapHigh(s), t) + 1
  /\ Distance(s, t) <= Distance(mapLow(s), t) + 1

LEMMA ToResetRises ==
  ASSUME NEW s \in TapState PROVE ToReset(s) <= ToReset(mapLow(s)) + 1
<1>1. CASE s \in {TEST_LOGIC_RESET, RUN_TEST_IDLE}
  BY <1>1 DEF ToReset, mapLow, Tap, TEST_LOGIC_RESET, RUN_TEST_IDLE
<1>2. ASSUME NEW name \in ScanName, NEW kind \in ScanKind, s = Tap(name, kind)
      PROVE  ToReset(s) <= ToReset(mapLow(s)) + 1
  BY <1>2 DEF ToReset, mapLow, Tap, TEST_LOGIC_RESET, RUN_TEST_IDLE, ScanName, ScanKind
<1> QED BY <1>1, <1>2, TapStates

LEMMA ShortestToReset ==
  ASSUME NEW s \in TapState PROVE Shortest(s, TEST_LOGIC_RESET)
<1>1. targetState(s, TEST_LOGIC_RESET)
  <2>1. CASE s = TEST_LOGIC_RESET
    BY <2>1 DEF targetState, LowFor, TEST_LOGIC_RESET, Tap
  <2>2. CASE s = RUN_TEST_IDLE
    BY <2>2 DEF targetState, LowFor, TEST_LOGIC_RESET, RUN_TEST_IDLE, Tap
  <2>3. ASSUME NEW name \in ScanName, NEW kind \in ScanKind, s = Tap(name, kind)
        PROVE  targetState(s, TEST_LOGIC_RESET)
    BY <2>3 DEF targetState, LowFor, Tap, TEST_LOGIC_RESET, RUN_TEST_IDLE, ScanKind, ScanName
  <2> QED BY <2>1, <2>2, <2>3, TapStates
<1>2. \A x : Distance(x, TEST_LOGIC_RESET) = ToReset(x)
  BY DEF Distance
<1>3. nextState(s, targetState(s, TEST_LOGIC_RESET)) = mapHigh(s)
  BY <1>1 DEF nextState
<1>4. ToReset(TEST_LOGIC_RESET) = 0
  BY DEF ToReset, TEST_LOGIC_RESET, Tap
<1> QED BY <1>2, <1>3, <1>4, ToResetFalls, ToResetRises DEF Shortest

\* TMS is low only where that is the way to Run-Test/Idle.
LEMMA ToIdleFalls ==
  ASSUME NEW s \in TapState
  PROVE  /\ ToIdle(s) \in 0..3 /\ (ToIdle(s) = 0 <=> s = RUN_TEST_IDLE)
         /\ ToIdle(s) = 1 => ToIdle(mapLow(s)) = 0 /\ ~targetState(s, RUN_TEST_IDLE)
         /\ ToIdle(s) > 1 => ToIdle(mapHigh(s)) = ToIdle(s) - 1 /\ targetState(s, RUN_TEST_IDLE)
         /\ ToIdle(s) <= ToIdle(mapHigh(s)) + 1 /\ ToIdle(s) <= ToIdle(mapLow(s)) + 1
<1>1. CASE s = RUN_TEST_IDLE
  BY <1>1 DEF ToIdle, mapHigh, mapLow, Tap, RUN_TEST_IDLE, TEST_LOGIC_RESET
<1>2. CASE s = TEST_LOGIC_RESET
  <2>1. ToIdle(s) = 1 /\ ToIdle(mapLow(s)) = 0 /\ ToIdle(mapHigh(s)) = 1
    BY <1>2 DEF ToIdle, mapHigh, mapLow, Tap, RUN_TEST_IDLE, TEST_LOGIC_RESET
  <2>2. ~targetState(s, RUN_TEST_IDLE) /\ s # RUN_TEST_IDLE
    BY <1>2 DEF targetState, LowFor, TapState, RUN_TEST_IDLE, TEST_LOGIC_RESET, Tap
  <2> QED BY <2>1, <2>2
<1>3. ASSUME NEW name \in ScanName, NEW kind \in ScanKind, s = Tap(name, kind)
      PROVE  /\ ToIdle(s) \in 1..3
             /\ ToIdle(s) = 1 => ToIdle(mapLow(s)) = 0 /\ ~targetState(s, RUN_TEST_IDLE)
             /\ ToIdle(s) > 1 => ToIdle(mapHigh(s)) = ToIdle(s) - 1 /\ targetState(s, RUN_TEST_IDLE)
             /\ ToIdle(s) <= ToIdle(mapHigh(s)) + 1 /\ ToIdle(s) <= ToIdle(mapLow(s)) + 1
             /\ s # RUN_TEST_IDLE
  <2>1. /\ ToIdle(s) \in 1..3 /\ s # RUN_TEST_IDLE
        /\ ToIdle(s) = 1 => ToIdle(mapLow(s)) = 0
        /\ ToIdle(s) > 1 => ToIdle(mapHigh(s)) = ToIdle(s) - 1
        /\ ToIdle(s) <= ToIdle(mapHigh(s)) + 1 /\ ToIdle(s) <= ToIdle(mapLow(s)) + 1
    BY <1>3 DEF ToIdle, mapHigh, mapLow, Tap, TEST_LOGIC_RESET, RUN_TEST_IDLE, ScanName, ScanKind
  <2>2. targetState(s, RUN_TEST_IDLE) <=> name # "UPDATE"
    BY <1>3 DEF targetState, LowFor, Tap, TEST_LOGIC_RESET, RUN_TEST_IDLE, ScanKind, ScanName
  <2>3. ToIdle(s) = 1 <=> name = "UPDATE"
    BY <1>3 DEF ToIdle, Tap, TEST_LOGIC_RESET, RUN_TEST_IDLE, ScanName, ScanKind
  <2> QED BY <2>1, <2>2, <2>3
<1> QED BY <1>1, <1>2, <1>3, TapStates

LEMMA ShortestToIdle ==
  ASSUME NEW s \in TapState PROVE Shortest(s, RUN_TEST_IDLE)
<1>1. \A x : Distance(x, RUN_TEST_IDLE) = ToIdle(x)
  BY DEF Distance, TEST_LOGIC_RESET, RUN_TEST_IDLE, Tap
<1>2. CASE ToIdle(s) \in {0, 1}
  <2>1. s # RUN_TEST_IDLE => nextState(s, targetState(s, RUN_TEST_IDLE)) = mapLow(s)
    BY <1>2, ToIdleFalls DEF nextState
  <2> QED BY <1>1, <1>2, <2>1, ToIdleFalls DEF Shortest
<1>3. CASE ToIdle(s) > 1
  <2>1. nextState(s, targetState(s, RUN_TEST_IDLE)) = mapHigh(s)
    BY <1>3, ToIdleFalls DEF nextState
  <2> QED BY <1>1, <1>3, <2>1, ToIdleFalls DEF Shortest
<1> QED BY <1>2, <1>3, ToIdleFalls

LEMMA ShortestIntoScan ==
  ASSUME NEW s \in {TEST_LOGIC_RESET, RUN_TEST_IDLE}, NEW to \in ScanName, NEW kind \in ScanKind
  PROVE  Shortest(s, Tap(to, kind))
<1>1. CASE s = TEST_LOGIC_RESET /\ kind = "DR"
  BY <1>1 DEF Shortest, Distance, ToSelect, ToSelectDR, Along, Never, nextState, targetState, LowFor,
       mapHigh, mapLow, Tap, TEST_LOGIC_RESET, RUN_TEST_IDLE, TapState, ScanName
<1>2. CASE s = TEST_LOGIC_RESET /\ kind = "IR"
  BY <1>2 DEF Shortest, Distance, ToSelect, ToSelectDR, Along, Never, nextState, targetState, LowFor,
       mapHigh, mapLow, Tap, TEST_LOGIC_RESET, RUN_TEST_IDLE, TapState, ScanName
<1>3. CASE s = RUN_TEST_IDLE /\ kind = "DR"
  BY <1>3 DEF Shortest, Distance, ToSelect, ToSelectDR, Along, Never, nextState, targetState, LowFor,
       mapHigh, mapLow, Tap, TEST_LOGIC_RESET, RUN_TEST_IDLE, TapState, ScanName
<1>4. CASE s = RUN_TEST_IDLE /\ kind = "IR"
  BY <1>4 DEF Shortest, Distance, ToSelect, ToSelectDR, Along, Never, nextState, targetState, LowFor,
       mapHigh, mapLow, Tap, TEST_LOGIC_RESET, RUN_TEST_IDLE, TapState, ScanName
<1> QED BY <1>1, <1>2, <1>3, <1>4 DEF ScanKind

LEMMA ShortestAlong ==
  ASSUME NEW from \in ScanName, NEW to \in ScanName, NEW kind \in ScanKind
  PROVE  Shortest(Tap(from, kind), Tap(to, kind))
<1>1. kind \in {"DR", "IR"}
  BY DEF ScanKind
<1>2. CASE from = "SELECT" /\ kind = "DR"
  BY <1>1, <1>2 DEF Shortest, Distance, ToSelect, ToSelectDR, Along, Never, nextState, targetState, LowFor,
       mapHigh, mapLow, Tap, TEST_LOGIC_RESET, RUN_TEST_IDLE, ScanName
<1>9. CASE from = "SELECT" /\ kind = "IR"
  BY <1>1, <1>9 DEF Shortest, Distance, ToSelect, ToSelectDR, Along, Never, nextState, targetState, LowFor,
       mapHigh, mapLow, Tap, TEST_LOGIC_RESET, RUN_TEST_IDLE, ScanName
<1>3. CASE from = "CAPTURE"
  BY <1>1, <1>3 DEF Shortest, Distance, ToSelect, ToSelectDR, Along, Never, nextState, targetState, LowFor,
       mapHigh, mapLow, Tap, TEST_LOGIC_RESET, RUN_TEST_IDLE, ScanName
<1>4. CASE from = "SHIFT"
  BY <1>1, <1>4 DEF Shortest, Distance, ToSelect, ToSelectDR, Along, Never, nextState, targetState, LowFor,
       mapHigh, mapLow, Tap, TEST_LOGIC_RESET, RUN_TEST_IDLE, ScanName
<1>5. CASE from = "EXIT1"
  BY <1>1, <1>5 DEF Shortest, Distance, ToSelect, ToSelectDR, Along, Never, nextState, targetState, LowFor,
       mapHigh, mapLow, Tap, TEST_LOGIC_RESET, RUN_TEST_IDLE, ScanName
<1>6. CASE from = "PAUSE"
  BY <1>1, <1>6 DEF Shortest, Distance, ToSelect, ToSelectDR, Along, Never, nextState, targetState, LowFor,
       mapHigh, mapLow, Tap, TEST_LOGIC_RESET, RUN_TEST_IDLE, ScanName
<1>7. CASE from = "EXIT2"
  BY <1>1, <1>7 DEF Shortest, Distance, ToSelect, ToSelectDR, Along, Never, nextState, targetState, LowFor,
       mapHigh, mapLow, Tap, TEST_LOGIC_RESET, RUN_TEST_IDLE, ScanName
<1>8. CASE from = "UPDATE"
  BY <1>1, <1>8 DEF Shortest, Distance, ToSelect, ToSelectDR, Along, Never, nextState, targetState, LowFor,
       mapHigh, mapLow, Tap, TEST_LOGIC_RESET, RUN_TEST_IDLE, ScanName
<1> QED BY <1>1, <1>2, <1>3, <1>4, <1>5, <1>6, <1>7, <1>8, <1>9 DEF ScanName

\* From one scan to the other kind of scan the way is that to its Select.
LEMMA ToSelectFalls ==
  ASSUME NEW from \in ScanName, NEW kind \in ScanKind, NEW other \in ScanKind, kind # other,
         NEW s, s = Tap(from, other)
  PROVE  /\ ToSelect(s, kind) \in 1..4
         /\ targetState(s, Tap("SELECT", kind))
         /\ ToSelect(mapHigh(s), kind) = ToSelect(s, kind) - 1
         /\ ToSelect(s, kind) <= ToSelect(mapLow(s), kind) + 1
<1>1. CASE kind = "DR" /\ other = "IR"
  <2>1. /\ ToSelect(s, kind) \in 1..4
        /\ ToSelect(mapHigh(s), kind) = ToSelect(s, kind) - 1
        /\ ToSelect(s, kind) <= ToSelect(mapLow(s), kind) + 1
    BY <1>1 DEF ToSelect, ToSelectDR, mapHigh, mapLow, Tap, TEST_LOGIC_RESET, RUN_TEST_IDLE, ScanName
  <2>2. targetState(s, Tap("SELECT", kind))
    BY <1>1 DEF targetState, LowFor, Tap, TEST_LOGIC_RESET, RUN_TEST_IDLE, ScanName
  <2> QED BY <2>1, <2>2
<1>2. CASE kind = "IR" /\ other = "DR"
  <2>1. /\ ToSelect(s, kind) \in 1..4
        /\ ToSelect(mapHigh(s), kind) = ToSelect(s, kind) - 1
        /\ ToSelect(s, kind) <= ToSelect(mapLow(s), kind) + 1
    BY <1>2 DEF ToSelect, ToSelectDR, mapHigh, mapLow, Tap, TEST_LOGIC_RESET, RUN_TEST_IDLE, ScanName
  <2>2. targetState(s, Tap("SELECT", kind))
    BY <1>2 DEF targetState, LowFor, Tap, TEST_LOGIC_RESET, RUN_TEST_IDLE, ScanName
  <2> QED BY <2>1, <2>2
<1> QED BY <1>1, <1>2 DEF ScanKind

LEMMA DistanceAcross ==
  ASSUME NEW to \in ScanName, NEW kind \in ScanKind, NEW s,
         s[2] # kind \/ s = Tap("SELECT", kind)
  PROVE  /\ Along("SELECT", to) \in 0..4
         /\ Distance(s, Tap(to, kind)) = ToSelect(s, kind) + Along("SELECT", to)
<1> DEFINE t == Tap(to, kind)
           A == Along("SELECT", to)
<1>1. A \in 0..4 /\ A # Never
  BY DEF Along, ScanName, Never
<1>2. t # TEST_LOGIC_RESET /\ t # RUN_TEST_IDLE /\ t[1] = to /\ t[2] = kind
  BY DEF Tap, TEST_LOGIC_RESET, RUN_TEST_IDLE, ScanName
<1>3. s = Tap("SELECT", kind) => s[1] = "SELECT" /\ s[2] = kind /\ ToSelect(s, kind) = 0
  BY DEF ToSelect, Tap
<1> HIDE DEF t, A
<1>4. Distance(s, t) = ToSelect(s, kind) + A
  <2>1. CASE s[2] # kind
    BY <1>1, <1>2, <2>1 DEF Distance, A
  <2>2. CASE s = Tap("SELECT", kind)
    BY <1>1, <1>2, <1>3, <2>2 DEF Distance, A
  <2> QED BY <2>1, <2>2
<1> QED BY <1>1, <1>4 DEF t, A

LEMMA ShortestAcross ==
  ASSUME NEW from \in ScanName, NEW to \in ScanName, NEW kind \in ScanKind, NEW other \in ScanKind,
         kind # other
  PROVE  Shortest(Tap(from, other), Tap(to, kind))
<1> DEFINE s == Tap(from, other)
           t == Tap(to, kind)
           A == Along("SELECT", to)
<1>1. /\ ToSelect(s, kind) \in 1..4
      /\ ToSelect(mapHigh(s), kind) = ToSelect(s, kind) - 1
      /\ ToSelect(s, kind) <= ToSelect(mapLow(s), kind) + 1
  BY ToSelectFalls
<1>2. targetState(s, t)
  BY DEF targetState, LowFor, Tap, TEST_LOGIC_RESET, RUN_TEST_IDLE, ScanName, ScanKind
<1>3. s[2] # kind /\ mapLow(s)[2] # kind /\ (mapHigh(s)[2] # kind \/ mapHigh(s) = Tap("SELECT", kind))
  BY DEF mapLow, mapHigh, Tap, TEST_LOGIC_RESET, RUN_TEST_IDLE, ScanName, ScanKind
<1>4. s # t
  BY DEF Tap
<1> HIDE DEF s
<1>5. /\ A \in 0..4
      /\ Distance(s, t) = ToSelect(s, kind) + A
      /\ Distance(mapHigh(s), t) = ToSelect(mapHigh(s), kind) + A
      /\ Distance(mapLow(s), t) = ToSelect(mapLow(s), kind) + A
  BY <1>3, DistanceAcross
<1>6. nextState(s, targetState(s, t)) = mapHigh(s)
  BY <1>2 DEF nextState
<1> HIDE DEF t, A
<1>7. ToSelect(mapLow(s), kind) \in Nat
  BY DEF ToSelect, ToSelectDR
<1>8. Shortest(s, t)
  BY <1>1, <1>4, <1>5, <1>6, <1>7 DEF Shortest
<1> QED BY <1>8 DEF s, t

\* All together.
LEMMA MapShortest ==
  ASSUME NEW s \in TapState, NEW t \in TapState PROVE Shortest(s, t)
<1>1. CASE t = TEST_LOGIC_RESET
  BY <1>1, ShortestToReset
<1>2. CASE t = RUN_TEST_IDLE
  BY <1>2, ShortestToIdle
<1>3. ASSUME NEW to \in ScanName, NEW kind \in ScanKind, t = Tap(to, kind) PROVE Shortest(s, t)
  <2>1. CASE s \in {TEST_LOGIC_RESET, RUN_TEST_IDLE}
    BY <1>3, <2>1, ShortestIntoScan
  <2>2. ASSUME NEW from \in ScanName, NEW other \in ScanKind, s = Tap(from, other) PROVE Shortest(s, t)
    <3>1. CASE other = kind
      BY <1>3, <2>2, <3>1, ShortestAlong
    <3>2. CASE other # kind
      BY <1>3, <2>2, <3>2, ShortestAcross
    <3> QED BY <3>1, <3>2
  <2> QED BY <2>1, <2>2, TapStates
<1> QED BY <1>1, <1>2, <1>3, TapStates

\* So the map needs as many edges as it is at least.
LEMMA StepsAreDistance ==
  ASSUME NEW s \in TapState, NEW t \in TapState
  PROVE  Steps(s, t) = Distance(s, t) /\ Distance(s, t) \in 0..15
<1> DEFINE step(x) == IF x = t THEN t ELSE nextState(x, targetState(x, t))
           F == [x \in TapState \X (1..TooFar) |-> step(x[1])]
           walk == CHOOSE walk : walk = [n \in 0..TooFar |->
                     IF n = 0 THEN s ELSE LET at == walk[n - 1] IN
                       IF at = t THEN t ELSE nextState(at, targetState(at, t))]
           d == Distance(s, t)
           S == {n \in 0..TooFar : /\ walk[n] \in TapState
                                 /\ Distance(walk[n], t) = IF n <= d THEN d - n ELSE 0}
<1>1. \A x \in TapState : step(x) \in TapState
  BY MovesType DEF targetState
<1>2. TooFar \in Nat
  BY DEF TooFar
<1>3. PICK r \in [0..TooFar -> TapState] : r[0] = s /\ \A n \in 1..TooFar : r[n] = step(r[n - 1])
  <2>1. StepOn(F, TapState, TooFar)
    <3>1. F \in [TapState \X (1..TooFar) -> TapState]
      <4> HIDE DEF step
      <4> QED BY <1>1
    <3> QED BY <3>1 DEF StepOn
  <2> HIDE DEF F
  <2>2. PICK r : RunOf(r, F, s, TapState, TooFar)
    BY <1>2, <2>1, Iterates
  <2>3. r \in [0..TooFar -> TapState] /\ r[0] = s /\ \A n \in 1..TooFar : r[n] = F[<<r[n - 1], n>>]
    BY <2>2 DEF RunOf
  <2>4. ASSUME NEW n \in 1..TooFar PROVE r[n] = step(r[n - 1])
    <3>1. r[n - 1] \in TapState
      BY <1>2, <2>3
    <3> HIDE DEF step
    <3>2. F[<<r[n - 1], n>>] = step(r[n - 1])
      BY <3>1 DEF F
    <3> QED BY <2>3, <3>2
  <2> QED BY <2>3, <2>4
<1>4. walk = [n \in 0..TooFar |-> IF n = 0 THEN s ELSE step(walk[n - 1])]
  <2>1. r = [n \in 0..TooFar |-> IF n = 0 THEN s ELSE step(r[n - 1])]
    <3> HIDE DEF step
    <3> QED BY <1>2, <1>3
  <2> QED BY <2>1
<1>5. Steps(s, t) = LET arrived == {n \in 0..TooFar : walk[n] = t} IN
        IF arrived = {} THEN TooFar ELSE CHOOSE n \in arrived : \A m \in arrived : n <= m
  BY DEF Steps
<1> HIDE DEF walk
<1>6. walk[0] = s /\ \A n \in 1..TooFar : walk[n] = step(walk[n - 1])
  <2> HIDE DEF step
  <2> QED BY <1>2, <1>4
<1>7. d \in 0..15
  BY MapShortest DEF Shortest
<1> HIDE DEF d
<1>8. 0 \in S
  BY <1>2, <1>6, <1>7 DEF d
<1>9. ASSUME NEW n \in 1..TooFar, n - 1 \in S PROVE n \in S
  <2> DEFINE at == walk[n - 1]
  <2>1. at \in TapState /\ Distance(at, t) = IF n - 1 <= d THEN d - (n - 1) ELSE 0
    BY <1>9
  <2>2. walk[n] = step(at)
    BY <1>6
  <2> HIDE DEF at
  <2>3. /\ Distance(at, t) \in 0..15 /\ (Distance(at, t) = 0 <=> at = t)
        /\ at # t => Distance(nextState(at, targetState(at, t)), t) = Distance(at, t) - 1
    BY <2>1, MapShortest DEF Shortest
  <2>4. step(at) \in TapState
    BY <1>1, <2>1
  <2>5. Distance(step(at), t) = IF n <= d THEN d - n ELSE 0
    <3>1. CASE at = t
      BY <1>2, <1>7, <2>1, <2>3, <3>1
    <3>2. CASE at # t
      BY <1>2, <1>7, <2>1, <2>3, <3>2
    <3> QED BY <3>1, <3>2
  <2> HIDE DEF step
  <2> QED BY <2>2, <2>4, <2>5
<1>10. \A n \in 0..TooFar : n \in S
  <2> HIDE DEF S
  <2>1. \A n \in 1..TooFar : n - 1 \in S => n \in S
    BY <1>9
  <2> QED BY <1>2, <1>8, <2>1, UpTo
<1> DEFINE arrived == {n \in 0..TooFar : walk[n] = t}
<1>11. \A n \in 0..TooFar : walk[n] = t <=> n >= d
  <2> SUFFICES ASSUME NEW n \in 0..TooFar PROVE walk[n] = t <=> n >= d
    OBVIOUS
  <2>1. walk[n] \in TapState /\ Distance(walk[n], t) = IF n <= d THEN d - n ELSE 0
    BY <1>10
  <2>2. Distance(walk[n], t) = 0 <=> walk[n] = t
    BY <2>1, MapShortest DEF Shortest
  <2> QED BY <1>2, <1>7, <2>1, <2>2
<1>12. d \in arrived /\ (\A m \in arrived : d <= m) /\ arrived \subseteq Nat
  BY <1>7, <1>11 DEF TooFar
<1> HIDE DEF arrived
<1>13. (CHOOSE n \in arrived : \A m \in arrived : n <= m) = d
  <2> DEFINE c == CHOOSE n \in arrived : \A m \in arrived : n <= m
  <2>1. c \in arrived /\ \A m \in arrived : c <= m
    BY <1>12
  <2> HIDE DEF c
  <2>2. c = d
    BY <1>12, <2>1
  <2> QED BY <2>2 DEF c
<1>14. Steps(s, t) = d
  BY <1>5, <1>12, <1>13 DEF arrived
<1> QED BY <1>7, <1>14 DEF d

\* The table that chooses TMS leads from every state of the TAP to every other, by a
\* shortest way (TapStateMachine::targetState).
THEOREM TapMapOptimalHolds == TapMapOptimal
<1> SUFFICES ASSUME NEW s \in TapState, NEW t \in TapState, s # t, NEW tms \in BOOLEAN
             PROVE  Steps(s, t) < TooFar /\ Steps(s, t) <= Steps(nextState(s, tms), t) + 1
  BY DEF TapMapOptimal
<1>1. nextState(s, tms) \in TapState
  BY MovesType
<1>2. /\ Steps(s, t) = Distance(s, t) /\ Distance(s, t) \in 0..15
      /\ Steps(nextState(s, tms), t) = Distance(nextState(s, tms), t)
      /\ Distance(nextState(s, tms), t) \in 0..15
  BY <1>1, StepsAreDistance
<1>3. Distance(s, t) <= Distance(nextState(s, tms), t) + 1
  BY MapShortest DEF Shortest, nextState
<1> QED BY <1>2, <1>3 DEF TooFar

-----------------------------------------------------------------------------
(* JtagSC and the target.                                                  *)

SomeBits == Seq(BOOLEAN) \ {<<>>}

JtagState ==
  [sw : TapState, hw : TapState, tms : BOOLEAN, tdi : BOOLEAN, reg : SomeBits,
   captured : SomeBits, used : Seq(BOOLEAN), resetCounter : Nat, kind : ScanKind \cup {"reset"},
   in : Seq(BOOLEAN), out : Seq(BOOLEAN), shifted : Nat, done : BOOLEAN]

\* What an edge of TCK does to the target.
TargetMoves(j, e) ==
  /\ e.hw = nextState(j.hw, j.tms)
  /\ e.reg = CASE j.hw[1] = "CAPTURE" -> j.captured
               [] j.hw[1] = "SHIFT"   -> Append(Tail(j.reg), j.tdi)
               [] OTHER               -> j.reg
  /\ e.used = IF j.hw[1] = "UPDATE" THEN j.reg ELSE j.used
  /\ e.captured = j.captured

\* The signals and the action stay.
ScanWaits(j, e) ==
  /\ e.tdi = j.tdi /\ e.kind = j.kind /\ e.in = j.in /\ e.out = j.out /\ e.shifted = j.shifted
  /\ e.done = j.done /\ e.resetCounter = j.resetCounter

LEMMA TargetEdgeIs ==
  ASSUME NEW j \in JtagState
  PROVE  /\ TargetEdge(j) \in JtagState /\ TargetMoves(j, TargetEdge(j))
         /\ ScanWaits(j, TargetEdge(j))
         /\ TargetEdge(j).sw = j.sw /\ TargetEdge(j).tms = j.tms
<1> DEFINE hw == nextState(j.hw, j.tms)
           reg == CASE j.hw[1] = "CAPTURE" -> j.captured
                    [] j.hw[1] = "SHIFT"   -> Append(Tail(j.reg), j.tdi)
                    [] OTHER               -> j.reg
           used == IF j.hw[1] = "UPDATE" THEN j.reg ELSE j.used
           e == [j EXCEPT !.hw = hw, !.reg = reg, !.used = used]
<1>1. TargetEdge(j) = e
  BY DEF TargetEdge, JtagState
<1>2. /\ j.hw \in TapState /\ j.tms \in BOOLEAN /\ j.reg \in SomeBits /\ j.captured \in SomeBits
      /\ j.used \in Seq(BOOLEAN) /\ j.tdi \in BOOLEAN
  BY DEF JtagState
<1>3. hw \in TapState
  BY <1>2, MovesType
<1>4. reg \in SomeBits
  <2>1. Append(Tail(j.reg), j.tdi) \in SomeBits
    <3>1. j.reg \in Seq(BOOLEAN) /\ j.reg # <<>>
      BY <1>2 DEF SomeBits
    <3>2. Tail(j.reg) \in Seq(BOOLEAN)
      BY <3>1, HeadTailProperties
    <3> QED BY <1>2, <3>2, AppendProperties DEF SomeBits
  <2> QED BY <1>2, <2>1
<1>5. used \in Seq(BOOLEAN)
  BY <1>2 DEF SomeBits
<1> HIDE DEF hw, reg, used
<1>6. e \in JtagState
  BY <1>3, <1>4, <1>5, Zenon DEF JtagState
<1>7. /\ e.hw = hw /\ e.reg = reg /\ e.used = used /\ e.captured = j.captured
      /\ e.sw = j.sw /\ e.tms = j.tms
  BY DEF JtagState
<1>8. ScanWaits(j, e)
  BY DEF JtagState, ScanWaits
<1> HIDE DEF e
<1>9. TargetMoves(j, e)
  BY <1>7 DEF TargetMoves, hw, reg, used
<1> QED BY <1>1, <1>6, <1>7, <1>8, <1>9

LEMMA DriveIs ==
  ASSUME NEW j \in JtagState, NEW tms \in BOOLEAN
  PROVE  /\ Drive(j, tms) \in JtagState /\ TargetMoves(j, Drive(j, tms))
         /\ ScanWaits(j, Drive(j, tms))
         /\ Drive(j, tms).sw = nextState(j.sw, tms) /\ Drive(j, tms).tms = tms
<1> DEFINE t == TargetEdge(j)
           sw == nextState(j.sw, tms)
           e == [t EXCEPT !.tms = tms, !.sw = sw]
<1>1. Drive(j, tms) = e
  BY DEF Drive
<1>2. sw \in TapState
  BY MovesType DEF JtagState
<1>3. t \in JtagState /\ TargetMoves(j, t) /\ ScanWaits(j, t)
  BY TargetEdgeIs
<1> HIDE DEF t, sw
<1>4. e \in JtagState
  BY <1>2, <1>3, Zenon DEF JtagState
<1>5. /\ e.tms = tms /\ e.sw = sw /\ e.hw = t.hw /\ e.reg = t.reg /\ e.used = t.used
      /\ e.captured = t.captured /\ e.tdi = t.tdi /\ e.kind = t.kind /\ e.in = t.in
      /\ e.out = t.out /\ e.shifted = t.shifted /\ e.done = t.done
      /\ e.resetCounter = t.resetCounter
  BY <1>3 DEF JtagState
<1> HIDE DEF e
<1>6. TargetMoves(j, e) /\ ScanWaits(j, e)
  BY <1>3, <1>5 DEF TargetMoves, ScanWaits
<1> QED BY <1>1, <1>4, <1>5, <1>6 DEF sw

LEMMA IdleEdgeIs ==
  ASSUME NEW j \in JtagState
  PROVE  /\ IdleEdge(j) \in JtagState /\ TargetMoves(j, IdleEdge(j))
         /\ IdleEdge(j).sw = j.sw /\ IdleEdge(j).tms = targetState(j.sw, RUN_TEST_IDLE)
<1> DEFINE t == TargetEdge(j)
           tms == targetState(j.sw, RUN_TEST_IDLE)
           e == [t EXCEPT !.tms = tms]
<1>1. IdleEdge(j) = e
  BY DEF IdleEdge
<1>2. tms \in BOOLEAN
  BY DEF targetState
<1>3. t \in JtagState /\ TargetMoves(j, t) /\ t.sw = j.sw
  BY TargetEdgeIs
<1> HIDE DEF t, tms
<1>4. e \in JtagState
  BY <1>2, <1>3, Zenon DEF JtagState
<1>5. /\ e.tms = tms /\ e.sw = t.sw /\ e.hw = t.hw /\ e.reg = t.reg /\ e.used = t.used
      /\ e.captured = t.captured
  BY <1>3 DEF JtagState
<1> HIDE DEF e
<1>6. TargetMoves(j, e)
  BY <1>3, <1>5 DEF TargetMoves
<1> QED BY <1>1, <1>3, <1>4, <1>5, <1>6 DEF tms

\* An edge of a reset.
LEMMA ResetEdgeIs ==
  ASSUME NEW j \in JtagState, TAP_RESET_CYCLES \in Nat \ {0}
  PROVE  /\ ResetEdge(j) \in JtagState /\ TargetMoves(j, ResetEdge(j))
         /\ ResetEdge(j).sw = mapHigh(j.sw) /\ ResetEdge(j).tms = TRUE
         /\ ResetEdge(j).kind = j.kind
         /\ ResetEdge(j).resetCounter = (j.resetCounter + 1) % TAP_RESET_CYCLES
         /\ ResetEdge(j).done = (j.resetCounter + 1 = TAP_RESET_CYCLES)
<1> DEFINE t == Drive(j, TRUE)
           count == (j.resetCounter + 1) % TAP_RESET_CYCLES
           done == j.resetCounter + 1 = TAP_RESET_CYCLES
           e == [t EXCEPT !.resetCounter = count, !.done = done]
<1>1. ResetEdge(j) = e
  BY DEF ResetEdge
<1>2. count \in Nat /\ done \in BOOLEAN
  BY DEF JtagState
<1>3. /\ t \in JtagState /\ TargetMoves(j, t) /\ ScanWaits(j, t)
      /\ t.sw = mapHigh(j.sw) /\ t.tms = TRUE
  BY DriveIs DEF nextState
<1> HIDE DEF t, count, done
<1>4. e \in JtagState
  BY <1>2, <1>3, Zenon DEF JtagState
<1>5. /\ e.tms = t.tms /\ e.sw = t.sw /\ e.hw = t.hw /\ e.reg = t.reg /\ e.used = t.used
      /\ e.captured = t.captured /\ e.kind = t.kind
      /\ e.resetCounter = count /\ e.done = done
  BY <1>3 DEF JtagState
<1> HIDE DEF e
<1>6. TargetMoves(j, e) /\ e.kind = j.kind
  BY <1>3, <1>5 DEF TargetMoves, ScanWaits
<1> QED BY <1>1, <1>3, <1>4, <1>5, <1>6 DEF count, done

\* The register of a scan is as long as what is shifted in.
ScanState(j, kind, in, captured) ==
  /\ j \in JtagState /\ kind \in ScanKind /\ in \in SomeBits /\ captured \in SomeBits
  /\ Len(captured) = Len(in)
  /\ j.kind = kind /\ j.in = in /\ j.captured = captured

\* On the way to Shift.
LEMMA ApproachIs ==
  ASSUME NEW j, NEW kind, NEW in, NEW captured, ScanState(j, kind, in, captured),
         j.shifted = 0, j.sw # Tap("SHIFT", kind)
  PROVE  LET e == ScanEdge(j)
             tms == targetState(j.sw, Tap("SHIFT", kind)) IN
           /\ ScanState(e, kind, in, captured) /\ TargetMoves(j, e) /\ ScanWaits(j, e)
           /\ e.sw = nextState(j.sw, tms) /\ e.tms = tms
<1> DEFINE tms == targetState(j.sw, Tap("SHIFT", kind))
<1>1. tms \in BOOLEAN
  BY DEF targetState
<1>2. ScanEdge(j) = Drive(j, tms)
  BY DEF ScanEdge, ScanState
<1> HIDE DEF tms
<1>3. /\ Drive(j, tms) \in JtagState /\ TargetMoves(j, Drive(j, tms)) /\ ScanWaits(j, Drive(j, tms))
      /\ Drive(j, tms).sw = nextState(j.sw, tms) /\ Drive(j, tms).tms = tms
  BY <1>1, DriveIs DEF ScanState
<1>4. ScanState(Drive(j, tms), kind, in, captured)
  BY <1>3 DEF ScanState, ScanWaits, TargetMoves
<1> QED BY <1>2, <1>3, <1>4 DEF tms

\* The next bit.
LEMMA ShiftIs ==
  ASSUME NEW j, NEW kind, NEW in, NEW captured, ScanState(j, kind, in, captured),
         j.shifted < Len(in), j.shifted > 0 \/ j.sw = Tap("SHIFT", kind)
  PROVE  LET e == ScanEdge(j)
             tms == j.shifted + 1 = Len(in) IN
           /\ ScanState(e, kind, in, captured) /\ TargetMoves(j, e)
           /\ e.sw = nextState(j.sw, tms) /\ e.tms = tms /\ e.done = j.done
           /\ e.tdi = in[j.shifted + 1] /\ e.shifted = j.shifted + 1
           /\ e.out = IF j.shifted > 0 /\ Len(j.out) < Len(in)
                      THEN Append(j.out, Head(j.reg)) ELSE j.out
<1> DEFINE tms == j.shifted + 1 = Len(in)
           t == Drive(j, tms)
           tdi == in[j.shifted + 1]
           read == IF j.shifted > 0 /\ Len(j.out) < Len(in)
                   THEN Append(j.out, Head(j.reg)) ELSE j.out
           shifted == j.shifted + 1
           e == [t EXCEPT !.tdi = tdi, !.out = read, !.shifted = shifted]
<1>1. /\ j \in JtagState /\ j.kind = kind /\ j.in = in /\ j.shifted \in Nat /\ j.out \in Seq(BOOLEAN)
      /\ j.reg \in SomeBits /\ in \in Seq(BOOLEAN)
  BY DEF ScanState, JtagState, SomeBits
<1>2. /\ t \in JtagState /\ TargetMoves(j, t) /\ ScanWaits(j, t)
      /\ t.sw = nextState(j.sw, tms) /\ t.tms = tms
  BY <1>1, DriveIs
<1>3. ScanEdge(j) = e
  <2>1. t.shifted = j.shifted
    BY <1>2 DEF ScanWaits
  <2> HIDE DEF t
  <2>2. [t EXCEPT !.tdi = tdi, !.out = read, !.shifted = @ + 1] = e
    BY <1>2, <2>1 DEF JtagState
  <2>3. ScanEdge(j) = [t EXCEPT !.tdi = tdi, !.out = read, !.shifted = @ + 1]
    BY <1>1 DEF ScanEdge, t
  <2> QED BY <2>2, <2>3
<1>4. tdi \in BOOLEAN /\ shifted \in Nat
  BY <1>1, ElementOfSeq
<1>5. read \in Seq(BOOLEAN)
  <2>1. Head(j.reg) \in BOOLEAN
    BY <1>1, HeadTailProperties DEF SomeBits
  <2> QED BY <1>1, <2>1, AppendProperties
<1> HIDE DEF t, tdi, read, shifted, tms
<1>6. e \in JtagState
  BY <1>2, <1>4, <1>5, Zenon DEF JtagState
<1>7. /\ e.tms = t.tms /\ e.sw = t.sw /\ e.hw = t.hw /\ e.reg = t.reg /\ e.used = t.used
      /\ e.captured = t.captured /\ e.kind = t.kind /\ e.in = t.in /\ e.done = t.done
      /\ e.tdi = tdi /\ e.out = read /\ e.shifted = shifted
  BY <1>2 DEF JtagState
<1> HIDE DEF e
<1>8. TargetMoves(j, e) /\ e.done = j.done
  BY <1>2, <1>7 DEF TargetMoves, ScanWaits
<1>9. ScanState(e, kind, in, captured)
  BY <1>2, <1>6, <1>7 DEF ScanState, ScanWaits, TargetMoves
<1> QED BY <1>2, <1>3, <1>7, <1>8, <1>9 DEF tms, tdi, read, shifted

\* On the way to Update, where the scan ends.
LEMMA LeaveIs ==
  ASSUME NEW j, NEW kind, NEW in, NEW captured, ScanState(j, kind, in, captured),
         j.shifted = Len(in)
  PROVE  LET e == ScanEdge(j)
             tms == targetState(j.sw, Tap("UPDATE", kind)) IN
           /\ ScanState(e, kind, in, captured) /\ TargetMoves(j, e)
           /\ e.sw = nextState(j.sw, tms) /\ e.tms = tms
           /\ e.done = (j.sw = Tap("UPDATE", kind)) /\ e.shifted = j.shifted
           /\ e.out = IF Len(j.out) < Len(in) THEN Append(j.out, Head(j.reg)) ELSE j.out
<1> DEFINE tms == targetState(j.sw, Tap("UPDATE", kind))
           t == Drive(j, tms)
           read == IF Len(j.out) < Len(in) THEN Append(j.out, Head(j.reg)) ELSE j.out
           done == j.sw = Tap("UPDATE", kind)
           e == [t EXCEPT !.out = read, !.done = done]
<1>1. /\ j \in JtagState /\ j.kind = kind /\ j.in = in /\ j.out \in Seq(BOOLEAN)
      /\ j.reg \in SomeBits /\ Len(in) \in Nat \ {0}
  BY EmptySeq DEF ScanState, JtagState, SomeBits
<1>2. tms \in BOOLEAN
  BY DEF targetState
<1>3. ScanEdge(j) = e
  <2>1. j.shifted # 0 /\ j.shifted > 0 /\ ~(j.shifted < Len(in))
    BY <1>1
  <2>2. ScanEdge(j) = [Drive(j, targetState(j.sw, Tap("UPDATE", j.kind))) EXCEPT
                        !.out = read, !.done = (j.sw = Tap("UPDATE", j.kind))]
    BY <1>1, <2>1, Zenon DEF ScanEdge
  <2> QED BY <1>1, <2>2
<1> HIDE DEF tms
<1>4. /\ t \in JtagState /\ TargetMoves(j, t) /\ ScanWaits(j, t)
      /\ t.sw = nextState(j.sw, tms) /\ t.tms = tms
  BY <1>1, <1>2, DriveIs
<1>5. read \in Seq(BOOLEAN)
  <2>1. Head(j.reg) \in BOOLEAN
    BY <1>1, HeadTailProperties DEF SomeBits
  <2> QED BY <1>1, <2>1, AppendProperties
<1> HIDE DEF t, read, done
<1>6. e \in JtagState
  <2>1. done \in BOOLEAN
    BY DEF done
  <2> QED BY <1>4, <1>5, <2>1, Zenon DEF JtagState
<1>7. /\ e.tms = t.tms /\ e.sw = t.sw /\ e.hw = t.hw /\ e.reg = t.reg /\ e.used = t.used
      /\ e.captured = t.captured /\ e.kind = t.kind /\ e.in = t.in /\ e.done = done
      /\ e.tdi = t.tdi /\ e.out = read /\ e.shifted = t.shifted
  BY <1>4 DEF JtagState
<1> HIDE DEF e
<1>8. TargetMoves(j, e) /\ e.shifted = j.shifted
  BY <1>4, <1>7 DEF TargetMoves, ScanWaits
<1>9. ScanState(e, kind, in, captured)
  BY <1>4, <1>6, <1>7 DEF ScanState, ScanWaits, TargetMoves
<1> QED BY <1>3, <1>4, <1>7, <1>8, <1>9 DEF tms, read, done

\* The states before Shift, the last one first.
Before(kind) ==
  IF kind = "DR"
  THEN <<Tap("CAPTURE", "DR"), Tap("SELECT", "DR"), RUN_TEST_IDLE, TEST_LOGIC_RESET>>
  ELSE <<Tap("CAPTURE", "IR"), Tap("SELECT", "IR"), Tap("SELECT", "DR"), RUN_TEST_IDLE,
         TEST_LOGIC_RESET>>

LEMMA TargetStates ==
  ASSUME NEW kind \in ScanKind
  PROVE  /\ ~targetState(TEST_LOGIC_RESET, Tap("SHIFT", kind))
         /\ targetState(RUN_TEST_IDLE, Tap("SHIFT", kind))
         /\ ~targetState(Tap("SELECT", kind), Tap("SHIFT", kind))
         /\ targetState(Tap("SELECT", "DR"), Tap("SHIFT", "IR"))
         /\ ~targetState(Tap("CAPTURE", kind), Tap("SHIFT", kind))
         /\ targetState(Tap("EXIT1", kind), Tap("UPDATE", kind))
         /\ targetState(Tap("UPDATE", kind), Tap("UPDATE", kind))
         /\ ~targetState(TEST_LOGIC_RESET, RUN_TEST_IDLE)
         /\ targetState(Tap("SELECT", kind), RUN_TEST_IDLE)
BY DEF targetState, LowFor, Tap, TEST_LOGIC_RESET, RUN_TEST_IDLE, TapState, ScanKind, ScanName

LEMMA TowardsShift ==
  ASSUME NEW kind \in ScanKind, NEW m \in 1..Len(Before(kind))
  PROVE  LET s == Before(kind)[m]
             tms == targetState(s, Tap("SHIFT", kind)) IN
           /\ s # Tap("SHIFT", kind)
           /\ m = 1 => s = Tap("CAPTURE", kind) /\ ~tms /\ nextState(s, tms) = Tap("SHIFT", kind)
           /\ m > 1 => m - 1 \in 1..Len(Before(kind)) /\ nextState(s, tms) = Before(kind)[m - 1]
           /\ s = TEST_LOGIC_RESET => m = Len(Before(kind)) /\ ~tms
           /\ m = Len(Before(kind)) => Before(kind)[m - 1] = RUN_TEST_IDLE
<1>1. CASE kind = "DR"
  <2>1. Before(kind) = <<Tap("CAPTURE", "DR"), Tap("SELECT", "DR"), RUN_TEST_IDLE, TEST_LOGIC_RESET>>
    BY <1>1 DEF Before
  <2>2. m \in {1, 2, 3, 4}
    BY <2>1
  <2>3. /\ Tap("CAPTURE", "DR") # Tap("SHIFT", "DR") /\ Tap("SELECT", "DR") # Tap("SHIFT", "DR")
        /\ RUN_TEST_IDLE # Tap("SHIFT", "DR") /\ TEST_LOGIC_RESET # Tap("SHIFT", "DR")
        /\ Tap("CAPTURE", "DR") # TEST_LOGIC_RESET /\ Tap("SELECT", "DR") # TEST_LOGIC_RESET
        /\ RUN_TEST_IDLE # TEST_LOGIC_RESET
    BY DEF Tap, RUN_TEST_IDLE, TEST_LOGIC_RESET
  <2>4. /\ mapLow(Tap("CAPTURE", "DR")) = Tap("SHIFT", "DR")
        /\ mapLow(Tap("SELECT", "DR")) = Tap("CAPTURE", "DR")
        /\ mapHigh(RUN_TEST_IDLE) = Tap("SELECT", "DR")
        /\ mapLow(TEST_LOGIC_RESET) = RUN_TEST_IDLE
    BY TapMoves DEF ScanKind
  <2>5. /\ ~targetState(Tap("CAPTURE", "DR"), Tap("SHIFT", "DR"))
        /\ ~targetState(Tap("SELECT", "DR"), Tap("SHIFT", "DR"))
        /\ targetState(RUN_TEST_IDLE, Tap("SHIFT", "DR"))
        /\ ~targetState(TEST_LOGIC_RESET, Tap("SHIFT", "DR"))
    BY TargetStates DEF ScanKind
  <2>6. /\ Before(kind)[1] = Tap("CAPTURE", "DR") /\ Before(kind)[2] = Tap("SELECT", "DR")
        /\ Before(kind)[3] = RUN_TEST_IDLE /\ Before(kind)[4] = TEST_LOGIC_RESET
        /\ Len(Before(kind)) = 4
    BY <2>1
  <2>7. CASE m = 1
    BY <1>1, <2>3, <2>4, <2>5, <2>6, <2>7 DEF nextState
  <2>8. CASE m = 2
    BY <1>1, <2>3, <2>4, <2>5, <2>6, <2>8 DEF nextState
  <2>9. CASE m = 3
    BY <1>1, <2>3, <2>4, <2>5, <2>6, <2>9 DEF nextState
  <2>10. CASE m = 4
    BY <1>1, <2>3, <2>4, <2>5, <2>6, <2>10 DEF nextState
  <2> QED BY <2>2, <2>7, <2>8, <2>9, <2>10
<1>2. CASE kind = "IR"
  <2>1. Before(kind) = <<Tap("CAPTURE", "IR"), Tap("SELECT", "IR"), Tap("SELECT", "DR"),
                         RUN_TEST_IDLE, TEST_LOGIC_RESET>>
    BY <1>2 DEF Before
  <2>2. m \in {1, 2, 3, 4, 5}
    BY <2>1
  <2>3. /\ Tap("CAPTURE", "IR") # Tap("SHIFT", "IR") /\ Tap("SELECT", "IR") # Tap("SHIFT", "IR")
        /\ Tap("SELECT", "DR") # Tap("SHIFT", "IR")
        /\ RUN_TEST_IDLE # Tap("SHIFT", "IR") /\ TEST_LOGIC_RESET # Tap("SHIFT", "IR")
        /\ Tap("CAPTURE", "IR") # TEST_LOGIC_RESET /\ Tap("SELECT", "IR") # TEST_LOGIC_RESET
        /\ Tap("SELECT", "DR") # TEST_LOGIC_RESET /\ RUN_TEST_IDLE # TEST_LOGIC_RESET
    BY DEF Tap, RUN_TEST_IDLE, TEST_LOGIC_RESET
  <2>4. /\ mapLow(Tap("CAPTURE", "IR")) = Tap("SHIFT", "IR")
        /\ mapLow(Tap("SELECT", "IR")) = Tap("CAPTURE", "IR")
        /\ mapHigh(Tap("SELECT", "DR")) = Tap("SELECT", "IR")
        /\ mapHigh(RUN_TEST_IDLE) = Tap("SELECT", "DR")
        /\ mapLow(TEST_LOGIC_RESET) = RUN_TEST_IDLE
    BY TapMoves DEF ScanKind
  <2>5. /\ ~targetState(Tap("CAPTURE", "IR"), Tap("SHIFT", "IR"))
        /\ ~targetState(Tap("SELECT", "IR"), Tap("SHIFT", "IR"))
        /\ targetState(Tap("SELECT", "DR"), Tap("SHIFT", "IR"))
        /\ targetState(RUN_TEST_IDLE, Tap("SHIFT", "IR"))
        /\ ~targetState(TEST_LOGIC_RESET, Tap("SHIFT", "IR"))
    BY TargetStates DEF ScanKind
  <2>6. /\ Before(kind)[1] = Tap("CAPTURE", "IR") /\ Before(kind)[2] = Tap("SELECT", "IR")
        /\ Before(kind)[3] = Tap("SELECT", "DR") /\ Before(kind)[4] = RUN_TEST_IDLE
        /\ Before(kind)[5] = TEST_LOGIC_RESET /\ Len(Before(kind)) = 5
    BY <2>1
  <2>7. CASE m = 1
    BY <1>2, <2>3, <2>4, <2>5, <2>6, <2>7 DEF nextState
  <2>8. CASE m = 2
    BY <1>2, <2>3, <2>4, <2>5, <2>6, <2>8 DEF nextState
  <2>9. CASE m = 3
    BY <1>2, <2>3, <2>4, <2>5, <2>6, <2>9 DEF nextState
  <2>10. CASE m = 4
    BY <1>2, <2>3, <2>4, <2>5, <2>6, <2>10 DEF nextState
  <2>11. CASE m = 5
    BY <1>2, <2>3, <2>4, <2>5, <2>6, <2>11 DEF nextState
  <2> QED BY <2>2, <2>7, <2>8, <2>9, <2>10, <2>11
<1> QED BY <1>1, <1>2 DEF ScanKind

\* The action moves the state machine towards Shift, which the TAP follows; after a
\* reset it may have gone to Run-Test/Idle already.
Approaching(j, kind, m) ==
  /\ m \in 1..Len(Before(kind)) /\ j.sw = Before(kind)[m]
  /\ j.shifted = 0 /\ j.out = <<>> /\ ~j.done
  /\ InStep(j) \/ (j.sw = TEST_LOGIC_RESET /\ nextState(j.hw, j.tms) = RUN_TEST_IDLE)

\* The bits of the register after k of those of the action have been driven, and one
\* less has arrived.
Shifting(j, kind, in, captured, k) ==
  /\ j.shifted = k /\ ~j.done
  /\ j.sw = IF k = Len(in) THEN Tap("EXIT1", kind) ELSE Tap("SHIFT", kind)
  /\ j.hw = IF k = 0 THEN Tap("CAPTURE", kind) ELSE Tap("SHIFT", kind)
  /\ j.tms <=> k = Len(in)
  /\ Len(j.out) = IF k = 0 THEN 0 ELSE k - 1
  /\ \A i \in 1..Len(j.out) : j.out[i] = captured[i]
  /\ k > 0 => /\ j.tdi = in[k] /\ Len(j.reg) = Len(in)
              /\ \A i \in 1..Len(in) :
                   j.reg[i] = IF i <= Len(in) - k + 1 THEN captured[i + k - 1]
                              ELSE in[i - (Len(in) - k + 1)]

Leaving(j, kind, in, captured) ==
  /\ j.shifted = Len(in) /\ ~j.done
  /\ j.sw = Tap("UPDATE", kind) /\ j.hw = Tap("EXIT1", kind) /\ j.tms
  /\ j.out = captured /\ j.reg = in

Over(j, kind, in, captured) ==
  /\ j.done
  /\ j.sw = Tap("SELECT", "DR") /\ j.hw = Tap("UPDATE", kind) /\ j.tms
  /\ j.out = captured /\ j.reg = in

LEMMA ApproachStep ==
  ASSUME NEW j, NEW kind, NEW in, NEW captured, ScanState(j, kind, in, captured),
         NEW m, Approaching(j, kind, m)
  PROVE  /\ ScanState(ScanEdge(j), kind, in, captured)
         /\ m > 1 => Approaching(ScanEdge(j), kind, m - 1)
         /\ m = 1 => Shifting(ScanEdge(j), kind, in, captured, 0)
<1> DEFINE e == ScanEdge(j)
           shift == Tap("SHIFT", kind)
           tms == targetState(j.sw, shift)
<1>1. kind \in ScanKind /\ m \in 1..Len(Before(kind)) /\ j.sw = Before(kind)[m]
  BY DEF ScanState, Approaching
<1>2. /\ j.sw # shift
      /\ m = 1 => j.sw = Tap("CAPTURE", kind) /\ ~tms /\ nextState(j.sw, tms) = shift
      /\ m > 1 => m - 1 \in 1..Len(Before(kind)) /\ nextState(j.sw, tms) = Before(kind)[m - 1]
      /\ j.sw = TEST_LOGIC_RESET => m = Len(Before(kind)) /\ ~tms
      /\ m = Len(Before(kind)) => Before(kind)[m - 1] = RUN_TEST_IDLE
  BY <1>1, TowardsShift
<1>3. /\ ScanState(e, kind, in, captured) /\ TargetMoves(j, e) /\ ScanWaits(j, e)
      /\ e.sw = nextState(j.sw, tms) /\ e.tms = tms
  BY <1>2, ApproachIs DEF Approaching
<1> HIDE DEF e, tms
<1>4. e.hw = nextState(j.hw, j.tms) /\ e.shifted = 0 /\ e.out = <<>> /\ ~e.done
  BY <1>3 DEF TargetMoves, ScanWaits, Approaching
<1>5. ASSUME m > 1 PROVE Approaching(e, kind, m - 1)
  <2>1. InStep(e)
    <3>1. CASE InStep(j)
      BY <1>3, <1>4, <3>1 DEF InStep
    <3>2. CASE j.sw = TEST_LOGIC_RESET /\ nextState(j.hw, j.tms) = RUN_TEST_IDLE
      <4>1. e.hw = RUN_TEST_IDLE /\ ~tms /\ e.sw = RUN_TEST_IDLE
        BY <1>2, <1>3, <1>4, <1>5, <3>2
      <4> QED BY <1>3, <4>1, TapMoves, <1>1 DEF InStep, nextState
    <3> QED BY <3>1, <3>2 DEF Approaching
  <2> QED BY <1>2, <1>3, <1>4, <1>5, <2>1 DEF Approaching
<1>6. ASSUME m = 1 PROVE Shifting(e, kind, in, captured, 0)
  <2>1. j.sw = Tap("CAPTURE", kind) /\ ~tms /\ e.sw = shift
    BY <1>2, <1>3, <1>6
  <2>2. j.sw # TEST_LOGIC_RESET
    BY <2>1 DEF Tap, TEST_LOGIC_RESET
  <2>3. e.hw = Tap("CAPTURE", kind)
    BY <1>4, <2>1, <2>2 DEF InStep, Approaching
  <2>4. Len(in) # 0 /\ Len(in) \in Nat
    BY <1>3, EmptySeq DEF ScanState, SomeBits
  <2>5. e.tms = FALSE /\ Len(e.out) = 0
    BY <1>3, <1>4, <2>1 DEF tms, targetState
  <2>6. (e.tms <=> 0 = Len(in)) /\ \A i \in 1..Len(e.out) : e.out[i] = captured[i]
    BY <2>4, <2>5
  <2> QED BY <1>4, <2>1, <2>3, <2>4, <2>5, <2>6 DEF Shifting
<1> QED BY <1>3, <1>5, <1>6 DEF e

LEMMA ScanStateIs ==
  ASSUME NEW j, NEW kind, NEW in, NEW captured, ScanState(j, kind, in, captured)
  PROVE  /\ j \in JtagState /\ kind \in ScanKind /\ Len(in) \in Nat \ {0}
         /\ in \in [1..Len(in) -> BOOLEAN] /\ captured \in [1..Len(in) -> BOOLEAN]
         /\ in \in Seq(BOOLEAN) /\ captured \in Seq(BOOLEAN) /\ Len(captured) = Len(in)
         /\ j.reg \in Seq(BOOLEAN) /\ j.reg # <<>> /\ j.out \in Seq(BOOLEAN) /\ j.tdi \in BOOLEAN
BY EmptySeq, LenProperties DEF ScanState, SomeBits, JtagState

\* A shift of the register, with the next bit behind it.
LEMMA RegisterShifted ==
  ASSUME NEW reg \in Seq(BOOLEAN), reg # <<>>, NEW bit \in BOOLEAN
  PROVE  /\ Append(Tail(reg), bit) \in Seq(BOOLEAN)
         /\ Len(Append(Tail(reg), bit)) = Len(reg) /\ Len(reg) \in Nat \ {0}
         /\ \A i \in 1..Len(reg) :
              Append(Tail(reg), bit)[i] = IF i < Len(reg) THEN reg[i + 1] ELSE bit
<1>1. /\ Tail(reg) \in Seq(BOOLEAN) /\ Len(Tail(reg)) = Len(reg) - 1
      /\ \A i \in 1..Len(Tail(reg)) : Tail(reg)[i] = reg[i + 1]
  BY HeadTailProperties
<1>2. Len(reg) \in Nat \ {0}
  BY EmptySeq
<1> DEFINE tail == Tail(reg)
<1> HIDE DEF tail
<1>3. /\ Append(tail, bit) \in Seq(BOOLEAN) /\ Len(Append(tail, bit)) = Len(tail) + 1
      /\ \A i \in 1..Len(tail) : Append(tail, bit)[i] = tail[i]
      /\ Append(tail, bit)[Len(tail) + 1] = bit
  BY <1>1, AppendProperties DEF tail
<1>4. Len(tail) + 1 = Len(reg)
  BY <1>1, <1>2 DEF tail
<1>5. ASSUME NEW i \in 1..Len(reg)
      PROVE  Append(tail, bit)[i] = IF i < Len(reg) THEN reg[i + 1] ELSE bit
  <2>1. CASE i < Len(reg)
    <3>1. i \in 1..Len(tail)
      BY <1>1, <1>2, <2>1 DEF tail
    <3>2. tail[i] = reg[i + 1]
      BY <1>1, <3>1 DEF tail
    <3> QED BY <1>3, <2>1, <3>1, <3>2
  <2>2. CASE ~(i < Len(reg))
    <3>1. i = Len(tail) + 1
      BY <1>2, <1>4, <2>2
    <3> QED BY <1>3, <2>2, <3>1
  <2> QED BY <2>1, <2>2
<1> QED BY <1>2, <1>3, <1>4, <1>5 DEF tail

\* From one bit to the next: the register loses the bit that is read, which was
\* captured, and gets the one that was driven.
LEMMA ShiftMoves ==
  ASSUME NEW j, NEW kind, NEW in, NEW captured, ScanState(j, kind, in, captured),
         NEW k \in 1..Len(in), Shifting(j, kind, in, captured, k),
         NEW e, TargetMoves(j, e)
  PROVE  /\ Len(e.reg) = Len(in) /\ e.reg \in Seq(BOOLEAN) /\ e.hw = nextState(Tap("SHIFT", kind), j.tms)
         /\ \A i \in 1..Len(in) :
              e.reg[i] = IF i <= Len(in) - k THEN captured[i + k] ELSE in[i - (Len(in) - k)]
         /\ Append(j.out, Head(j.reg)) \in Seq(BOOLEAN)
         /\ Len(Append(j.out, Head(j.reg))) = k /\ Len(j.out) < Len(in)
         /\ \A i \in 1..k : Append(j.out, Head(j.reg))[i] = captured[i]
<1>1. /\ Len(in) \in Nat \ {0} /\ k \in Nat /\ k > 0 /\ k <= Len(in)
      /\ j.reg \in Seq(BOOLEAN) /\ j.reg # <<>> /\ j.out \in Seq(BOOLEAN) /\ j.tdi \in BOOLEAN
  BY ScanStateIs
<1>2. /\ j.hw = Tap("SHIFT", kind) /\ j.tdi = in[k] /\ Len(j.reg) = Len(in) /\ Len(j.out) = k - 1
      /\ \A i \in 1..(k - 1) : j.out[i] = captured[i]
  BY <1>1 DEF Shifting
<1>9. \A i \in 1..Len(in) : j.reg[i] = IF i <= Len(in) - k + 1 THEN captured[i + k - 1]
                                      ELSE in[i - (Len(in) - k + 1)]
  BY <1>1 DEF Shifting
<1>3. e.reg = Append(Tail(j.reg), j.tdi) /\ e.hw = nextState(Tap("SHIFT", kind), j.tms)
  <2>1. j.hw[1] = "SHIFT"
    BY <1>2 DEF Tap
  <2> QED BY <1>2, <2>1 DEF TargetMoves
<1>4. /\ e.reg \in Seq(BOOLEAN) /\ Len(e.reg) = Len(in)
      /\ \A i \in 1..Len(in) : e.reg[i] = IF i < Len(in) THEN j.reg[i + 1] ELSE j.tdi
  <2>1. /\ Append(Tail(j.reg), j.tdi) \in Seq(BOOLEAN)
        /\ Len(Append(Tail(j.reg), j.tdi)) = Len(j.reg)
        /\ \A i \in 1..Len(j.reg) :
             Append(Tail(j.reg), j.tdi)[i] = IF i < Len(j.reg) THEN j.reg[i + 1] ELSE j.tdi
    BY <1>1, RegisterShifted
  <2> QED BY <1>2, <1>3, <2>1
<1>5. ASSUME NEW i \in 1..Len(in)
      PROVE  e.reg[i] = IF i <= Len(in) - k THEN captured[i + k] ELSE in[i - (Len(in) - k)]
  <2>1. CASE i < Len(in)
    <3>1. i + 1 \in 1..Len(in) /\ e.reg[i] = j.reg[i + 1]
      BY <1>1, <1>4, <2>1
    <3>2. j.reg[i + 1] = IF i + 1 <= Len(in) - k + 1 THEN captured[i + 1 + k - 1] ELSE in[i + 1 - (Len(in) - k + 1)]
      BY <1>9, <3>1
    <3>3. i + 1 <= Len(in) - k + 1 <=> i <= Len(in) - k
      BY <1>1
    <3>4. i + 1 + k - 1 = i + k /\ i + 1 - (Len(in) - k + 1) = i - (Len(in) - k)
      BY <1>1
    <3> QED BY <3>1, <3>2, <3>3, <3>4
  <2>2. CASE i = Len(in)
    BY <1>1, <1>2, <1>4, <2>2
  <2> QED BY <1>1, <2>1, <2>2
<1>6. Head(j.reg) = captured[k] /\ Head(j.reg) \in BOOLEAN
  <2>1. Head(j.reg) = j.reg[1]
    BY <1>1
  <2>2. 1 \in 1..Len(in) /\ 1 <= Len(in) - k + 1 /\ 1 + k - 1 = k
    BY <1>1
  <2>3. j.reg[1] = captured[k]
    BY <1>9, <2>2
  <2> QED BY <1>1, <2>1, <2>3, HeadTailProperties
<1> DEFINE bit == Head(j.reg)
<1> HIDE DEF bit
<1>7. /\ Append(j.out, bit) \in Seq(BOOLEAN) /\ Len(Append(j.out, bit)) = Len(j.out) + 1
      /\ \A i \in 1..Len(j.out) : Append(j.out, bit)[i] = j.out[i]
      /\ Append(j.out, bit)[Len(j.out) + 1] = bit
  BY <1>1, <1>6, AppendProperties DEF bit
<1>8. ASSUME NEW i \in 1..k PROVE Append(j.out, bit)[i] = captured[i]
  BY <1>1, <1>2, <1>6, <1>7 DEF bit
<1>10. Len(Append(j.out, bit)) = k /\ Len(j.out) < Len(in)
  BY <1>1, <1>2, <1>7
<1> QED BY <1>3, <1>4, <1>5, <1>7, <1>8, <1>10 DEF bit

LEMMA ShiftStep ==
  ASSUME NEW j, NEW kind, NEW in, NEW captured, ScanState(j, kind, in, captured),
         NEW k \in 0..(Len(in) - 1), Shifting(j, kind, in, captured, k)
  PROVE  /\ ScanState(ScanEdge(j), kind, in, captured)
         /\ Shifting(ScanEdge(j), kind, in, captured, k + 1)
<1> DEFINE e == ScanEdge(j)
           tms == j.shifted + 1 = Len(in)
<1>1. /\ j \in JtagState /\ kind \in ScanKind /\ Len(in) \in Nat \ {0}
      /\ in \in Seq(BOOLEAN) /\ captured \in Seq(BOOLEAN) /\ Len(captured) = Len(in)
      /\ j.out \in Seq(BOOLEAN)
  BY ScanStateIs
<1>2. /\ j.shifted = k /\ k < Len(in) /\ k \in Nat /\ ~j.done /\ j.sw = Tap("SHIFT", kind)
      /\ ~j.tms /\ j.hw = (IF k = 0 THEN Tap("CAPTURE", kind) ELSE Tap("SHIFT", kind))
      /\ Len(j.out) = IF k = 0 THEN 0 ELSE k - 1
  BY <1>1 DEF Shifting, JtagState
<1>3. /\ ScanState(e, kind, in, captured) /\ TargetMoves(j, e)
      /\ e.sw = nextState(j.sw, tms) /\ e.tms = tms /\ e.done = j.done
      /\ e.tdi = in[j.shifted + 1] /\ e.shifted = j.shifted + 1
      /\ e.out = IF j.shifted > 0 /\ Len(j.out) < Len(in)
                 THEN Append(j.out, Head(j.reg)) ELSE j.out
  BY <1>2, ShiftIs
<1> HIDE DEF e
<1>4. e.sw = IF k + 1 = Len(in) THEN Tap("EXIT1", kind) ELSE Tap("SHIFT", kind)
  BY <1>1, <1>2, <1>3, TapMoves DEF nextState
<1>5. e.hw = Tap("SHIFT", kind)
  BY <1>1, <1>2, <1>3, TapMoves DEF nextState, TargetMoves
<1>6. e.tms <=> k + 1 = Len(in)
  BY <1>2, <1>3
<1>7. CASE k = 0
  <2>1. e.out = j.out /\ Len(e.out) = 0
    BY <1>2, <1>3, <1>7
  <2>2. e.reg = captured
    <3>1. j.hw[1] = "CAPTURE"
      BY <1>2, <1>7 DEF Tap
    <3> QED BY <1>3, <3>1 DEF TargetMoves, ScanState
  <2>3. \A i \in 1..Len(in) : i <= Len(in) - 1 + 1 /\ i + 1 - 1 = i
    BY <1>1
  <2>4. \A i \in 1..Len(in) : e.reg[i] = IF i <= Len(in) - 1 + 1 THEN captured[i + 1 - 1]
                                         ELSE in[i - (Len(in) - 1 + 1)]
    BY <2>2, <2>3
  <2>5. e.tdi = in[1] /\ e.shifted = 1 /\ ~e.done
    BY <1>2, <1>3, <1>7
  <2>6. Len(e.reg) = Len(in) /\ \A i \in 1..Len(e.out) : e.out[i] = captured[i]
    BY <1>1, <2>1, <2>2
  <2>7. Shifting(e, kind, in, captured, 1)
    BY <1>4, <1>5, <1>6, <1>7, <2>1, <2>4, <2>5, <2>6 DEF Shifting
  <2> QED BY <1>3, <1>7, <2>7 DEF e
<1>8. CASE k # 0
  <2>1. k \in 1..Len(in) /\ k + 1 > 0 /\ k + 1 # 0
    BY <1>1, <1>2, <1>8
  <2>2. /\ Len(e.reg) = Len(in)
        /\ \A i \in 1..Len(in) :
             e.reg[i] = IF i <= Len(in) - k THEN captured[i + k] ELSE in[i - (Len(in) - k)]
        /\ Len(Append(j.out, Head(j.reg))) = k /\ Len(j.out) < Len(in)
        /\ \A i \in 1..k : Append(j.out, Head(j.reg))[i] = captured[i]
    BY <1>3, <2>1, ShiftMoves
  <2>3. e.out = Append(j.out, Head(j.reg))
    BY <1>2, <1>3, <2>1, <2>2
  <2>4. Len(e.out) = k + 1 - 1 /\ \A i \in 1..Len(e.out) : e.out[i] = captured[i]
    BY <2>1, <2>2, <2>3
  <2>5. \A i \in 1..Len(in) : /\ i <= Len(in) - k <=> i <= Len(in) - (k + 1) + 1
                             /\ i + k = i + (k + 1) - 1
                             /\ i - (Len(in) - k) = i - (Len(in) - (k + 1) + 1)
    BY <1>1, <1>2
  <2>6. \A i \in 1..Len(in) :
          e.reg[i] = IF i <= Len(in) - (k + 1) + 1 THEN captured[i + (k + 1) - 1]
                     ELSE in[i - (Len(in) - (k + 1) + 1)]
    BY <2>2, <2>5
  <2>7. e.tdi = in[k + 1] /\ e.shifted = k + 1 /\ ~e.done
    BY <1>2, <1>3
  <2>8. Shifting(e, kind, in, captured, k + 1)
    BY <1>4, <1>5, <1>6, <2>1, <2>2, <2>4, <2>6, <2>7 DEF Shifting
  <2> QED BY <1>3, <2>8 DEF e
<1> QED BY <1>7, <1>8

LEMMA LeaveStep ==
  ASSUME NEW j, NEW kind, NEW in, NEW captured, ScanState(j, kind, in, captured),
         Shifting(j, kind, in, captured, Len(in))
  PROVE  /\ ScanState(ScanEdge(j), kind, in, captured)
         /\ Leaving(ScanEdge(j), kind, in, captured)
<1> DEFINE e == ScanEdge(j)
           tms == targetState(j.sw, Tap("UPDATE", kind))
<1>1. /\ kind \in ScanKind /\ Len(in) \in Nat \ {0}
      /\ in \in Seq(BOOLEAN) /\ captured \in Seq(BOOLEAN) /\ Len(captured) = Len(in)
  BY ScanStateIs
<1>2. /\ j.shifted = Len(in) /\ j.sw = Tap("EXIT1", kind) /\ j.tms
  BY <1>1 DEF Shifting
<1>3. /\ ScanState(e, kind, in, captured) /\ TargetMoves(j, e)
      /\ e.sw = nextState(j.sw, tms) /\ e.tms = tms
      /\ e.done = (j.sw = Tap("UPDATE", kind)) /\ e.shifted = j.shifted
      /\ e.out = IF Len(j.out) < Len(in) THEN Append(j.out, Head(j.reg)) ELSE j.out
  BY <1>2, LeaveIs
<1> HIDE DEF e
<1>4. /\ Len(e.reg) = Len(in) /\ e.reg \in Seq(BOOLEAN) /\ e.hw = nextState(Tap("SHIFT", kind), j.tms)
      /\ \A i \in 1..Len(in) :
           e.reg[i] = IF i <= Len(in) - Len(in) THEN captured[i + Len(in)]
                      ELSE in[i - (Len(in) - Len(in))]
      /\ Append(j.out, Head(j.reg)) \in Seq(BOOLEAN)
      /\ Len(Append(j.out, Head(j.reg))) = Len(in) /\ Len(j.out) < Len(in)
      /\ \A i \in 1..Len(in) : Append(j.out, Head(j.reg))[i] = captured[i]
  <2>1. Len(in) \in 1..Len(in)
    BY <1>1
  <2> QED BY <1>3, <2>1, ShiftMoves
<1>5. e.reg = in
  <2>1. \A i \in 1..Len(in) : ~(i <= Len(in) - Len(in)) /\ i - (Len(in) - Len(in)) = i
    BY <1>1
  <2>2. \A i \in 1..Len(e.reg) : e.reg[i] = in[i]
    BY <1>4, <2>1
  <2> QED BY <1>1, <1>4, <2>2, SeqEqual
<1>6. e.out = captured
  <2> DEFINE out == Append(j.out, Head(j.reg))
  <2>1. e.out = out /\ out \in Seq(BOOLEAN) /\ Len(out) = Len(captured)
    BY <1>1, <1>3, <1>4
  <2>2. \A i \in 1..Len(out) : out[i] = captured[i]
    BY <1>4
  <2> HIDE DEF out
  <2>3. out = captured
    BY <1>1, <2>1, <2>2, SeqEqual
  <2> QED BY <2>1, <2>3
<1>7. tms /\ ~(Tap("EXIT1", kind) = Tap("UPDATE", kind))
  BY <1>1, <1>2, TargetStates DEF Tap
<1> HIDE DEF tms
<1>8. e.sw = Tap("UPDATE", kind) /\ e.tms /\ ~e.done /\ e.shifted = Len(in)
  BY <1>1, <1>2, <1>3, <1>7, TapMoves DEF nextState
<1>9. e.hw = Tap("EXIT1", kind)
  BY <1>1, <1>2, <1>4, TapMoves DEF nextState
<1>10. Leaving(e, kind, in, captured)
  BY <1>5, <1>6, <1>8, <1>9 DEF Leaving
<1> QED BY <1>3, <1>10 DEF e

LEMMA OverStep ==
  ASSUME NEW j, NEW kind, NEW in, NEW captured, ScanState(j, kind, in, captured),
         Leaving(j, kind, in, captured)
  PROVE  /\ ScanState(ScanEdge(j), kind, in, captured)
         /\ Over(ScanEdge(j), kind, in, captured)
<1> DEFINE e == ScanEdge(j)
           tms == targetState(j.sw, Tap("UPDATE", kind))
<1>1. /\ kind \in ScanKind /\ Len(in) \in Nat \ {0} /\ Len(captured) = Len(in)
  BY ScanStateIs
<1>2. /\ j.shifted = Len(in) /\ j.sw = Tap("UPDATE", kind) /\ j.tms /\ j.hw = Tap("EXIT1", kind)
      /\ j.out = captured /\ j.reg = in
  BY DEF Leaving
<1>3. /\ ScanState(e, kind, in, captured) /\ TargetMoves(j, e)
      /\ e.sw = nextState(j.sw, tms) /\ e.tms = tms
      /\ e.done = (j.sw = Tap("UPDATE", kind)) /\ e.shifted = j.shifted
      /\ e.out = IF Len(j.out) < Len(in) THEN Append(j.out, Head(j.reg)) ELSE j.out
  BY <1>2, LeaveIs
<1> HIDE DEF e
<1>4. tms
  BY <1>1, <1>2, TargetStates
<1> HIDE DEF tms
<1>5. e.sw = Tap("SELECT", "DR") /\ e.tms /\ e.done
  BY <1>1, <1>2, <1>3, <1>4, TapMoves DEF nextState
<1>6. e.hw = Tap("UPDATE", kind)
  BY <1>1, <1>2, <1>3, TapMoves DEF nextState, TargetMoves
<1>7. e.reg = in /\ e.out = captured
  <2>1. j.hw[1] # "CAPTURE" /\ j.hw[1] # "SHIFT"
    BY <1>2 DEF Tap
  <2>2. e.reg = j.reg
    BY <1>3, <2>1 DEF TargetMoves
  <2> QED BY <1>1, <1>2, <1>3, <2>2
<1>8. Over(e, kind, in, captured)
  BY <1>5, <1>6, <1>7 DEF Over
<1> QED BY <1>3, <1>8 DEF e

\* Where a scan may begin: after a reset, idle or not, and at once after another scan.
Ready(j) ==
  /\ j \in JtagState
  /\ \/ j.sw = TEST_LOGIC_RESET /\ nextState(j.hw, j.tms) \in {TEST_LOGIC_RESET, RUN_TEST_IDLE}
     \/ j.sw = Tap("SELECT", "DR") /\ InStep(j)

\* Some edges before its end.
Left(j, kind, in, captured, r) ==
  /\ ScanState(j, kind, in, captured)
  /\ \/ r > Len(in) + 2 /\ Approaching(j, kind, r - (Len(in) + 2))
     \/ r \in 2..(Len(in) + 2) /\ Shifting(j, kind, in, captured, Len(in) + 2 - r)
     \/ r = 1 /\ Leaving(j, kind, in, captured)
     \/ r = 0 /\ Over(j, kind, in, captured)

LEMMA LeftStep ==
  ASSUME NEW j, NEW kind, NEW in, NEW captured, NEW r \in Nat, Left(j, kind, in, captured, r)
  PROVE  /\ r = 0 => ActionEdge(j) = j
         /\ r # 0 => Left(ActionEdge(j), kind, in, captured, r - 1)
<1>1. ScanState(j, kind, in, captured)
  BY DEF Left
<1>2. /\ kind \in ScanKind /\ Len(in) \in Nat \ {0}
  BY <1>1, ScanStateIs
<1>3. CASE r = 0
  <2>1. j.done
    BY <1>2, <1>3 DEF Left, Over
  <2> QED BY <1>3, <2>1 DEF ActionEdge
<1>4. CASE r # 0
  <2>1. ~j.done
    BY <1>2, <1>4 DEF Left, Approaching, Shifting, Leaving
  <2>2. j.kind # "reset"
    BY <1>1 DEF ScanState, ScanKind
  <2>3. ActionEdge(j) = ScanEdge(j)
    BY <2>1, <2>2 DEF ActionEdge
  <2> DEFINE e == ScanEdge(j)
  <2>4. CASE r > Len(in) + 2
    <3> DEFINE m == r - (Len(in) + 2)
    <3>1. Approaching(j, kind, m) /\ m \in Nat \ {0}
      BY <1>2, <2>4 DEF Left
    <3>2. m = 1 => r - 1 \in 2..(Len(in) + 2) /\ Len(in) + 2 - (r - 1) = 0
      BY <1>2, <2>4
    <3>3. m # 1 => m > 1 /\ r - 1 > Len(in) + 2 /\ m - 1 = (r - 1) - (Len(in) + 2)
      BY <1>2, <2>4
    <3> HIDE DEF m
    <3>4. /\ ScanState(e, kind, in, captured)
          /\ m > 1 => Approaching(e, kind, m - 1)
          /\ m = 1 => Shifting(e, kind, in, captured, 0)
      BY <1>1, <3>1, ApproachStep
    <3> HIDE DEF e
    <3>5. Left(e, kind, in, captured, r - 1)
      BY <3>2, <3>3, <3>4 DEF Left
    <3> QED BY <1>4, <2>3, <3>5 DEF e
  <2>5. CASE r \in 3..(Len(in) + 2)
    <3> DEFINE k == Len(in) + 2 - r
    <3>1. Shifting(j, kind, in, captured, k)
      BY <1>2, <2>5 DEF Left
    <3>2. k \in 0..(Len(in) - 1)
      BY <1>2, <2>5
    <3>3. r - 1 \in 2..(Len(in) + 2) /\ k + 1 = Len(in) + 2 - (r - 1)
      BY <1>2, <2>5
    <3> HIDE DEF k
    <3>4. ScanState(e, kind, in, captured) /\ Shifting(e, kind, in, captured, k + 1)
      BY <1>1, <3>1, <3>2, ShiftStep
    <3> HIDE DEF e
    <3>5. Left(e, kind, in, captured, r - 1)
      BY <3>3, <3>4 DEF Left
    <3> QED BY <1>4, <2>3, <3>5 DEF e
  <2>6. CASE r = 2
    <3>1. Shifting(j, kind, in, captured, Len(in))
      <4>1. Len(in) + 2 - r = Len(in)
        BY <1>2, <2>6
      <4> QED BY <1>2, <2>6, <4>1 DEF Left
    <3>2. ScanState(e, kind, in, captured) /\ Leaving(e, kind, in, captured)
      BY <1>1, <3>1, LeaveStep
    <3> HIDE DEF e
    <3>3. Left(e, kind, in, captured, r - 1)
      BY <2>6, <3>2 DEF Left
    <3> QED BY <1>4, <2>3, <3>3 DEF e
  <2>7. CASE r = 1
    <3>1. Leaving(j, kind, in, captured)
      BY <1>2, <2>7 DEF Left
    <3>2. ScanState(e, kind, in, captured) /\ Over(e, kind, in, captured)
      BY <1>1, <3>1, OverStep
    <3> HIDE DEF e
    <3>3. Left(e, kind, in, captured, r - 1)
      BY <2>7, <3>2 DEF Left
    <3> QED BY <1>4, <2>3, <3>3 DEF e
  <2> QED BY <1>2, <1>4, <2>4, <2>5, <2>6, <2>7
<1> QED BY <1>3, <1>4

\* Wherever it begins, a scan is over after the edges Scan gives it.
LEMMA ScanEnds ==
  ASSUME NEW j, Ready(j), NEW kind \in ScanKind, NEW in \in SomeBits, NEW captured \in SomeBits,
         Len(captured) = Len(in)
  PROVE  /\ ScanState(Scan(j, kind, in, captured), kind, in, captured)
         /\ Over(Scan(j, kind, in, captured), kind, in, captured)
<1> DEFINE start == ScanStart(j, kind, in, captured)
           N == Len(in) + 7
           Within(e, k) == \E r \in Nat : r <= N - k /\ Left(e, kind, in, captured, r)
           S == {k \in 0..N : Within(Run(start, k), k)}
<1>1. Len(in) \in Nat \ {0} /\ N \in Nat
  BY EmptySeq DEF SomeBits
<1>2. /\ start.kind = kind /\ start.in = in /\ start.captured = captured /\ start.out = <<>>
      /\ start.shifted = 0 /\ ~start.done /\ start.sw = j.sw /\ start.hw = j.hw
      /\ start.tms = j.tms
  BY DEF ScanStart, Ready, JtagState
<1>3. start \in JtagState
  <2>1. j \in JtagState /\ in \in Seq(BOOLEAN) /\ <<>> \in Seq(BOOLEAN) /\ 0 \in Nat
    BY EmptySeq DEF Ready, SomeBits
  <2> QED BY <2>1, Zenon DEF ScanStart, JtagState
<1> HIDE DEF start
<1>4. ScanState(start, kind, in, captured)
  BY <1>2, <1>3 DEF ScanState
<1>5. PICK m \in 1..5 : Approaching(start, kind, m)
  <2>1. CASE j.sw = TEST_LOGIC_RESET /\ nextState(j.hw, j.tms) \in {TEST_LOGIC_RESET, RUN_TEST_IDLE}
    <3>1. InStep(start) \/ (start.sw = TEST_LOGIC_RESET /\ nextState(start.hw, start.tms) = RUN_TEST_IDLE)
      BY <1>2, <2>1 DEF InStep
    <3>2. /\ Len(Before(kind)) \in {4, 5} /\ Before(kind)[Len(Before(kind))] = TEST_LOGIC_RESET
      BY DEF Before, ScanKind
    <3>3. Len(Before(kind)) \in 1..Len(Before(kind)) /\ start.sw = Before(kind)[Len(Before(kind))]
      <4>1. Len(Before(kind)) \in 1..Len(Before(kind))
        BY <3>2
      <4>2. start.sw = TEST_LOGIC_RESET
        BY <1>2, <2>1
      <4> QED BY <3>2, <4>1, <4>2
    <3>4. Approaching(start, kind, Len(Before(kind)))
      BY <1>2, <3>1, <3>3, Zenon DEF Approaching
    <3> QED BY <3>2, <3>4
  <2>2. CASE j.sw = Tap("SELECT", "DR") /\ InStep(j)
    <3>1. InStep(start)
      BY <1>2, <2>2 DEF InStep
    <3>2. \E m \in 2..3 : m <= Len(Before(kind)) /\ Before(kind)[m] = Tap("SELECT", "DR")
      BY DEF Before, ScanKind
    <3> QED BY <1>2, <2>2, <3>1, <3>2 DEF Approaching
  <2> QED BY <2>1, <2>2 DEF Ready
<1>6. 0 \in S
  <2>1. Run(start, 0) = start
    BY RunNext
  <2>2. Left(start, kind, in, captured, Len(in) + 2 + m)
    <3>1. Len(in) + 2 + m > Len(in) + 2 /\ Len(in) + 2 + m - (Len(in) + 2) = m
      BY <1>1
    <3> QED BY <1>4, <1>5, <3>1 DEF Left
  <2>3. Len(in) + 2 + m \in Nat /\ Len(in) + 2 + m <= N - 0
    BY <1>1
  <2>4. Within(start, 0)
    BY <2>2, <2>3
  <2> HIDE DEF Within, N
  <2> QED BY <1>1, <2>1, <2>4
<1>7. ASSUME NEW k \in 1..N, k - 1 \in S PROVE k \in S
  <2> DEFINE e == Run(start, k - 1)
  <2>1. PICK r \in Nat : r <= N - (k - 1) /\ Left(e, kind, in, captured, r)
    BY <1>7
  <2>2. Run(start, k) = ActionEdge(e)
    <3>1. k - 1 \in Nat /\ k - 1 + 1 = k
      BY <1>1
    <3> HIDE DEF N
    <3>2. Run(start, k - 1 + 1) = ActionEdge(Run(start, k - 1))
      BY <3>1, RunNext
    <3> QED BY <3>1, <3>2
  <2> HIDE DEF e
  <2>3. /\ r = 0 => ActionEdge(e) = e
        /\ r # 0 => Left(ActionEdge(e), kind, in, captured, r - 1)
    BY <2>1, LeftStep
  <2>4. Within(ActionEdge(e), k)
    <3>1. CASE r = 0
      <4>1. 0 \in Nat /\ 0 <= N - k /\ Left(ActionEdge(e), kind, in, captured, 0)
        BY <1>1, <2>1, <2>3, <3>1
      <4> QED BY <4>1
    <3>2. CASE r # 0
      <4>1. r - 1 \in Nat /\ r - 1 <= N - k /\ Left(ActionEdge(e), kind, in, captured, r - 1)
        BY <1>1, <2>1, <2>3, <3>2
      <4> QED BY <4>1
    <3> QED BY <3>1, <3>2
  <2> HIDE DEF Within, N
  <2> QED BY <1>1, <2>2, <2>4
<1>8. N \in S
  <2>1. \A k \in 1..N : k - 1 \in S => k \in S
    BY <1>7
  <2> HIDE DEF S, N, Within
  <2>2. \A k \in 0..N : k \in S
    BY <1>1, <1>6, <2>1, UpTo, Zenon
  <2> QED BY <1>1, <2>2
<1>9. Left(Run(start, N), kind, in, captured, 0)
  <2>1. Within(Run(start, N), N)
    BY <1>8
  <2>2. PICK r \in Nat : r <= N - N /\ Left(Run(start, N), kind, in, captured, r)
    BY <2>1
  <2>3. r = 0
    BY <1>1, <2>2
  <2> QED BY <2>2, <2>3
<1>10. Scan(j, kind, in, captured) = Run(start, N)
  BY DEF Scan, start
<1> HIDE DEF N
<1>11. ScanState(Run(start, N), kind, in, captured) /\ Over(Run(start, N), kind, in, captured)
  BY <1>1, <1>9 DEF Left
<1> QED BY <1>10, <1>11

\* A scan exchanges the bits of the action with those of the target, however many
\* they are, and the next one may begin at once (TapActionIRScan, TapActionDRScan).
THEOREM ScanExchanges ==
  ASSUME NEW j, Ready(j), NEW kind \in ScanKind, NEW in \in SomeBits, NEW captured \in SomeBits,
         Len(captured) = Len(in)
  PROVE  /\ Exchanged(Scan(j, kind, in, captured), in, captured)
         /\ Ready(Scan(j, kind, in, captured))
<1> DEFINE e == Scan(j, kind, in, captured)
<1>1. ScanState(e, kind, in, captured) /\ Over(e, kind, in, captured)
  BY ScanEnds
<1> HIDE DEF e
<1>2. e \in JtagState
  BY <1>1 DEF ScanState
<1>3. InStep(e)
  BY <1>1, TapMoves DEF Over, InStep, nextState
<1>4. Ready(e)
  BY <1>1, <1>2, <1>3 DEF Ready, Over
<1>5. TargetEdge(e).used = in
  <2>1. e.hw[1] = "UPDATE" /\ e.reg = in
    BY <1>1 DEF Over, Tap
  <2>2. TargetMoves(e, TargetEdge(e))
    BY <1>2, TargetEdgeIs
  <2> QED BY <2>1, <2>2 DEF TargetMoves
<1>6. Exchanged(e, in, captured)
  BY <1>1, <1>3, <1>5 DEF Exchanged, Over
<1> QED BY <1>4, <1>6 DEF e

\* Whatever the two have been doing, a reset brings them together, if it takes at
\* least the five edges the TAP needs (TapActionReset).
THEOREM ResetSettles ==
  ASSUME NEW j \in JtagState, j.resetCounter = 0, TAP_RESET_CYCLES \in Nat, TAP_RESET_CYCLES >= 5
  PROVE  /\ Reset(j) \in JtagState /\ Reset(j).done /\ InStep(Reset(j))
         /\ Reset(j).sw = TEST_LOGIC_RESET
<1> DEFINE start == [j EXCEPT !.kind = "reset", !.done = FALSE]
           N == TAP_RESET_CYCLES
           Settling(e, k) ==
             /\ e \in JtagState /\ e.kind = "reset"
             /\ e.done <=> k = N
             /\ k # N => e.resetCounter = k
             /\ ToReset(e.sw) = 0 \/ ToReset(e.sw) + k <= 5
             /\ k > 0 => e.tms /\ (ToReset(e.hw) = 0 \/ ToReset(e.hw) + k <= 6)
           S == {k \in 0..N : Settling(Run(start, k), k)}
<1>1. start \in JtagState
  BY Zenon DEF JtagState
<1>2. start.kind = "reset" /\ ~start.done /\ start.resetCounter = 0 /\ start.sw \in TapState
  BY DEF JtagState
<1>3. Reset(j) = Run(start, N)
  BY DEF Reset
<1> HIDE DEF start
<1>4. 0 \in S
  <2>1. Run(start, 0) = start
    BY RunNext
  <2>2. Settling(start, 0)
    BY <1>1, <1>2, ToResetFalls
  <2> HIDE DEF Settling
  <2> QED BY <2>1, <2>2
<1>5. ASSUME NEW k \in 1..N, k - 1 \in S PROVE k \in S
  <2> DEFINE e == Run(start, k - 1)
             f == ResetEdge(e)
  <2>1. Settling(e, k - 1)
    BY <1>5
  <2>2. Run(start, k) = ActionEdge(e)
    <3>1. k - 1 \in Nat /\ k - 1 + 1 = k
      OBVIOUS
    <3>2. Run(start, k - 1 + 1) = ActionEdge(Run(start, k - 1))
      BY <3>1, RunNext
    <3> QED BY <3>1, <3>2
  <2> HIDE DEF e
  <2>3. ActionEdge(e) = f
    BY <2>1 DEF ActionEdge
  <2>4. /\ f \in JtagState /\ TargetMoves(e, f) /\ f.sw = mapHigh(e.sw) /\ f.tms = TRUE
        /\ f.kind = e.kind
        /\ f.resetCounter = (e.resetCounter + 1) % N
        /\ f.done = (e.resetCounter + 1 = N)
    <3>1. N \in Nat \ {0}
      OBVIOUS
    <3> QED BY <2>1, <3>1, ResetEdgeIs
  <2> HIDE DEF f
  <2>5. e.sw \in TapState /\ e.hw \in TapState /\ e.tms \in BOOLEAN /\ e.resetCounter = k - 1
    BY <2>1 DEF JtagState
  <2>6. ToReset(f.sw) = 0 \/ ToReset(f.sw) + k <= 5
    <3>1. /\ ToReset(e.sw) \in 0..5
          /\ ToReset(f.sw) = IF ToReset(e.sw) = 0 THEN 0 ELSE ToReset(e.sw) - 1
      BY <2>4, <2>5, ToResetFalls
    <3> QED BY <2>1, <3>1
  <2>7. ToReset(f.hw) = 0 \/ ToReset(f.hw) + k <= 6
    <3>1. f.hw = nextState(e.hw, e.tms) /\ f.hw \in TapState
      BY <2>4, <2>5, MovesType DEF TargetMoves
    <3>2. CASE k = 1
      BY <3>1, <3>2, ToResetFalls
    <3>3. CASE k # 1
      <4>1. e.tms /\ (ToReset(e.hw) = 0 \/ ToReset(e.hw) + (k - 1) <= 6)
        BY <2>1, <3>3
      <4>2. /\ ToReset(e.hw) \in 0..5
            /\ ToReset(f.hw) = IF ToReset(e.hw) = 0 THEN 0 ELSE ToReset(e.hw) - 1
        BY <2>5, <3>1, <4>1, ToResetFalls DEF nextState
      <4> QED BY <4>1, <4>2
    <3> QED BY <3>2, <3>3
  <2>8. /\ f.kind = "reset" /\ (f.done <=> k = N) /\ (k # N => f.resetCounter = k)
    <3>1. e.resetCounter + 1 = k
      BY <2>5
    <3>2. k # N => k % N = k
      OBVIOUS
    <3>3. f.resetCounter = k % N /\ (f.done <=> k = N)
      BY <2>4, <3>1
    <3> QED BY <2>1, <2>4, <3>2, <3>3
  <2>9. Settling(f, k)
    BY <2>4, <2>6, <2>7, <2>8
  <2> HIDE DEF Settling
  <2> QED BY <2>2, <2>3, <2>9
<1>6. Settling(Run(start, N), N)
  <2>1. \A k \in 1..N : k - 1 \in S => k \in S
    BY <1>5
  <2> HIDE DEF S, Settling
  <2>2. \A k \in 0..N : k \in S
    BY <1>4, <2>1, UpTo
  <2>3. N \in S
    BY <2>2
  <2> QED BY <2>3 DEF S
<1> DEFINE e == Run(start, N)
<1>7. /\ e \in JtagState /\ e.done /\ e.tms
      /\ ToReset(e.sw) = 0 \/ ToReset(e.sw) + N <= 5
      /\ ToReset(e.hw) = 0 \/ ToReset(e.hw) + N <= 6
  BY <1>6
<1> HIDE DEF e
<1>8. e.sw \in TapState /\ e.hw \in TapState /\ ToReset(e.sw) \in 0..5 /\ ToReset(e.hw) \in 0..5
  BY <1>7, ToResetFalls DEF JtagState
<1>9. e.sw = TEST_LOGIC_RESET /\ mapHigh(e.hw) = TEST_LOGIC_RESET
  <2>1. ToReset(e.sw) = 0 /\ ToReset(e.hw) <= 1
    BY <1>7, <1>8
  <2> QED BY <1>8, <2>1, ToResetFalls
<1>10. InStep(e)
  BY <1>7, <1>9 DEF InStep, nextState
<1> QED BY <1>3, <1>7, <1>9, <1>10 DEF e

\* Until the first scan TMS is low, and at most the TAP goes on to Run-Test/Idle.
LEMMA IdleReady ==
  ASSUME NEW j, Ready(j), j.sw = TEST_LOGIC_RESET, NEW n \in Nat
  PROVE  Ready(Idle(j, n))
<1> DEFINE S == {k \in 0..n : Ready(Idle(j, k)) /\ Idle(j, k).sw = TEST_LOGIC_RESET}
<1>1. 0 \in S
  BY IdleNext
<1>2. ASSUME NEW k \in 1..n, k - 1 \in S PROVE k \in S
  <2> DEFINE e == Idle(j, k - 1)
             f == IdleEdge(e)
  <2>1. Ready(e) /\ e.sw = TEST_LOGIC_RESET
    BY <1>2
  <2>2. Idle(j, k) = f
    <3>1. k - 1 \in Nat /\ k - 1 + 1 = k
      OBVIOUS
    <3>2. Idle(j, k - 1 + 1) = IdleEdge(Idle(j, k - 1))
      BY <3>1, IdleNext
    <3> QED BY <3>1, <3>2
  <2> HIDE DEF e
  <2>3. e \in JtagState /\ nextState(e.hw, e.tms) \in {TEST_LOGIC_RESET, RUN_TEST_IDLE}
    <3>1. TEST_LOGIC_RESET # Tap("SELECT", "DR")
      BY DEF TEST_LOGIC_RESET, Tap
    <3> QED BY <2>1, <3>1 DEF Ready
  <2>4. /\ f \in JtagState /\ TargetMoves(e, f)
        /\ f.sw = e.sw /\ f.tms = targetState(e.sw, RUN_TEST_IDLE)
    BY <2>3, IdleEdgeIs
  <2> HIDE DEF f
  <2>5. ~f.tms
    BY <2>1, <2>4, TargetStates DEF ScanKind
  <2>6. f.hw \in {TEST_LOGIC_RESET, RUN_TEST_IDLE}
    BY <2>3, <2>4 DEF TargetMoves
  <2>7. nextState(f.hw, f.tms) = RUN_TEST_IDLE
    BY <2>5, <2>6, TapMoves DEF nextState, ScanKind
  <2>8. Ready(f) /\ f.sw = TEST_LOGIC_RESET
    BY <2>1, <2>4, <2>7 DEF Ready
  <2> QED BY <2>2, <2>8
<1>3. n \in S
  <2>1. \A k \in 1..n : k - 1 \in S => k \in S
    BY <1>2
  <2> HIDE DEF S
  <2>2. \A k \in 0..n : k \in S
    BY <1>1, <2>1, UpTo
  <2> QED BY <2>2
<1> QED BY <1>3

LEMMA StartState ==
  ASSUME NEW sw \in TapState, NEW hw \in TapState, NEW tms \in BOOLEAN
  PROVE  Start(sw, hw, tms) \in JtagState /\ Start(sw, hw, tms).resetCounter = 0
<1>1. <<FALSE>> \in SomeBits /\ <<>> \in Seq(BOOLEAN)
  BY DEF SomeBits
<1> QED BY <1>1 DEF Start, JtagState, ScanKind

\* Here with the TAP and the state machine at the start of an action.
LEMMA ResetRightHolds == ResetRight
<1> SUFFICES ASSUME NEW sw \in TapState, NEW hw \in TapState, NEW tms \in BOOLEAN
             PROVE  LET j == Reset(Start(sw, hw, tms)) IN
                      j.done /\ InStep(j) /\ j.sw = TEST_LOGIC_RESET
  BY DEF ResetRight
<1> DEFINE start == Start(sw, hw, tms)
<1>1. start \in JtagState /\ start.resetCounter = 0
  BY StartState
<1> HIDE DEF start
<1>2. Reset(start).done /\ InStep(Reset(start)) /\ Reset(start).sw = TEST_LOGIC_RESET
  BY <1>1, LinkAssumption, ResetSettles
<1> QED BY <1>2 DEF start

\* Two scans, one behind the other, after a reset and some idle edges.
LEMMA ScanRightHolds == ScanRight
<1> SUFFICES ASSUME NEW first \in ScanKind, NEW kind \in ScanKind, NEW in \in Bits, NEW n \in 0..3,
                    NEW captured \in [DOMAIN in -> BOOLEAN]
             PROVE  LET ready == Idle(Reset(Start(TEST_LOGIC_RESET, RUN_TEST_IDLE, FALSE)), n)
                        once == Scan(ready, first, captured, in)
                    IN /\ Exchanged(Scan(ready, kind, in, captured), in, captured)
                       /\ Exchanged(once, captured, in)
                       /\ Exchanged(Scan(once, kind, in, captured), in, captured)
  BY DEF ScanRight
<1> DEFINE start == Start(TEST_LOGIC_RESET, RUN_TEST_IDLE, FALSE)
           reset == Reset(start)
           ready == Idle(reset, n)
           once == Scan(ready, first, captured, in)
<1>1. start \in JtagState /\ start.resetCounter = 0
  <2>1. TEST_LOGIC_RESET \in TapState /\ RUN_TEST_IDLE \in TapState
    BY DEF TapState
  <2> QED BY <2>1, StartState
<1> HIDE DEF start
<1>2. reset \in JtagState /\ InStep(reset) /\ reset.sw = TEST_LOGIC_RESET
  BY <1>1, LinkAssumption, ResetSettles
<1> HIDE DEF reset
<1>3. Ready(reset)
  BY <1>2 DEF Ready, InStep
<1>4. Ready(ready)
  BY <1>2, <1>3, IdleReady
<1> HIDE DEF ready
<1>5. in \in SomeBits /\ captured \in SomeBits /\ Len(captured) = Len(in)
  <2>1. PICK m \in 1..3 : in \in [1..m -> BOOLEAN]
    BY DEF Bits
  <2>2. in \in Seq(BOOLEAN) /\ Len(in) = m /\ captured \in Seq(BOOLEAN) /\ Len(captured) = m
    BY <2>1
  <2>3. in # <<>> /\ captured # <<>>
    BY <2>2
  <2> QED BY <2>2, <2>3 DEF SomeBits
<1>6. Exchanged(Scan(ready, kind, in, captured), in, captured)
  BY <1>4, <1>5, ScanExchanges
<1>7. Exchanged(once, captured, in) /\ Ready(once)
  BY <1>4, <1>5, ScanExchanges
<1> HIDE DEF once
<1>8. Exchanged(Scan(once, kind, in, captured), in, captured)
  BY <1>5, <1>7, ScanExchanges
<1> QED BY <1>6, <1>7, <1>8 DEF once, ready, reset, start

\* After a scan no idle edge, and no number of them, leads to Run-Test/Idle: the TAP
\* of the target goes to Test-Logic-Reset, and the state machine, which stays where
\* it is, never finds back (JtagSC::processActions).
THEOREM IdleAlwaysLoses ==
  ASSUME NEW j, Ready(j), j.sw = Tap("SELECT", "DR"), NEW n \in Nat \ {0}
  PROVE  ~InStep(Idle(j, n))
<1> DEFINE Ahead == {Tap("SELECT", "DR"), Tap("SELECT", "IR"), TEST_LOGIC_RESET}
           Lost(e) == /\ e \in JtagState /\ e.sw = Tap("SELECT", "DR")
                      /\ nextState(e.hw, e.tms) \in Ahead
           S == {k \in 0..n : Lost(Idle(j, k)) /\ (k # 0 => ~InStep(Idle(j, k)))}
<1>1. 0 \in S
  <2>1. nextState(j.hw, j.tms) = Tap("SELECT", "DR") /\ j \in JtagState
    <3>1. Tap("SELECT", "DR") # TEST_LOGIC_RESET
      BY DEF TEST_LOGIC_RESET, Tap
    <3> QED BY <3>1 DEF Ready, InStep
  <2>2. Lost(j)
    BY <2>1
  <2> HIDE DEF Lost
  <2> QED BY <2>2, IdleNext
<1>2. ASSUME NEW k \in 1..n, k - 1 \in S PROVE k \in S
  <2> DEFINE e == Idle(j, k - 1)
             f == IdleEdge(e)
  <2>1. /\ e \in JtagState /\ e.sw = Tap("SELECT", "DR")
        /\ nextState(e.hw, e.tms) \in Ahead
    BY <1>2
  <2>2. Idle(j, k) = f
    <3>1. k - 1 \in Nat /\ k - 1 + 1 = k
      OBVIOUS
    <3>2. Idle(j, k - 1 + 1) = IdleEdge(Idle(j, k - 1))
      BY <3>1, IdleNext
    <3> QED BY <3>1, <3>2
  <2> HIDE DEF e
  <2>3. /\ f \in JtagState /\ TargetMoves(e, f)
        /\ f.sw = e.sw /\ f.tms = targetState(e.sw, RUN_TEST_IDLE)
    BY <2>1, IdleEdgeIs
  <2> HIDE DEF f
  <2>4. f.tms
    BY <2>1, <2>3, TargetStates DEF ScanKind
  <2>5. f.hw \in Ahead
    BY <2>1, <2>3 DEF TargetMoves
  <2>6. nextState(f.hw, f.tms) \in {Tap("SELECT", "IR"), TEST_LOGIC_RESET}
    BY <2>4, <2>5, TapMoves DEF nextState, ScanKind
  <2>7. Tap("SELECT", "DR") \notin {Tap("SELECT", "IR"), TEST_LOGIC_RESET}
    BY DEF Tap, TEST_LOGIC_RESET
  <2>8. Lost(f) /\ ~InStep(f)
    BY <2>1, <2>3, <2>6, <2>7 DEF InStep
  <2> HIDE DEF Lost
  <2> QED BY <2>2, <2>8
<1>3. n \in S
  <2>1. \A k \in 1..n : k - 1 \in S => k \in S
    BY <1>2
  <2> HIDE DEF S
  <2>2. \A k \in 0..n : k \in S
    BY <1>1, <2>1, UpTo
  <2> QED BY <2>2
<1> QED BY <1>3

\* The scans of the run are among those.
LEMMA IdleAfterScanLosesHolds == IdleAfterScanLoses
<1> SUFFICES ASSUME NEW kind \in ScanKind, NEW n \in 1..3
             PROVE  LET once == Scan(Reset(Start(TEST_LOGIC_RESET, RUN_TEST_IDLE, FALSE)), kind, <<TRUE>>, <<TRUE>>)
                    IN ~InStep(Idle(once, n))
  BY DEF IdleAfterScanLoses
<1> DEFINE start == Start(TEST_LOGIC_RESET, RUN_TEST_IDLE, FALSE)
           reset == Reset(start)
           once == Scan(reset, kind, <<TRUE>>, <<TRUE>>)
<1>1. start \in JtagState /\ start.resetCounter = 0
  <2>1. TEST_LOGIC_RESET \in TapState /\ RUN_TEST_IDLE \in TapState
    BY DEF TapState
  <2> QED BY <2>1, StartState
<1> HIDE DEF start
<1>2. reset \in JtagState /\ InStep(reset) /\ reset.sw = TEST_LOGIC_RESET
  BY <1>1, LinkAssumption, ResetSettles
<1> HIDE DEF reset
<1>3. Ready(reset)
  BY <1>2 DEF Ready, InStep
<1>4. <<TRUE>> \in SomeBits
  BY DEF SomeBits
<1>5. Ready(once)
  BY <1>3, <1>4, ScanExchanges
<1>6. once.sw = Tap("SELECT", "DR")
  BY <1>3, <1>4, ScanEnds DEF Over
<1> HIDE DEF once
<1>7. n \in Nat \ {0}
  OBVIOUS
<1>8. ~InStep(Idle(once, n))
  BY <1>5, <1>6, <1>7, IdleAlwaysLoses
<1> QED BY <1>8 DEF once, reset, start

-----------------------------------------------------------------------------
(* What is computed of one more character (putPkt, getPkt, rspUnescape).   *)

\* The sum of the characters.
LEMMA SumNext ==
  ASSUME NEW T, NEW s \in Seq(T), NEW ch \in T
  PROVE  Packet!Checksum(<<>>) = 0 /\ Packet!Checksum(Append(s, ch)) = (Packet!Checksum(s) + ch) % 256
<1> DEFINE Solves(r, m, c) == r = [n \in 0..m |-> IF n = 0 THEN 0 ELSE (r[n - 1] + c[n]) % 256]
<1>1. ASSUME NEW M \in Nat, NEW c PROVE \E r : Solves(r, M, c)
  <2> DEFINE S == {m \in 0..M : \E r : Solves(r, m, c)}
  <2>1. 0 \in S
    <3>1. Solves([k \in 0..0 |-> 0], 0, c)
      OBVIOUS
    <3> HIDE DEF Solves
    <3> QED BY <3>1
  <2>2. ASSUME NEW m \in 1..M, m - 1 \in S PROVE m \in S
    <3>1. PICK q : Solves(q, m - 1, c)
      BY <2>2
    <3> DEFINE last == (q[m - 1] + c[m]) % 256
               r == [n \in 0..m |-> IF n = m THEN last ELSE q[n]]
    <3>2. ASSUME NEW n \in 0..m PROVE r[n] = IF n = 0 THEN 0 ELSE (r[n - 1] + c[n]) % 256
      <4>1. n \in 0..(m - 1) => q[n] = IF n = 0 THEN 0 ELSE (q[n - 1] + c[n]) % 256
        BY <3>1
      <4>2. n # 0 => n - 1 \in 0..m /\ n - 1 # m
        OBVIOUS
      <4>3. n # m => n \in 0..(m - 1)
        OBVIOUS
      <4> QED BY <4>1, <4>2, <4>3
    <3>3. Solves(r, m, c)
      <4>1. r = [n \in 0..m |-> r[n]]
        OBVIOUS
      <4> HIDE DEF r
      <4> QED BY <3>2, <4>1
    <3> HIDE DEF r, Solves
    <3> QED BY <3>3
  <2> HIDE DEF S
  <2>3. Climbs(S, M)
    BY <2>1, <2>2 DEF Climbs
  <2>4. M \in S
    BY <2>3, UpToEnd
  <2> QED BY <2>4 DEF S
<1>2. ASSUME NEW c, Len(c) \in Nat PROVE \E r : Solves(r, Len(c), c) /\ Packet!Checksum(c) = r[Len(c)]
  <2> DEFINE sum == CHOOSE sum : sum = [n \in 0..Len(c) |-> IF n = 0 THEN 0 ELSE (sum[n - 1] + c[n]) % 256]
  <2>1. sum = [n \in 0..Len(c) |-> IF n = 0 THEN 0 ELSE (sum[n - 1] + c[n]) % 256]
    BY <1>1, <1>2
  <2>2. Packet!Checksum(c) = sum[Len(c)]
    BY DEF Packet!Checksum
  <2> HIDE DEF sum
  <2>3. Solves(sum, Len(c), c)
    BY <2>1
  <2> QED BY <2>2, <2>3
<1> DEFINE t == Append(s, ch)
           N == Len(s)
<1>3. /\ N \in Nat /\ Len(t) = N + 1 /\ t[N + 1] = ch /\ \A n \in 1..N : t[n] = s[n]
  BY AppendProperties, LenProperties
<1>4. Packet!Checksum(<<>>) = 0
  <2>1. Len(<<>>) = 0
    OBVIOUS
  <2>2. PICK r : Solves(r, 0, <<>>) /\ Packet!Checksum(<<>>) = r[0]
    BY <1>2, <2>1
  <2> QED BY <2>2
<1> HIDE DEF t, N
<1>5. PICK q : Solves(q, N, s) /\ Packet!Checksum(s) = q[N]
  BY <1>2, <1>3 DEF N
<1>6. PICK r : Solves(r, N + 1, t) /\ Packet!Checksum(t) = r[N + 1]
  <2>1. Len(t) = N + 1 /\ Len(t) \in Nat
    BY <1>3
  <2>2. PICK r : Solves(r, Len(t), t) /\ Packet!Checksum(t) = r[Len(t)]
    BY <1>2, <2>1
  <2> QED BY <2>1, <2>2
<1>7. q[N] = r[N]
  <2> DEFINE S == {n \in 0..N : q[n] = r[n]}
  <2>1. 0 \in S
    BY <1>3, <1>5, <1>6
  <2>2. ASSUME NEW n \in 1..N, n - 1 \in S PROVE n \in S
    <3>1. q[n] = (q[n - 1] + s[n]) % 256
      BY <1>3, <1>5
    <3>2. r[n] = (r[n - 1] + t[n]) % 256
      BY <1>3, <1>6
    <3>3. q[n - 1] = r[n - 1] /\ t[n] = s[n]
      BY <1>3, <2>2
    <3> QED BY <3>1, <3>2, <3>3
  <2> HIDE DEF S
  <2>3. Climbs(S, N)
    BY <2>1, <2>2 DEF Climbs
  <2>4. N \in S
    BY <1>3, <2>3, UpToEnd
  <2> QED BY <2>4 DEF S
<1>8. r[N + 1] = (r[N] + ch) % 256
  BY <1>3, <1>6
<1> QED BY <1>4, <1>5, <1>6, <1>7, <1>8 DEF t

\* What is sent for them.
LEMMA EscapedNext ==
  ASSUME NEW T, NEW s \in Seq(T), NEW ch \in T
  PROVE  Packet!Escaped(<<>>) = <<>> /\ Packet!Escaped(Append(s, ch)) = Packet!PutChar(Packet!Escaped(s), ch)
<1> DEFINE Solves(r, m, c) == r = [n \in 0..m |-> IF n = 0 THEN <<>> ELSE Packet!PutChar(r[n - 1], c[n])]
<1>1. ASSUME NEW M \in Nat, NEW c PROVE \E r : Solves(r, M, c)
  <2> DEFINE S == {m \in 0..M : \E r : Solves(r, m, c)}
  <2>1. 0 \in S
    <3>1. Solves([k \in 0..0 |-> <<>>], 0, c)
      OBVIOUS
    <3> HIDE DEF Solves
    <3> QED BY <3>1
  <2>2. ASSUME NEW m \in 1..M, m - 1 \in S PROVE m \in S
    <3>1. PICK q : Solves(q, m - 1, c)
      BY <2>2
    <3> DEFINE last == Packet!PutChar(q[m - 1], c[m])
               r == [n \in 0..m |-> IF n = m THEN last ELSE q[n]]
    <3>2. ASSUME NEW n \in 0..m PROVE r[n] = IF n = 0 THEN <<>> ELSE Packet!PutChar(r[n - 1], c[n])
      <4>1. n \in 0..(m - 1) => q[n] = IF n = 0 THEN <<>> ELSE Packet!PutChar(q[n - 1], c[n])
        BY <3>1
      <4>2. n # 0 => n - 1 \in 0..m /\ n - 1 # m
        OBVIOUS
      <4>3. n # m => n \in 0..(m - 1)
        OBVIOUS
      <4> QED BY <4>1, <4>2, <4>3
    <3>3. Solves(r, m, c)
      <4>1. r = [n \in 0..m |-> r[n]]
        OBVIOUS
      <4> HIDE DEF r
      <4> QED BY <3>2, <4>1
    <3> HIDE DEF r, Solves
    <3> QED BY <3>3
  <2> HIDE DEF S
  <2>3. Climbs(S, M)
    BY <2>1, <2>2 DEF Climbs
  <2>4. M \in S
    BY <2>3, UpToEnd
  <2> QED BY <2>4 DEF S
<1>2. ASSUME NEW c, Len(c) \in Nat PROVE \E r : Solves(r, Len(c), c) /\ Packet!Escaped(c) = r[Len(c)]
  <2> DEFINE body == CHOOSE body : body = [n \in 0..Len(c) |-> IF n = 0 THEN <<>> ELSE Packet!PutChar(body[n - 1], c[n])]
  <2>1. body = [n \in 0..Len(c) |-> IF n = 0 THEN <<>> ELSE Packet!PutChar(body[n - 1], c[n])]
    BY <1>1, <1>2
  <2>2. Packet!Escaped(c) = body[Len(c)]
    BY DEF Packet!Escaped
  <2> HIDE DEF body
  <2>3. Solves(body, Len(c), c)
    BY <2>1
  <2> QED BY <2>2, <2>3
<1> DEFINE t == Append(s, ch)
           N == Len(s)
<1>3. /\ N \in Nat /\ Len(t) = N + 1 /\ t[N + 1] = ch /\ \A n \in 1..N : t[n] = s[n]
  BY AppendProperties, LenProperties
<1>4. Packet!Escaped(<<>>) = <<>>
  <2>1. Len(<<>>) = 0
    OBVIOUS
  <2>2. PICK r : Solves(r, 0, <<>>) /\ Packet!Escaped(<<>>) = r[0]
    BY <1>2, <2>1
  <2> QED BY <2>2
<1> HIDE DEF t, N
<1>5. PICK q : Solves(q, N, s) /\ Packet!Escaped(s) = q[N]
  BY <1>2, <1>3 DEF N
<1>6. PICK r : Solves(r, N + 1, t) /\ Packet!Escaped(t) = r[N + 1]
  <2>1. Len(t) = N + 1 /\ Len(t) \in Nat
    BY <1>3
  <2>2. PICK r : Solves(r, Len(t), t) /\ Packet!Escaped(t) = r[Len(t)]
    BY <1>2, <2>1
  <2> QED BY <2>1, <2>2
<1>7. q[N] = r[N]
  <2> DEFINE S == {n \in 0..N : q[n] = r[n]}
  <2>1. 0 \in S
    BY <1>3, <1>5, <1>6
  <2>2. ASSUME NEW n \in 1..N, n - 1 \in S PROVE n \in S
    <3>1. q[n] = Packet!PutChar(q[n - 1], s[n])
      BY <1>3, <1>5
    <3>2. r[n] = Packet!PutChar(r[n - 1], t[n])
      BY <1>3, <1>6
    <3>3. q[n - 1] = r[n - 1] /\ t[n] = s[n]
      BY <1>3, <2>2
    <3> QED BY <3>1, <3>2, <3>3
  <2> HIDE DEF S
  <2>3. Climbs(S, N)
    BY <2>1, <2>2 DEF Climbs
  <2>4. N \in S
    BY <1>3, <2>3, UpToEnd
  <2> QED BY <2>4 DEF S
<1>8. r[N + 1] = Packet!PutChar(r[N], ch)
  BY <1>3, <1>6
<1> QED BY <1>4, <1>5, <1>6, <1>7, <1>8 DEF t

\* The receiver behind them.
LEMMA GetPktNext ==
  ASSUME NEW T, NEW s \in Seq(T), NEW ch \in T
  PROVE  Packet!getPkt(<<>>) = Packet!Receiver /\ Packet!getPkt(Append(s, ch)) = Packet!getRspChar(Packet!getPkt(s), ch)
<1> DEFINE Solves(r, m, c) == r = [n \in 0..m |-> IF n = 0 THEN Packet!Receiver ELSE Packet!getRspChar(r[n - 1], c[n])]
<1>1. ASSUME NEW M \in Nat, NEW c PROVE \E r : Solves(r, M, c)
  <2> DEFINE S == {m \in 0..M : \E r : Solves(r, m, c)}
  <2>1. 0 \in S
    <3>1. Solves([k \in 0..0 |-> Packet!Receiver], 0, c)
      OBVIOUS
    <3> HIDE DEF Solves
    <3> QED BY <3>1
  <2>2. ASSUME NEW m \in 1..M, m - 1 \in S PROVE m \in S
    <3>1. PICK q : Solves(q, m - 1, c)
      BY <2>2
    <3> DEFINE last == Packet!getRspChar(q[m - 1], c[m])
               r == [n \in 0..m |-> IF n = m THEN last ELSE q[n]]
    <3>2. ASSUME NEW n \in 0..m PROVE r[n] = IF n = 0 THEN Packet!Receiver ELSE Packet!getRspChar(r[n - 1], c[n])
      <4>1. n \in 0..(m - 1) => q[n] = IF n = 0 THEN Packet!Receiver ELSE Packet!getRspChar(q[n - 1], c[n])
        BY <3>1
      <4>2. n # 0 => n - 1 \in 0..m /\ n - 1 # m
        OBVIOUS
      <4>3. n # m => n \in 0..(m - 1)
        OBVIOUS
      <4> QED BY <4>1, <4>2, <4>3
    <3>3. Solves(r, m, c)
      <4>1. r = [n \in 0..m |-> r[n]]
        OBVIOUS
      <4> HIDE DEF r
      <4> QED BY <3>2, <4>1
    <3> HIDE DEF r, Solves
    <3> QED BY <3>3
  <2> HIDE DEF S
  <2>3. Climbs(S, M)
    BY <2>1, <2>2 DEF Climbs
  <2>4. M \in S
    BY <2>3, UpToEnd
  <2> QED BY <2>4 DEF S
<1>2. ASSUME NEW c, Len(c) \in Nat PROVE \E r : Solves(r, Len(c), c) /\ Packet!getPkt(c) = r[Len(c)]
  <2> DEFINE after == CHOOSE after : after = [n \in 0..Len(c) |-> IF n = 0 THEN Packet!Receiver ELSE Packet!getRspChar(after[n - 1], c[n])]
  <2>1. after = [n \in 0..Len(c) |-> IF n = 0 THEN Packet!Receiver ELSE Packet!getRspChar(after[n - 1], c[n])]
    BY <1>1, <1>2
  <2>2. Packet!getPkt(c) = after[Len(c)]
    BY DEF Packet!getPkt
  <2> HIDE DEF after
  <2>3. Solves(after, Len(c), c)
    BY <2>1
  <2> QED BY <2>2, <2>3
<1> DEFINE t == Append(s, ch)
           N == Len(s)
<1>3. /\ N \in Nat /\ Len(t) = N + 1 /\ t[N + 1] = ch /\ \A n \in 1..N : t[n] = s[n]
  BY AppendProperties, LenProperties
<1>4. Packet!getPkt(<<>>) = Packet!Receiver
  <2>1. Len(<<>>) = 0
    OBVIOUS
  <2>2. PICK r : Solves(r, 0, <<>>) /\ Packet!getPkt(<<>>) = r[0]
    BY <1>2, <2>1
  <2> QED BY <2>2
<1> HIDE DEF t, N
<1>5. PICK q : Solves(q, N, s) /\ Packet!getPkt(s) = q[N]
  BY <1>2, <1>3 DEF N
<1>6. PICK r : Solves(r, N + 1, t) /\ Packet!getPkt(t) = r[N + 1]
  <2>1. Len(t) = N + 1 /\ Len(t) \in Nat
    BY <1>3
  <2>2. PICK r : Solves(r, Len(t), t) /\ Packet!getPkt(t) = r[Len(t)]
    BY <1>2, <2>1
  <2> QED BY <2>1, <2>2
<1>7. q[N] = r[N]
  <2> DEFINE S == {n \in 0..N : q[n] = r[n]}
  <2>1. 0 \in S
    BY <1>3, <1>5, <1>6
  <2>2. ASSUME NEW n \in 1..N, n - 1 \in S PROVE n \in S
    <3>1. q[n] = Packet!getRspChar(q[n - 1], s[n])
      BY <1>3, <1>5
    <3>2. r[n] = Packet!getRspChar(r[n - 1], t[n])
      BY <1>3, <1>6
    <3>3. q[n - 1] = r[n - 1] /\ t[n] = s[n]
      BY <1>3, <2>2
    <3> QED BY <3>1, <3>2, <3>3
  <2> HIDE DEF S
  <2>3. Climbs(S, N)
    BY <2>1, <2>2 DEF Climbs
  <2>4. N \in S
    BY <1>3, <2>3, UpToEnd
  <2> QED BY <2>4 DEF S
<1>8. r[N + 1] = Packet!getRspChar(r[N], ch)
  BY <1>3, <1>6
<1> QED BY <1>4, <1>5, <1>6, <1>7, <1>8 DEF t

Unescaped0 == [escaped |-> FALSE, out |-> <<>>]

\* What has been taken out of them.
LEMMA UnescapeNext ==
  ASSUME NEW T, NEW s \in Seq(T), NEW ch \in T
  PROVE  Packet!UnescapeAll(<<>>) = Unescaped0 /\ Packet!UnescapeAll(Append(s, ch)) = Packet!Unescape(Packet!UnescapeAll(s), ch)
<1> DEFINE Solves(r, m, c) == r = [n \in 0..m |-> IF n = 0 THEN Unescaped0 ELSE Packet!Unescape(r[n - 1], c[n])]
<1>1. ASSUME NEW M \in Nat, NEW c PROVE \E r : Solves(r, M, c)
  <2> DEFINE S == {m \in 0..M : \E r : Solves(r, m, c)}
  <2>1. 0 \in S
    <3>1. Solves([k \in 0..0 |-> Unescaped0], 0, c)
      OBVIOUS
    <3> HIDE DEF Solves
    <3> QED BY <3>1
  <2>2. ASSUME NEW m \in 1..M, m - 1 \in S PROVE m \in S
    <3>1. PICK q : Solves(q, m - 1, c)
      BY <2>2
    <3> DEFINE last == Packet!Unescape(q[m - 1], c[m])
               r == [n \in 0..m |-> IF n = m THEN last ELSE q[n]]
    <3>2. ASSUME NEW n \in 0..m PROVE r[n] = IF n = 0 THEN Unescaped0 ELSE Packet!Unescape(r[n - 1], c[n])
      <4>1. n \in 0..(m - 1) => q[n] = IF n = 0 THEN Unescaped0 ELSE Packet!Unescape(q[n - 1], c[n])
        BY <3>1
      <4>2. n # 0 => n - 1 \in 0..m /\ n - 1 # m
        OBVIOUS
      <4>3. n # m => n \in 0..(m - 1)
        OBVIOUS
      <4> QED BY <4>1, <4>2, <4>3
    <3>3. Solves(r, m, c)
      <4>1. r = [n \in 0..m |-> r[n]]
        OBVIOUS
      <4> HIDE DEF r
      <4> QED BY <3>2, <4>1
    <3> HIDE DEF r, Solves
    <3> QED BY <3>3
  <2> HIDE DEF S
  <2>3. Climbs(S, M)
    BY <2>1, <2>2 DEF Climbs
  <2>4. M \in S
    BY <2>3, UpToEnd
  <2> QED BY <2>4 DEF S
<1>2. ASSUME NEW c, Len(c) \in Nat PROVE \E r : Solves(r, Len(c), c) /\ Packet!UnescapeAll(c) = r[Len(c)]
  <2> DEFINE after == CHOOSE after : after = [n \in 0..Len(c) |-> IF n = 0 THEN Unescaped0 ELSE Packet!Unescape(after[n - 1], c[n])]
  <2>1. after = [n \in 0..Len(c) |-> IF n = 0 THEN Unescaped0 ELSE Packet!Unescape(after[n - 1], c[n])]
    BY <1>1, <1>2
  <2>2. Packet!UnescapeAll(c) = after[Len(c)]
    BY DEF Packet!UnescapeAll, Unescaped0
  <2> HIDE DEF after
  <2>3. Solves(after, Len(c), c)
    BY <2>1
  <2> QED BY <2>2, <2>3
<1> DEFINE t == Append(s, ch)
           N == Len(s)
<1>3. /\ N \in Nat /\ Len(t) = N + 1 /\ t[N + 1] = ch /\ \A n \in 1..N : t[n] = s[n]
  BY AppendProperties, LenProperties
<1>4. Packet!UnescapeAll(<<>>) = Unescaped0
  <2>1. Len(<<>>) = 0
    OBVIOUS
  <2>2. PICK r : Solves(r, 0, <<>>) /\ Packet!UnescapeAll(<<>>) = r[0]
    BY <1>2, <2>1
  <2> QED BY <2>2
<1> HIDE DEF t, N
<1>5. PICK q : Solves(q, N, s) /\ Packet!UnescapeAll(s) = q[N]
  BY <1>2, <1>3 DEF N
<1>6. PICK r : Solves(r, N + 1, t) /\ Packet!UnescapeAll(t) = r[N + 1]
  <2>1. Len(t) = N + 1 /\ Len(t) \in Nat
    BY <1>3
  <2>2. PICK r : Solves(r, Len(t), t) /\ Packet!UnescapeAll(t) = r[Len(t)]
    BY <1>2, <2>1
  <2> QED BY <2>1, <2>2
<1>7. q[N] = r[N]
  <2> DEFINE S == {n \in 0..N : q[n] = r[n]}
  <2>1. 0 \in S
    BY <1>3, <1>5, <1>6
  <2>2. ASSUME NEW n \in 1..N, n - 1 \in S PROVE n \in S
    <3>1. q[n] = Packet!Unescape(q[n - 1], s[n])
      BY <1>3, <1>5
    <3>2. r[n] = Packet!Unescape(r[n - 1], t[n])
      BY <1>3, <1>6
    <3>3. q[n - 1] = r[n - 1] /\ t[n] = s[n]
      BY <1>3, <2>2
    <3> QED BY <3>1, <3>2, <3>3
  <2> HIDE DEF S
  <2>3. Climbs(S, N)
    BY <2>1, <2>2 DEF Climbs
  <2>4. N \in S
    BY <1>3, <2>3, UpToEnd
  <2> QED BY <2>4 DEF S
<1>8. r[N + 1] = Packet!Unescape(r[N], ch)
  BY <1>3, <1>6
<1> QED BY <1>4, <1>5, <1>6, <1>7, <1>8 DEF t

-----------------------------------------------------------------------------
(* The characters of a packet.                                             *)

Byte == 0..255

\* Those that stand for nothing else than themselves in the body of a packet.
BodyChar == Byte \ {Packet!StartChar, Packet!EndChar}

LEMMA ByteIsNat == \A b \in Byte : b \in Nat /\ b < 256
BY DEF Byte

\* The start of a sequence, one element longer.
LEMMA Longer ==
  ASSUME NEW T, NEW s \in Seq(T), NEW n \in 1..Len(s)
  PROVE  /\ SubSeq(s, 1, n) = Append(SubSeq(s, 1, n - 1), s[n])
         /\ SubSeq(s, 1, n - 1) \in Seq(T) /\ Len(SubSeq(s, 1, n - 1)) = n - 1 /\ s[n] \in T
<1>1. Len(s) \in Nat /\ \A i \in 1..Len(s) : s[i] \in T
  BY LenProperties, ElementOfSeq
<1>2. /\ SubSeq(s, 1, n) \in Seq(T) /\ Len(SubSeq(s, 1, n)) = n
      /\ \A i \in 1..n : SubSeq(s, 1, n)[i] = s[i]
  BY <1>1, SubSeqProperties
<1>3. /\ SubSeq(s, 1, n - 1) \in Seq(T) /\ Len(SubSeq(s, 1, n - 1)) = n - 1
      /\ \A i \in 1..(n - 1) : SubSeq(s, 1, n - 1)[i] = s[i]
  BY <1>1, SubSeqProperties
<1> DEFINE long == SubSeq(s, 1, n)
           short == SubSeq(s, 1, n - 1)
           more == Append(short, s[n])
<1> HIDE DEF long, short
<1>4. /\ more \in Seq(T) /\ Len(more) = n /\ more[n] = s[n]
      /\ \A i \in 1..(n - 1) : more[i] = s[i]
  BY <1>1, <1>3, AppendProperties DEF short
<1> HIDE DEF more
<1>5. \A i \in 1..Len(long) : long[i] = more[i]
  BY <1>1, <1>2, <1>4 DEF long
<1>6. long = more
  BY <1>2, <1>4, <1>5, SeqEqual DEF long
<1> QED BY <1>1, <1>3, <1>6 DEF long, more, short

LEMMA WholeSequence ==
  ASSUME NEW T, NEW s \in Seq(T)
  PROVE  SubSeq(s, 1, 0) = <<>> /\ SubSeq(s, 1, Len(s)) = s /\ Len(s) \in Nat
BY SubSeqFull, SubSeqEmpty, LenProperties

\* The checksum is a byte.
LEMMA SumIsByte ==
  ASSUME NEW s \in Seq(Byte) PROVE Packet!Checksum(s) \in Byte
<1> DEFINE Good(n) == Packet!Checksum(SubSeq(s, 1, n)) \in Byte
           S == {n \in 0..Len(s) : Good(n)}
<1>1. Len(s) \in Nat /\ SubSeq(s, 1, 0) = <<>> /\ SubSeq(s, 1, Len(s)) = s
  BY WholeSequence
<1>2. 0 \in S
  <2>1. <<>> \in Seq(Byte) /\ 0 \in Byte
    BY DEF Byte
  <2>2. Packet!Checksum(<<>>) = 0
    BY <2>1, SumNext
  <2>3. Good(0)
    BY <1>1, <2>1, <2>2
  <2> HIDE DEF Good
  <2> QED BY <1>1, <2>3
<1>3. ASSUME NEW n \in 1..Len(s), n - 1 \in S PROVE n \in S
  <2> DEFINE p == SubSeq(s, 1, n - 1)
  <2>1. /\ SubSeq(s, 1, n) = Append(p, s[n]) /\ p \in Seq(Byte) /\ s[n] \in Byte
    BY Longer
  <2>2. Packet!Checksum(p) \in Byte
    BY <1>3
  <2> HIDE DEF p
  <2>3. Packet!Checksum(Append(p, s[n])) = (Packet!Checksum(p) + s[n]) % 256
    BY <2>1, SumNext
  <2> DEFINE sum == Packet!Checksum(p) + s[n]
  <2>4. sum \in Nat
    <3>1. Packet!Checksum(p) \in Nat /\ s[n] \in Nat
      BY <2>1, <2>2, ByteIsNat
    <3> QED BY <3>1
  <2> HIDE DEF sum
  <2>5. sum % 256 \in Byte
    BY <2>4 DEF Byte
  <2>6. Good(n)
    BY <2>1, <2>3, <2>5 DEF sum
  <2> HIDE DEF Good
  <2> QED BY <2>6
<1> HIDE DEF S, Good
<1>4. Climbs(S, Len(s))
  BY <1>2, <1>3 DEF Climbs
<1>5. Len(s) \in S
  BY <1>1, <1>4, UpToEnd
<1> QED BY <1>1, <1>5 DEF S, Good

LEMMA FlipTwice ==
  ASSUME NEW ch \in Packet!ToEscape
  PROVE  Packet!Flip(ch) \in BodyChar /\ Packet!Flip(Packet!Flip(ch)) = ch
<1>1. ch \in {36, 35, 125, 42}
  BY DEF Packet!ToEscape, Packet!StartChar, Packet!EndChar, Packet!EscChar
<1>2. Packet!Flip(36) = 4 /\ Packet!Flip(4) = 36
  BY DEF Packet!Flip
<1>3. Packet!Flip(35) = 3 /\ Packet!Flip(3) = 35
  BY DEF Packet!Flip
<1>4. Packet!Flip(125) = 93 /\ Packet!Flip(93) = 125
  BY DEF Packet!Flip
<1>5. Packet!Flip(42) = 10 /\ Packet!Flip(10) = 42
  BY DEF Packet!Flip
<1> QED BY <1>1, <1>2, <1>3, <1>4, <1>5 DEF BodyChar, Byte, Packet!StartChar, Packet!EndChar

\* Neither a start nor an end is left in the body of a packet, and what is put there
\* is taken out again, character by character.
EscapedRight(data) ==
  /\ Packet!Escaped(data) \in Seq(BodyChar)
  /\ Packet!UnescapeAll(Packet!Escaped(data)) = [escaped |-> FALSE, out |-> data]

LEMMA EscapeOne ==
  ASSUME NEW data \in Seq(Byte), NEW ch \in Byte, EscapedRight(data)
  PROVE  EscapedRight(Append(data, ch))
<1> DEFINE body == Packet!Escaped(data)
<1>1. body \in Seq(BodyChar) /\ Packet!UnescapeAll(body) = [escaped |-> FALSE, out |-> data]
  BY DEF EscapedRight
<1>2. Packet!Escaped(Append(data, ch)) = Packet!PutChar(body, ch)
  BY EscapedNext
<1> HIDE DEF body
<1>3. CASE ch \in Packet!ToEscape
  <2> DEFINE half == Append(body, Packet!EscChar)
             whole == Append(half, Packet!Flip(ch))
  <2>1. Packet!PutChar(body, ch) = whole
    BY <1>3 DEF Packet!PutChar
  <2>2. Packet!EscChar \in BodyChar
    BY DEF BodyChar, Byte, Packet!EscChar, Packet!StartChar, Packet!EndChar
  <2>3. half \in Seq(BodyChar)
    BY <1>1, <2>2, AppendProperties
  <2>4. Packet!UnescapeAll(half) = Packet!Unescape(Packet!UnescapeAll(body), Packet!EscChar)
    BY <1>1, <2>2, UnescapeNext
  <2>5. Packet!UnescapeAll(half) = [escaped |-> TRUE, out |-> data]
    BY <1>1, <2>4 DEF Packet!Unescape
  <2> HIDE DEF half
  <2>6. whole \in Seq(BodyChar)
    BY <1>3, <2>3, FlipTwice, AppendProperties
  <2>7. Packet!UnescapeAll(whole) = Packet!Unescape(Packet!UnescapeAll(half), Packet!Flip(ch))
    BY <1>3, <2>3, FlipTwice, UnescapeNext
  <2>8. Packet!UnescapeAll(whole) = [escaped |-> FALSE, out |-> Append(data, Packet!Flip(Packet!Flip(ch)))]
    BY <2>5, <2>7 DEF Packet!Unescape
  <2>9. Packet!Flip(Packet!Flip(ch)) = ch
    BY <1>3, FlipTwice
  <2> QED BY <1>2, <2>1, <2>6, <2>8, <2>9 DEF EscapedRight
<1>4. CASE ch \notin Packet!ToEscape
  <2> DEFINE whole == Append(body, ch)
  <2>1. Packet!PutChar(body, ch) = whole
    BY <1>4 DEF Packet!PutChar
  <2>2. ch \in BodyChar /\ ch # Packet!EscChar
    BY <1>4 DEF BodyChar, Packet!ToEscape
  <2>3. whole \in Seq(BodyChar)
    BY <1>1, <2>2, AppendProperties
  <2>4. Packet!UnescapeAll(whole) = Packet!Unescape(Packet!UnescapeAll(body), ch)
    BY <1>1, <2>2, UnescapeNext
  <2>5. Packet!UnescapeAll(whole) = [escaped |-> FALSE, out |-> Append(data, ch)]
    BY <1>1, <2>2, <2>4 DEF Packet!Unescape
  <2> QED BY <1>2, <2>1, <2>3, <2>5 DEF EscapedRight
<1> QED BY <1>3, <1>4

LEMMA EscapeAll ==
  ASSUME NEW data \in Seq(Byte) PROVE EscapedRight(data)
<1> DEFINE Good(n) == EscapedRight(SubSeq(data, 1, n))
           S == {n \in 0..Len(data) : Good(n)}
<1>1. Len(data) \in Nat /\ SubSeq(data, 1, 0) = <<>> /\ SubSeq(data, 1, Len(data)) = data
  BY WholeSequence
<1>2. 0 \in S
  <2>1. <<>> \in Seq(Byte) /\ 0 \in Byte /\ <<>> \in Seq(BodyChar)
    BY DEF Byte
  <2>2. Packet!Escaped(<<>>) = <<>> /\ Packet!UnescapeAll(<<>>) = Unescaped0
    BY <2>1, EscapedNext, UnescapeNext
  <2>3. EscapedRight(<<>>)
    BY <2>1, <2>2 DEF EscapedRight, Unescaped0
  <2>4. Good(0)
    BY <1>1, <2>3
  <2> HIDE DEF Good
  <2> QED BY <1>1, <2>4
<1>3. ASSUME NEW n \in 1..Len(data), n - 1 \in S PROVE n \in S
  <2> DEFINE p == SubSeq(data, 1, n - 1)
  <2>1. SubSeq(data, 1, n) = Append(p, data[n]) /\ p \in Seq(Byte) /\ data[n] \in Byte
    BY Longer
  <2>2. EscapedRight(p)
    BY <1>3
  <2> HIDE DEF p
  <2>3. EscapedRight(Append(p, data[n]))
    BY <2>1, <2>2, EscapeOne
  <2>4. Good(n)
    BY <2>1, <2>3
  <2> HIDE DEF Good
  <2> QED BY <2>4
<1> HIDE DEF S, Good
<1>4. Climbs(S, Len(data))
  BY <1>2, <1>3 DEF Climbs
<1>5. Len(data) \in S
  BY <1>1, <1>4, UpToEnd
<1> QED BY <1>1, <1>5 DEF S, Good

\* A digit is read as it is written, and is neither a start nor an end.
LEMMA DigitRight ==
  ASSUME NEW d \in 0..15
  PROVE  /\ Packet!char2Hex(Packet!hex2Char(d)) = d
         /\ Packet!hex2Char(d) \in BodyChar
BY DEF Packet!char2Hex, Packet!hex2Char, BodyChar, Byte, Packet!StartChar, Packet!EndChar

-----------------------------------------------------------------------------
(* What the receiver does with the characters it is fed.                   *)

\* The receiver r, fed with the characters b, has become q.
Feeds(r, b, q) == \A p \in Seq(Byte) : Packet!getPkt(p) = r => Packet!getPkt(p \o b) = q

LEMMA FeedsNone == \A r : Feeds(r, <<>>, r)
BY ConcatEmptySeq DEF Feeds

LEMMA FeedsBoth ==
  ASSUME NEW r, NEW q, NEW t, NEW a \in Seq(Byte), NEW b \in Seq(Byte),
         Feeds(r, a, q), Feeds(q, b, t)
  PROVE  Feeds(r, a \o b, t)
<1> SUFFICES ASSUME NEW p \in Seq(Byte), Packet!getPkt(p) = r
             PROVE  Packet!getPkt(p \o (a \o b)) = t
  BY DEF Feeds
<1>1. Packet!getPkt(p \o a) = q
  BY DEF Feeds
<1>2. p \o a \in Seq(Byte)
  BY ConcatProperties
<1>3. Packet!getPkt((p \o a) \o b) = t
  BY <1>1, <1>2 DEF Feeds
<1>4. (p \o a) \o b = p \o (a \o b)
  BY ConcatAssociative
<1> QED BY <1>3, <1>4

LEMMA FeedsOne ==
  ASSUME NEW r, NEW ch \in Byte
  PROVE  Feeds(r, <<ch>>, Packet!getRspChar(r, ch)) /\ <<ch>> \in Seq(Byte)
<1>1. ASSUME NEW p \in Seq(Byte), Packet!getPkt(p) = r
      PROVE  Packet!getPkt(p \o <<ch>>) = Packet!getRspChar(r, ch)
  <2>1. Append(p, ch) = p \o <<ch>>
    BY AppendIsConcat
  <2>2. Packet!getPkt(Append(p, ch)) = Packet!getRspChar(Packet!getPkt(p), ch)
    BY GetPktNext
  <2> QED BY <1>1, <2>1, <2>2
<1>2. Feeds(r, <<ch>>, Packet!getRspChar(r, ch))
  BY <1>1 DEF Feeds
<1>3. <<ch>> \in Seq(Byte)
  OBVIOUS
<1> QED BY <1>2, <1>3

LEMMA FeedsMore ==
  ASSUME NEW r, NEW q, NEW b \in Seq(Byte), NEW ch \in Byte, Feeds(r, b, q)
  PROVE  Feeds(r, Append(b, ch), Packet!getRspChar(q, ch))
<1>1. Feeds(q, <<ch>>, Packet!getRspChar(q, ch)) /\ <<ch>> \in Seq(Byte)
  BY FeedsOne
<1>2. Feeds(r, b \o <<ch>>, Packet!getRspChar(q, ch))
  BY <1>1, FeedsBoth
<1>3. Append(b, ch) = b \o <<ch>>
  BY AppendIsConcat
<1> QED BY <1>2, <1>3

LEMMA FeedsFirst ==
  ASSUME NEW q, NEW b \in Seq(Byte), Feeds(Packet!Receiver, b, q)
  PROVE  Packet!getPkt(b) = q
<1>1. <<>> \in Seq(Byte) /\ <<>> \o b = b /\ 0 \in Byte
  BY EmptySeq, ConcatEmptySeq DEF Byte
<1>2. Packet!getPkt(<<>>) = Packet!Receiver
  BY <1>1, GetPktNext
<1>3. Packet!getPkt(<<>> \o b) = q
  BY <1>1, <1>2 DEF Feeds
<1> QED BY <1>1, <1>3

\* What can be said of no characters, and of one more if it can be said of those
\* before it, can be said of all of them.
LEMMA AppendInduction ==
  ASSUME NEW T, NEW G, <<>> \in G, \A s \in Seq(T), e \in T : s \in G => Append(s, e) \in G,
         NEW s \in Seq(T)
  PROVE  s \in G
<1> DEFINE Good(n) == SubSeq(s, 1, n) \in G
           S == {n \in 0..Len(s) : Good(n)}
<1>1. Len(s) \in Nat /\ SubSeq(s, 1, 0) = <<>> /\ SubSeq(s, 1, Len(s)) = s
  BY WholeSequence
<1>2. 0 \in S
  <2>1. Good(0)
    BY <1>1
  <2> HIDE DEF Good
  <2> QED BY <1>1, <2>1
<1>3. ASSUME NEW n \in 1..Len(s), n - 1 \in S PROVE n \in S
  <2> DEFINE p == SubSeq(s, 1, n - 1)
  <2>1. SubSeq(s, 1, n) = Append(p, s[n]) /\ p \in Seq(T) /\ s[n] \in T
    BY Longer
  <2>2. p \in G
    BY <1>3
  <2> HIDE DEF p
  <2>3. Good(n)
    BY <2>1, <2>2
  <2> HIDE DEF Good
  <2> QED BY <2>3
<1> HIDE DEF S, Good
<1>4. Climbs(S, Len(s))
  BY <1>2, <1>3 DEF Climbs
<1>5. Len(s) \in S
  BY <1>1, <1>4, UpToEnd
<1> QED BY <1>1, <1>5 DEF S, Good

\* Characters that change nothing, one by one, change nothing together.
LEMMA FeedsNothing ==
  ASSUME NEW r, NEW C \in SUBSET Byte, \A ch \in C : Packet!getRspChar(r, ch) = r,
         NEW b \in Seq(C)
  PROVE  Feeds(r, b, r)
<1> DEFINE G == {s \in Seq(C) : Feeds(r, s, r)}
<1>1. <<>> \in G
  BY FeedsNone, EmptySeq
<1>2. ASSUME NEW s \in Seq(C), NEW ch \in C, s \in G PROVE Append(s, ch) \in G
  <2>1. s \in Seq(Byte) /\ ch \in Byte
    BY SeqMonotonic
  <2>2. Feeds(r, Append(s, ch), Packet!getRspChar(r, ch))
    BY <1>2, <2>1, FeedsMore
  <2>3. Append(s, ch) \in Seq(C)
    BY AppendProperties
  <2> QED BY <2>2, <2>3
<1> HIDE DEF G
<1>3. b \in G
  BY <1>1, <1>2, AppendInduction
<1> QED BY <1>3 DEF G

-----------------------------------------------------------------------------
(* The steps of the receiver.                                              *)

Rcv(at, data, sum, answers) ==
  [at |-> at, data |-> data, xmitcsum |-> sum, answers |-> answers]

NotStart == Byte \ {Packet!StartChar}

LEMMA ReceiverIs == Packet!Receiver = Rcv("hunt", <<>>, 0, <<>>)
BY DEF Packet!Receiver, Rcv

\* What sets two fields of a receiver.
LEMMA BeginIs ==
  ASSUME NEW at, NEW d, NEW x, NEW a
  PROVE  Packet!Begin(Rcv(at, d, x, a)) = Rcv("body", <<>>, x, a)
<1> DEFINE s == [Rcv(at, d, x, a) EXCEPT !.at = "body"]
<1>1. s = Rcv("body", d, x, a)
  BY DEF Rcv
<1>2. Packet!Begin(Rcv(at, d, x, a)) = [s EXCEPT !.data = <<>>]
  BY Zenon DEF Packet!Begin
<1>3. [Rcv("body", d, x, a) EXCEPT !.data = <<>>] = Rcv("body", <<>>, x, a)
  BY DEF Rcv
<1> HIDE DEF s
<1> QED BY <1>1, <1>2, <1>3

LEMMA AddCharIs ==
  ASSUME NEW d, NEW x, NEW a, NEW ch
  PROVE  Packet!AddChar(Rcv("body", d, x, a), ch) =
           Rcv(IF Len(d) + 1 < BufSize - 1 THEN "body" ELSE "hunt", Append(d, ch), x, a)
<1> DEFINE r == Rcv("body", d, x, a)
           long == Append(r.data, ch)
           at == IF Len(r.data) + 1 < BufSize - 1 THEN "body" ELSE "hunt"
           s == [r EXCEPT !.data = long]
<1>1. r.data = d
  BY DEF Rcv
<1>2. Packet!AddChar(r, ch) = [s EXCEPT !.at = at]
  BY Zenon DEF Packet!AddChar
<1> HIDE DEF long, at
<1>3. s = Rcv("body", long, x, a)
  BY DEF Rcv
<1>4. [Rcv("body", long, x, a) EXCEPT !.at = at] = Rcv(at, long, x, a)
  BY DEF Rcv
<1> HIDE DEF s, r
<1>5. Packet!AddChar(r, ch) = Rcv(at, long, x, a)
  BY <1>2, <1>3, <1>4
<1> QED BY <1>1, <1>5 DEF r, long, at

LEMMA VerdictIs ==
  ASSUME NEW d, NEW x, NEW a, NEW sum
  PROVE  /\ sum = Packet!Checksum(d) =>
              Packet!Verdict(Rcv("digit2", d, x, a), sum) = Rcv("done", d, x, Append(a, "+"))
         /\ sum # Packet!Checksum(d) =>
              Packet!Verdict(Rcv("digit2", d, x, a), sum) = Rcv("hunt", d, x, Append(a, "-"))
<1> DEFINE r == Rcv("digit2", d, x, a)
           good == [r EXCEPT !.at = "done"]
           bad == [r EXCEPT !.at = "hunt"]
           plus == Append(r.answers, "+")
           minus == Append(r.answers, "-")
<1>1. r.data = d /\ r.answers = a
  BY DEF Rcv
<1>2. sum = Packet!Checksum(d) => Packet!Verdict(r, sum) = [good EXCEPT !.answers = plus]
  BY <1>1, Zenon DEF Packet!Verdict
<1>3. sum # Packet!Checksum(d) => Packet!Verdict(r, sum) = [bad EXCEPT !.answers = minus]
  BY <1>1, Zenon DEF Packet!Verdict
<1>4. good = Rcv("done", d, x, a) /\ bad = Rcv("hunt", d, x, a)
  BY DEF Rcv
<1> HIDE DEF plus, minus
<1>5. /\ [Rcv("done", d, x, a) EXCEPT !.answers = plus] = Rcv("done", d, x, plus)
      /\ [Rcv("hunt", d, x, a) EXCEPT !.answers = minus] = Rcv("hunt", d, x, minus)
  BY DEF Rcv
<1> HIDE DEF good, bad, r
<1>6. /\ sum = Packet!Checksum(d) => Packet!Verdict(r, sum) = Rcv("done", d, x, plus)
      /\ sum # Packet!Checksum(d) => Packet!Verdict(r, sum) = Rcv("hunt", d, x, minus)
  BY <1>2, <1>3, <1>4, <1>5
<1> QED BY <1>1, <1>6 DEF r, plus, minus

LEMMA HuntSteps ==
  ASSUME NEW d, NEW x, NEW a
  PROVE  /\ Packet!getRspChar(Rcv("hunt", d, x, a), 36) = Rcv("body", <<>>, x, a)
         /\ \A ch \in NotStart : Packet!getRspChar(Rcv("hunt", d, x, a), ch) = Rcv("hunt", d, x, a)
<1>1. Rcv("hunt", d, x, a).at = "hunt"
  BY DEF Rcv
<1>2. Packet!getRspChar(Rcv("hunt", d, x, a), 36) = Packet!Begin(Rcv("hunt", d, x, a))
  BY <1>1 DEF Packet!getRspChar, Packet!StartChar
<1>3. Packet!Begin(Rcv("hunt", d, x, a)) = Rcv("body", <<>>, x, a)
  BY BeginIs
<1>4. ASSUME NEW ch \in NotStart
      PROVE  Packet!getRspChar(Rcv("hunt", d, x, a), ch) = Rcv("hunt", d, x, a)
  BY <1>1 DEF Packet!getRspChar, NotStart
<1> QED BY <1>2, <1>3, <1>4

LEMMA BodySteps ==
  ASSUME NEW d, NEW x, NEW a
  PROVE  /\ Packet!getRspChar(Rcv("body", d, x, a), 36) = Rcv("body", <<>>, x, a)
         /\ Packet!getRspChar(Rcv("body", d, x, a), 35) = Rcv("digit1", d, x, a)
         /\ \A ch \in BodyChar :
              Packet!getRspChar(Rcv("body", d, x, a), ch) =
                Rcv(IF Len(d) + 1 < BufSize - 1 THEN "body" ELSE "hunt", Append(d, ch), x, a)
<1>1. Rcv("body", d, x, a).at = "body"
  BY DEF Rcv
<1>2. Packet!getRspChar(Rcv("body", d, x, a), 36) = Packet!Begin(Rcv("body", d, x, a))
  BY <1>1 DEF Packet!getRspChar, Packet!StartChar
<1>3. Packet!Begin(Rcv("body", d, x, a)) = Rcv("body", <<>>, x, a)
  BY BeginIs
<1>4. Packet!getRspChar(Rcv("body", d, x, a), 35) = Rcv("digit1", d, x, a)
  BY DEF Rcv, Packet!getRspChar, Packet!StartChar, Packet!EndChar
<1>5. ASSUME NEW ch \in BodyChar
      PROVE  Packet!getRspChar(Rcv("body", d, x, a), ch) =
               Rcv(IF Len(d) + 1 < BufSize - 1 THEN "body" ELSE "hunt", Append(d, ch), x, a)
  <2>1. ch # Packet!StartChar /\ ch # Packet!EndChar
    BY DEF BodyChar
  <2>2. Packet!getRspChar(Rcv("body", d, x, a), ch) = Packet!AddChar(Rcv("body", d, x, a), ch)
    BY <1>1, <2>1 DEF Packet!getRspChar
  <2>3. Packet!AddChar(Rcv("body", d, x, a), ch) =
          Rcv(IF Len(d) + 1 < BufSize - 1 THEN "body" ELSE "hunt", Append(d, ch), x, a)
    BY AddCharIs
  <2> QED BY <2>2, <2>3
<1> QED BY <1>2, <1>3, <1>4, <1>5

LEMMA DigitSteps ==
  ASSUME NEW d, NEW x, NEW a, NEW ch
  PROVE  /\ Packet!getRspChar(Rcv("digit1", d, x, a), ch) =
              Rcv("digit2", d, (Packet!char2Hex(ch) * 16) % 256, a)
         /\ (x + Packet!char2Hex(ch)) % 256 = Packet!Checksum(d) =>
              Packet!getRspChar(Rcv("digit2", d, x, a), ch) = Rcv("done", d, x, Append(a, "+"))
         /\ (x + Packet!char2Hex(ch)) % 256 # Packet!Checksum(d) =>
              Packet!getRspChar(Rcv("digit2", d, x, a), ch) = Rcv("hunt", d, x, Append(a, "-"))
<1> DEFINE r == Rcv("digit2", d, x, a)
           sum == (x + Packet!char2Hex(ch)) % 256
<1>1. Packet!getRspChar(Rcv("digit1", d, x, a), ch) =
        Rcv("digit2", d, (Packet!char2Hex(ch) * 16) % 256, a)
  BY DEF Rcv, Packet!getRspChar
<1>2. r.at = "digit2" /\ r.xmitcsum = x /\ r.data = d /\ r.answers = a
  BY DEF Rcv
<1>3. Packet!getRspChar(r, ch) = Packet!Verdict(r, (r.xmitcsum + Packet!char2Hex(ch)) % 256)
  BY <1>2 DEF Packet!getRspChar
<1>4. Packet!getRspChar(r, ch) = Packet!Verdict(r, sum)
  BY <1>2, <1>3
<1> HIDE DEF sum
<1>5. /\ sum = Packet!Checksum(d) => Packet!Verdict(r, sum) = Rcv("done", d, x, Append(a, "+"))
      /\ sum # Packet!Checksum(d) => Packet!Verdict(r, sum) = Rcv("hunt", d, x, Append(a, "-"))
  BY VerdictIs
<1> HIDE DEF r
<1> QED BY <1>1, <1>4, <1>5 DEF sum, r

LEMMA DoneSteps ==
  ASSUME NEW d, NEW x, NEW a
  PROVE  \A ch \in Byte : Packet!getRspChar(Rcv("done", d, x, a), ch) = Rcv("done", d, x, a)
BY DEF Rcv, Packet!getRspChar

-----------------------------------------------------------------------------
(* A packet, from its start to its checksum.                               *)

\* Behind the characters b of a body: they are kept, or too many were given up.
BodyRead(b, x, a) ==
  IF Len(b) <= BufSize - 2 THEN Rcv("body", b, x, a)
  ELSE Rcv("hunt", SubSeq(b, 1, BufSize - 1), x, a)

LEMMA BodyReadMore ==
  ASSUME NEW s \in Seq(BodyChar), NEW ch \in BodyChar, NEW x, NEW a
  PROVE  Packet!getRspChar(BodyRead(s, x, a), ch) = BodyRead(Append(s, ch), x, a)
<1> DEFINE t == Append(s, ch)
<1>1. /\ BufSize \in Nat /\ BufSize >= 2
      /\ Len(s) \in Nat /\ Len(t) = Len(s) + 1 /\ t \in Seq(BodyChar) /\ ch \in NotStart
  <2>1. Len(s) \in Nat
    BY LenProperties
  <2>2. Len(t) = Len(s) + 1 /\ t \in Seq(BodyChar)
    BY AppendProperties
  <2> QED BY <2>1, <2>2, LinkAssumption DEF NotStart, BodyChar
<1>2. CASE Len(s) + 1 <= BufSize - 2
  <2>1. BodyRead(s, x, a) = Rcv("body", s, x, a)
    BY <1>1, <1>2 DEF BodyRead
  <2>2. Packet!getRspChar(Rcv("body", s, x, a), ch) = Rcv("body", t, x, a)
    BY <1>1, <1>2, BodySteps
  <2>3. BodyRead(t, x, a) = Rcv("body", t, x, a)
    BY <1>1, <1>2 DEF BodyRead
  <2> QED BY <2>1, <2>2, <2>3
<1>3. CASE Len(s) = BufSize - 2
  <2>1. BodyRead(s, x, a) = Rcv("body", s, x, a)
    BY <1>1, <1>3 DEF BodyRead
  <2>2. Packet!getRspChar(Rcv("body", s, x, a), ch) = Rcv("hunt", t, x, a)
    BY <1>1, <1>3, BodySteps
  <2>3. SubSeq(t, 1, BufSize - 1) = t
    <3>1. BufSize - 1 = Len(t)
      BY <1>1, <1>3
    <3>2. SubSeq(t, 1, Len(t)) = t
      BY <1>1, SubSeqFull
    <3> QED BY <3>1, <3>2
  <2>4. BodyRead(t, x, a) = Rcv("hunt", SubSeq(t, 1, BufSize - 1), x, a)
    BY <1>1, <1>3 DEF BodyRead
  <2> QED BY <2>1, <2>2, <2>3, <2>4
<1>4. CASE Len(s) >= BufSize - 1
  <2> DEFINE d == SubSeq(s, 1, BufSize - 1)
  <2>1. BodyRead(s, x, a) = Rcv("hunt", d, x, a)
    BY <1>1, <1>4 DEF BodyRead
  <2>2. Packet!getRspChar(Rcv("hunt", d, x, a), ch) = Rcv("hunt", d, x, a)
    BY <1>1, HuntSteps
  <2>3. SubSeq(t, 1, BufSize - 1) = d
    <3>1. BufSize - 1 \in 1..Len(s) /\ 1 \in 1..Len(s)
      BY <1>1, <1>4
    <3>2. t = s \o <<ch>> /\ <<ch>> \in Seq(BodyChar)
      BY AppendIsConcat
    <3> QED BY <3>1, <3>2, SubSeqOfConcat1
  <2>4. BodyRead(t, x, a) = Rcv("hunt", SubSeq(t, 1, BufSize - 1), x, a)
    BY <1>1, <1>4 DEF BodyRead
  <2> HIDE DEF d
  <2> QED BY <2>1, <2>2, <2>3, <2>4
<1> QED BY <1>1, <1>2, <1>3, <1>4

LEMMA BodyCharsAreBytes ==
  /\ \A s \in Seq(BodyChar) : s \in Seq(Byte) /\ s \in Seq(NotStart)
  /\ \A s \in Seq(NotStart) : s \in Seq(Byte)
  /\ BodyChar \subseteq Byte /\ BodyChar \subseteq NotStart /\ NotStart \subseteq Byte
  /\ 35 \in NotStart /\ 36 \in Byte /\ 35 \in Byte
<1>1. /\ BodyChar \subseteq Byte /\ BodyChar \subseteq NotStart /\ NotStart \subseteq Byte
      /\ 35 \in NotStart /\ 36 \in Byte /\ 35 \in Byte
  BY DEF BodyChar, NotStart, Byte, Packet!StartChar, Packet!EndChar
<1> QED BY <1>1, SeqMonotonic

LEMMA FeedsBody ==
  ASSUME NEW b \in Seq(BodyChar), NEW x, NEW a
  PROVE  Feeds(Rcv("body", <<>>, x, a), b, BodyRead(b, x, a))
<1> DEFINE r == Rcv("body", <<>>, x, a)
           G == {s \in Seq(BodyChar) : Feeds(r, s, BodyRead(s, x, a))}
<1>1. <<>> \in G
  <2>1. BodyRead(<<>>, x, a) = r
    BY EmptySeq, LinkAssumption DEF BodyRead
  <2>2. <<>> \in Seq(BodyChar) /\ Feeds(r, <<>>, r)
    BY EmptySeq, FeedsNone
  <2> HIDE DEF r
  <2> QED BY <2>1, <2>2
<1> HIDE DEF r
<1>2. ASSUME NEW s \in Seq(BodyChar), NEW ch \in BodyChar, s \in G PROVE Append(s, ch) \in G
  <2>1. s \in Seq(Byte) /\ ch \in Byte
    BY BodyCharsAreBytes
  <2>2. Feeds(r, Append(s, ch), Packet!getRspChar(BodyRead(s, x, a), ch))
    BY <1>2, <2>1, FeedsMore
  <2>3. Packet!getRspChar(BodyRead(s, x, a), ch) = BodyRead(Append(s, ch), x, a)
    BY BodyReadMore
  <2>4. Append(s, ch) \in Seq(BodyChar)
    BY AppendProperties
  <2> QED BY <2>2, <2>3, <2>4
<1> HIDE DEF G
<1>3. b \in G
  BY <1>1, <1>2, AppendInduction
<1> QED BY <1>3 DEF G, r

\* The two digits of a sum.
High(data) == Packet!Checksum(Packet!Escaped(data)) \div 16
Low(data) == Packet!Checksum(Packet!Escaped(data)) % 16

Tail3(data) == <<35, Packet!hex2Char(High(data)), Packet!hex2Char(Low(data))>>

\* What follows the start of a packet.
Rest(data) == Packet!Escaped(data) \o Tail3(data)

LEMMA SumDigits ==
  ASSUME NEW data \in Seq(Byte)
  PROVE  /\ High(data) \in 0..15 /\ Low(data) \in 0..15
         /\ Packet!Checksum(Packet!Escaped(data)) = 16 * High(data) + Low(data)
<1>1. Packet!Escaped(data) \in Seq(Byte)
  BY EscapeAll, BodyCharsAreBytes DEF EscapedRight
<1> DEFINE sum == Packet!Checksum(Packet!Escaped(data))
<1>2. sum \in 0..255
  BY <1>1, SumIsByte DEF Byte
<1> HIDE DEF sum
<1>3. sum \div 16 \in 0..15 /\ sum % 16 \in 0..15 /\ sum = 16 * (sum \div 16) + (sum % 16)
  BY <1>2
<1> QED BY <1>3 DEF sum, High, Low

LEMMA PacketParts ==
  ASSUME NEW data \in Seq(Byte)
  PROVE  /\ Packet!Escaped(data) \in Seq(BodyChar)
         /\ Tail3(data) \in Seq(NotStart)
         /\ Rest(data) \in Seq(NotStart)
         /\ << 36 >> \in Seq(Byte)
         /\ Packet!putPkt(data) = << 36 >> \o Rest(data)
         /\ Packet!putPkt(data) \in Seq(Byte)
<1> DEFINE body == Packet!Escaped(data)
           h == Packet!hex2Char(High(data))
           l == Packet!hex2Char(Low(data))
<1>1. body \in Seq(BodyChar)
  BY EscapeAll DEF EscapedRight
<1>2. 35 \in NotStart /\ h \in NotStart /\ l \in NotStart
  BY SumDigits, DigitRight, BodyCharsAreBytes
<1>3. Packet!putPkt(data) = (<< 36 >> \o body) \o <<35, h, l>>
  BY DEF Packet!putPkt, Packet!StartChar, Packet!EndChar, High, Low
<1> HIDE DEF body, h, l
<1>4. <<35, h, l>> \in Seq(NotStart)
  BY <1>2
<1>5. body \in Seq(NotStart) /\ << 36 >> \in Seq(Byte)
  BY <1>1, BodyCharsAreBytes
<1>6. body \o <<35, h, l>> \in Seq(NotStart)
  BY <1>4, <1>5, ConcatProperties
<1>7. body \in Seq(Byte) /\ <<35, h, l>> \in Seq(Byte) /\ body \o <<35, h, l>> \in Seq(Byte)
  BY <1>4, <1>5, <1>6, BodyCharsAreBytes
<1>8. (<< 36 >> \o body) \o <<35, h, l>> = << 36 >> \o (body \o <<35, h, l>>)
  BY <1>5, <1>7, ConcatAssociative
<1>9. << 36 >> \o (body \o <<35, h, l>>) \in Seq(Byte)
  BY <1>5, <1>7, ConcatProperties
<1> QED BY <1>1, <1>3, <1>4, <1>6, <1>8, <1>9, <1>5 DEF Rest, Tail3, body, h, l

LEMMA AppendTo ==
  ASSUME NEW u, NEW v, NEW w
  PROVE  Append(<<u>>, v) = <<u, v>> /\ Append(<<u, v>>, w) = <<u, v, w>>
<1> DEFINE T == {u, v, w}
           one == <<u>>
           two == <<u, v>>
           three == <<u, v, w>>
<1>1. /\ one \in Seq(T) /\ Len(one) = 1 /\ one[1] = u
      /\ two \in Seq(T) /\ Len(two) = 2 /\ two[1] = u /\ two[2] = v
      /\ three \in Seq(T) /\ Len(three) = 3 /\ three[1] = u /\ three[2] = v /\ three[3] = w
      /\ v \in T /\ w \in T
  OBVIOUS
<1> HIDE DEF T, one, two, three
<1>2. Append(one, v) = two
  <2>1. /\ Append(one, v) \in Seq(T) /\ Len(Append(one, v)) = 2
        /\ Append(one, v)[1] = u /\ Append(one, v)[2] = v
    <3>1. /\ Append(one, v) \in Seq(T) /\ Len(Append(one, v)) = Len(one) + 1
          /\ \A i \in 1..Len(one) : Append(one, v)[i] = one[i]
          /\ Append(one, v)[Len(one) + 1] = v
      <4>1. one \in Seq(T) /\ v \in T
        BY <1>1
      <4> QED BY <4>1, AppendProperties
    <3>2. Len(one) = 1 /\ 1 + 1 = 2 /\ \A i \in 1..1 : i \in 1..Len(one)
      BY <1>1
    <3>3. 1 \in 1..Len(one)
      BY <3>2
    <3> QED BY <1>1, <3>1, <3>2, <3>3
  <2>2. \A i \in 1..2 : i = 1 \/ i = 2
    OBVIOUS
  <2>3. \A i \in 1..2 : Append(one, v)[i] = two[i]
    BY <1>1, <2>1, <2>2
  <2> QED BY <1>1, <2>1, <2>3, SeqEqual
<1>3. Append(two, w) = three
  <2>1. /\ Append(two, w) \in Seq(T) /\ Len(Append(two, w)) = 3
        /\ Append(two, w)[1] = u /\ Append(two, w)[2] = v /\ Append(two, w)[3] = w
    <3>1. /\ Append(two, w) \in Seq(T) /\ Len(Append(two, w)) = Len(two) + 1
          /\ \A i \in 1..Len(two) : Append(two, w)[i] = two[i]
          /\ Append(two, w)[Len(two) + 1] = w
      <4>1. two \in Seq(T) /\ w \in T
        BY <1>1
      <4> QED BY <4>1, AppendProperties
    <3>2. Len(two) = 2 /\ 2 + 1 = 3 /\ \A i \in 1..2 : i \in 1..Len(two)
      BY <1>1
    <3>3. 1 \in 1..Len(two) /\ 2 \in 1..Len(two)
      BY <3>2
    <3> QED BY <1>1, <3>1, <3>2, <3>3
  <2>2. \A i \in 1..3 : i = 1 \/ i = 2 \/ i = 3
    OBVIOUS
  <2>3. \A i \in 1..3 : Append(two, w)[i] = three[i]
    BY <1>1, <2>1, <2>2
  <2> QED BY <1>1, <2>1, <2>3, SeqEqual
<1> QED BY <1>2, <1>3 DEF one, two, three

\* The end of a packet and the two digits that follow it.
LEMMA FeedsTail ==
  ASSUME NEW data \in Seq(Byte), NEW x, NEW a
  PROVE  LET body == Packet!Escaped(data)
             h == Packet!hex2Char(High(data))
         IN /\ Feeds(Rcv("body", body, x, a), << 35 >>, Rcv("digit1", body, x, a))
            /\ Feeds(Rcv("body", body, x, a), <<35, h>>, Rcv("digit2", body, 16 * High(data), a))
            /\ Feeds(Rcv("body", body, x, a), Tail3(data),
                     Rcv("done", body, 16 * High(data), Append(a, "+")))
<1> DEFINE body == Packet!Escaped(data)
           h == Packet!hex2Char(High(data))
           l == Packet!hex2Char(Low(data))
           r == Rcv("body", body, x, a)
<1>1. /\ High(data) \in 0..15 /\ Low(data) \in 0..15
      /\ Packet!Checksum(body) = 16 * High(data) + Low(data)
  BY SumDigits
<1>2. Packet!char2Hex(h) = High(data) /\ h \in Byte /\ Packet!char2Hex(l) = Low(data) /\ l \in Byte
  BY <1>1, DigitRight, BodyCharsAreBytes
<1>3. Packet!getRspChar(r, 35) = Rcv("digit1", body, x, a)
  BY BodySteps
<1>4. Packet!getRspChar(Rcv("digit1", body, x, a), h) = Rcv("digit2", body, 16 * High(data), a)
  <2>1. Packet!getRspChar(Rcv("digit1", body, x, a), h)
          = Rcv("digit2", body, (Packet!char2Hex(h) * 16) % 256, a)
    BY DigitSteps
  <2>2. (Packet!char2Hex(h) * 16) % 256 = 16 * High(data)
    BY <1>1, <1>2
  <2> QED BY <2>1, <2>2
<1>5. Packet!getRspChar(Rcv("digit2", body, 16 * High(data), a), l)
        = Rcv("done", body, 16 * High(data), Append(a, "+"))
  <2> DEFINE H == High(data)
             L == Low(data)
  <2>1. (16 * H + L) % 256 = 16 * H + L
    <3>1. H \in 0..15 /\ L \in 0..15
      BY <1>1
    <3> HIDE DEF H, L
    <3> DEFINE sum == 16 * H + L
    <3>2. sum \in 0..255
      BY <3>1
    <3> HIDE DEF sum
    <3>3. sum % 256 = sum
      BY <3>2
    <3> QED BY <3>3 DEF sum
  <2>2. (16 * High(data) + Packet!char2Hex(l)) % 256 = Packet!Checksum(body)
    BY <1>1, <1>2, <2>1
  <2> QED BY <2>2, DigitSteps
<1> HIDE DEF r, body, h, l
<1>6. Feeds(r, << 35 >>, Rcv("digit1", body, x, a)) /\ << 35 >> \in Seq(Byte)
  BY <1>3, FeedsOne, BodyCharsAreBytes
<1>7. Feeds(r, <<35, h>>, Rcv("digit2", body, 16 * High(data), a)) /\ <<35, h>> \in Seq(Byte)
  <2>1. Feeds(r, Append(<< 35 >>, h), Packet!getRspChar(Rcv("digit1", body, x, a), h))
    BY <1>2, <1>6, FeedsMore
  <2>2. Append(<< 35 >>, h) = <<35, h>>
    BY AppendTo
  <2>3. Append(<< 35 >>, h) \in Seq(Byte)
    BY <1>2, <1>6, AppendProperties
  <2> QED BY <1>4, <2>1, <2>2, <2>3
<1>8. Feeds(r, <<35, h, l>>, Rcv("done", body, 16 * High(data), Append(a, "+")))
  <2>1. Feeds(r, Append(<<35, h>>, l), Packet!getRspChar(Rcv("digit2", body, 16 * High(data), a), l))
    BY <1>2, <1>7, FeedsMore
  <2>2. Append(<<35, h>>, l) = <<35, h, l>>
    BY AppendTo
  <2> QED BY <1>5, <2>1, <2>2
<1> QED BY <1>6, <1>7, <1>8 DEF Tail3, r, body, h, l

\* A whole packet, to a receiver that looks for one or has read a part of one.
PacketRead(data, x, a) ==
  IF Packet!Fits(data) THEN Rcv("done", Packet!Escaped(data), 16 * High(data), Append(a, "+"))
  ELSE Rcv("hunt", SubSeq(Packet!Escaped(data), 1, BufSize - 1), x, a)

LEMMA FeedsStart ==
  ASSUME NEW at \in {"hunt", "body"}, NEW d, NEW x, NEW a
  PROVE  Feeds(Rcv(at, d, x, a), << 36 >>, Rcv("body", <<>>, x, a))
<1>1. Feeds(Rcv(at, d, x, a), << 36 >>, Packet!getRspChar(Rcv(at, d, x, a), 36))
  BY FeedsOne, BodyCharsAreBytes
<1>2. CASE at = "hunt"
  BY <1>1, <1>2, HuntSteps
<1>3. CASE at = "body"
  BY <1>1, <1>3, BodySteps
<1> QED BY <1>2, <1>3

LEMMA FeedsHunt ==
  ASSUME NEW b \in Seq(NotStart), NEW d, NEW x, NEW a
  PROVE  Feeds(Rcv("hunt", d, x, a), b, Rcv("hunt", d, x, a))
<1> DEFINE r == Rcv("hunt", d, x, a)
<1>1. \A ch \in NotStart : Packet!getRspChar(r, ch) = r
  BY HuntSteps
<1> HIDE DEF r
<1>2. Feeds(r, b, r)
  BY <1>1, FeedsNothing, BodyCharsAreBytes
<1> QED BY <1>2 DEF r

LEMMA FeedsDone ==
  ASSUME NEW b \in Seq(Byte), NEW d, NEW x, NEW a
  PROVE  Feeds(Rcv("done", d, x, a), b, Rcv("done", d, x, a))
<1> DEFINE r == Rcv("done", d, x, a)
<1>1. \A ch \in Byte : Packet!getRspChar(r, ch) = r
  BY DoneSteps
<1> HIDE DEF r
<1>2. Feeds(r, b, r)
  BY <1>1, FeedsNothing
<1> QED BY <1>2 DEF r

\* Too much for the buffer.
LEMMA BodyReadCases ==
  ASSUME NEW data, NEW x, NEW a
  PROVE  /\ Packet!Fits(data) => BodyRead(Packet!Escaped(data), x, a) = Rcv("body", Packet!Escaped(data), x, a)
         /\ ~Packet!Fits(data) => BodyRead(Packet!Escaped(data), x, a)
                                   = Rcv("hunt", SubSeq(Packet!Escaped(data), 1, BufSize - 1), x, a)
BY DEF Packet!Fits, BodyRead

LEMMA FeedsPacket ==
  ASSUME NEW data \in Seq(Byte), NEW at \in {"hunt", "body"}, NEW d, NEW x, NEW a
  PROVE  Feeds(Rcv(at, d, x, a), Packet!putPkt(data), PacketRead(data, x, a))
<1> DEFINE body == Packet!Escaped(data)
           r == Rcv(at, d, x, a)
           start == Rcv("body", <<>>, x, a)
           mid == BodyRead(body, x, a)
<1>1. /\ body \in Seq(BodyChar) /\ body \in Seq(Byte)
      /\ Tail3(data) \in Seq(NotStart) /\ Tail3(data) \in Seq(Byte)
      /\ Rest(data) \in Seq(Byte) /\ << 36 >> \in Seq(Byte)
      /\ Packet!putPkt(data) = << 36 >> \o Rest(data) /\ Rest(data) = body \o Tail3(data)
  BY PacketParts, BodyCharsAreBytes DEF Rest
<1>2. Feeds(r, << 36 >>, start)
  BY FeedsStart
<1>3. Feeds(start, body, mid)
  BY <1>1, FeedsBody
<1>4. Feeds(mid, Tail3(data), PacketRead(data, x, a))
  <2>1. CASE Packet!Fits(data)
    <3>1. Feeds(Rcv("body", body, x, a), Tail3(data), Rcv("done", body, 16 * High(data), Append(a, "+")))
      BY FeedsTail
    <3>2. mid = Rcv("body", body, x, a)
      BY <2>1, BodyReadCases
    <3> QED BY <2>1, <3>1, <3>2 DEF PacketRead
  <2>2. CASE ~Packet!Fits(data)
    <3> DEFINE lost == Rcv("hunt", SubSeq(body, 1, BufSize - 1), x, a)
    <3>1. Feeds(lost, Tail3(data), lost)
      BY <1>1, FeedsHunt
    <3>2. mid = lost
      BY <2>2, BodyReadCases
    <3> QED BY <2>2, <3>1, <3>2 DEF PacketRead
  <2> QED BY <2>1, <2>2
<1> HIDE DEF r, start, mid, body
<1>5. Feeds(start, body \o Tail3(data), PacketRead(data, x, a))
  BY <1>1, <1>3, <1>4, FeedsBoth
<1>6. Feeds(r, << 36 >> \o Rest(data), PacketRead(data, x, a))
  BY <1>1, <1>2, <1>5, FeedsBoth
<1> QED BY <1>1, <1>6 DEF r

-----------------------------------------------------------------------------
(* Packets arrive.                                                         *)

LEMMA RcvFields ==
  ASSUME NEW at, NEW d, NEW x, NEW a
  PROVE  /\ Rcv(at, d, x, a).at = at /\ Rcv(at, d, x, a).data = d
         /\ Rcv(at, d, x, a).answers = a
BY DEF Rcv

\* What is put on one side is what the other side gets, for all data: any number of
\* any characters (putPkt, getPkt, rspUnescape).
THEOREM EveryPacketDelivered == \A data \in Seq(Byte) : Packet!Delivered(data)
<1> SUFFICES ASSUME NEW data \in Seq(Byte) PROVE Packet!Delivered(data)
  OBVIOUS
<1> DEFINE r == Packet!getPkt(Packet!putPkt(data))
<1>1. r = PacketRead(data, 0, <<>>)
  <2>1. Feeds(Packet!Receiver, Packet!putPkt(data), PacketRead(data, 0, <<>>))
    BY FeedsPacket, ReceiverIs
  <2> QED BY <2>1, FeedsFirst, PacketParts
<1> HIDE DEF r
<1>2. CASE Packet!Fits(data)
  <2>1. r.at = "done" /\ r.data = Packet!Escaped(data) /\ r.answers = Append(<<>>, "+")
    BY <1>1, <1>2, RcvFields DEF PacketRead
  <2>2. Append(<<>>, "+") = <<"+">>
    OBVIOUS
  <2>3. Packet!UnescapeAll(Packet!Escaped(data)) = [escaped |-> FALSE, out |-> data]
    BY EscapeAll DEF EscapedRight
  <2>4. Packet!rspUnescape(Packet!Escaped(data)) = data
    BY <2>3 DEF Packet!rspUnescape
  <2> QED BY <1>2, <2>1, <2>2, <2>4 DEF Packet!Delivered, r
<1>3. CASE ~Packet!Fits(data)
  <2>1. r.at = "hunt" /\ r.answers = <<>>
    BY <1>1, <1>3, RcvFields DEF PacketRead
  <2> QED BY <1>3, <2>1 DEF Packet!Delivered, r
<1> QED BY <1>2, <1>3

\* A packet is a sequence of bytes.
LEMMA SmallData ==
  ASSUME NEW T, T \subseteq Byte, NEW N \in Nat, NEW data \in UNION {[1..n -> T] : n \in 0..N}
  PROVE  data \in Seq(Byte)
<1>1. PICK n \in 0..N : data \in [1..n -> T]
  OBVIOUS
<1>2. n \in Nat /\ data \in [1..n -> Byte]
  BY <1>1
<1> QED BY <1>2, SeqDef

\* The packets of the run are among them (putPkt, getPkt).
LEMMA PacketsDeliveredHolds == PacketsDelivered
<1>1. {36, 35, 125, 1, 65} \subseteq Byte /\ 3 \in Nat
  BY DEF Byte
<1> QED BY <1>1, SmallData, EveryPacketDelivered DEF PacketsDelivered

-----------------------------------------------------------------------------
(* A packet that was cut short.                                            *)

\* The receiver behind the first n characters of a packet that was cut short: it
\* looks for a start, is in the body, or waits for one of the two digits.
CutAt(cut, n, r) ==
  LET body == Packet!Escaped(cut) IN
    \/ /\ Packet!Fits(cut) => n <= Len(body) + 1
       /\ \E at \in {"hunt", "body"} : \E d, x : r = Rcv(at, d, x, <<>>)
    \/ /\ Packet!Fits(cut) /\ n = Len(body) + 2
       /\ r = Rcv("digit1", body, 0, <<>>)
    \/ /\ Packet!Fits(cut) /\ n = Len(body) + 3
       /\ r = Rcv("digit2", body, 16 * High(cut), <<>>)

LEMMA BodyReadAt ==
  ASSUME NEW b, NEW x
  PROVE  \E at \in {"hunt", "body"} : \E d, y : BodyRead(b, x, <<>>) = Rcv(at, d, y, <<>>)
BY DEF BodyRead

\* The first characters of a packet.
LEMMA CutParts ==
  ASSUME NEW cut \in Seq(Byte), NEW n \in 1..(Len(Packet!putPkt(cut)) - 1)
  PROVE  LET body == Packet!Escaped(cut)
             prefix == SubSeq(Packet!putPkt(cut), 1, n)
         IN /\ Len(body) \in Nat /\ n <= Len(body) + 3 /\ Len(Packet!putPkt(cut)) = Len(body) + 4
            /\ n <= Len(body) + 1 => prefix = << 36 >> \o SubSeq(body, 1, n - 1)
            /\ n = Len(body) + 2 => prefix = << 36 >> \o (body \o << 35 >>)
            /\ n = Len(body) + 3 => prefix = << 36 >> \o (body \o <<35, Packet!hex2Char(High(cut))>>)
<1> DEFINE body == Packet!Escaped(cut)
           h == Packet!hex2Char(High(cut))
           l == Packet!hex2Char(Low(cut))
           pkt == Packet!putPkt(cut)
           tail == <<35, h, l>>
           rest == body \o tail
<1>1. /\ body \in Seq(Byte) /\ pkt = << 36 >> \o rest /\ << 36 >> \in Seq(Byte)
      /\ h \in Byte /\ l \in Byte /\ 35 \in Byte
  BY PacketParts, SumDigits, DigitRight, BodyCharsAreBytes DEF Rest, Tail3
<1> HIDE DEF body, h, l, pkt
<1>2. tail \in Seq(Byte) /\ Len(tail) = 3 /\ tail[1] = 35 /\ tail[2] = h /\ tail[3] = l
  BY <1>1
<1> HIDE DEF tail
<1>3. /\ Len(body) \in Nat /\ rest \in Seq(Byte) /\ Len(rest) = Len(body) + 3
      /\ \A i \in 1..(Len(body) + 3) : rest[i] = IF i <= Len(body) THEN body[i] ELSE tail[i - Len(body)]
  <2>1. Len(body) \in Nat
    BY <1>1, LenProperties
  <2>2. body \in Seq(Byte) /\ tail \in Seq(Byte)
    BY <1>1, <1>2
  <2>3. /\ rest \in Seq(Byte) /\ Len(rest) = Len(body) + Len(tail)
        /\ \A i \in 1..(Len(body) + Len(tail)) : rest[i] = IF i <= Len(body) THEN body[i] ELSE tail[i - Len(body)]
    BY <2>2, ConcatProperties
  <2> HIDE DEF rest
  <2> QED BY <1>2, <2>1, <2>3
<1> HIDE DEF rest
<1>4. /\ pkt \in Seq(Byte) /\ Len(pkt) = Len(body) + 4 /\ pkt[1] = 36
      /\ \A i \in 2..(Len(body) + 4) : pkt[i] = rest[i - 1]
  <2>1. Len(<< 36 >>) = 1 /\ << 36 >>[1] = 36
    OBVIOUS
  <2>2. /\ pkt \in Seq(Byte) /\ Len(pkt) = 1 + Len(rest)
        /\ \A i \in 1..(1 + Len(rest)) : pkt[i] = IF i <= 1 THEN << 36 >>[i] ELSE rest[i - 1]
    BY <1>1, <1>3, <2>1, ConcatProperties
  <2> QED BY <1>3, <2>1, <2>2
<1> DEFINE prefix == SubSeq(pkt, 1, n)
<1>5. n \in 1..(Len(body) + 3) /\ n \in Nat
  BY <1>3, <1>4 DEF pkt
<1>6. /\ prefix \in Seq(Byte) /\ Len(prefix) = n
      /\ \A i \in 1..n : prefix[i] = pkt[i]
  <2>1. \A i \in 1..n : i \in 1..Len(pkt) /\ pkt[i] \in Byte
    BY <1>3, <1>4, <1>5, ElementOfSeq
  <2>2. 1 \in Int /\ n \in Int /\ 1 <= n
    BY <1>5
  <2> QED BY <2>1, <2>2, SubSeqProperties
<1> HIDE DEF prefix
<1>7. ASSUME NEW b \in Seq(Byte), Len(b) = n - 1, \A i \in 1..(n - 1) : b[i] = rest[i]
      PROVE  prefix = << 36 >> \o b
  <2> DEFINE q == << 36 >> \o b
  <2>1. Len(<< 36 >>) = 1 /\ << 36 >>[1] = 36
    OBVIOUS
  <2>2. /\ q \in Seq(Byte) /\ Len(q) = 1 + Len(b)
        /\ \A i \in 1..(1 + Len(b)) : q[i] = IF i <= 1 THEN << 36 >>[i] ELSE b[i - 1]
    BY <1>1, <2>1, ConcatProperties
  <2> HIDE DEF q
  <2>3. \A i \in 1..n : q[i] = prefix[i]
    <3> SUFFICES ASSUME NEW i \in 1..n PROVE q[i] = prefix[i]
      OBVIOUS
    <3>1. CASE i = 1
      BY <1>4, <1>5, <1>6, <1>7, <2>1, <2>2, <3>1
    <3>2. CASE i # 1
      <4>1. i - 1 \in 1..(n - 1) /\ i \in 2..(Len(body) + 4) /\ i \in 1..(1 + Len(b)) /\ ~(i <= 1)
        BY <1>3, <1>5, <1>7, <3>2
      <4>2. prefix[i] = rest[i - 1]
        BY <1>4, <1>6, <4>1
      <4>3. q[i] = b[i - 1]
        BY <2>2, <4>1
      <4> QED BY <1>7, <4>1, <4>2, <4>3
    <3> QED BY <3>1, <3>2
  <2>4. Len(q) = n
    BY <1>5, <1>7, <2>2
  <2> QED BY <1>6, <2>2, <2>3, <2>4, SeqEqual DEF q
<1>8. ASSUME n <= Len(body) + 1 PROVE prefix = << 36 >> \o SubSeq(body, 1, n - 1)
  <2> DEFINE b == SubSeq(body, 1, n - 1)
  <2>1. /\ b \in Seq(Byte) /\ Len(b) = n - 1
        /\ \A i \in 1..(n - 1) : b[i] = body[i]
    <3>1. \A i \in 1..(n - 1) : i \in 1..Len(body) /\ body[i] \in Byte
      BY <1>1, <1>3, <1>5, <1>8, ElementOfSeq
    <3>2. 1 \in Int /\ n - 1 \in Int /\ n - 1 >= 0
      BY <1>5
    <3> QED BY <3>1, <3>2, SubSeqProperties
  <2>2. \A i \in 1..(n - 1) : rest[i] = body[i]
    BY <1>3, <1>5, <1>8
  <2> HIDE DEF b
  <2> QED BY <1>7, <2>1, <2>2 DEF b
<1>9. ASSUME NEW t \in Seq(Byte), NEW m \in 1..3, Len(t) = m, n = Len(body) + 1 + m,
             \A i \in 1..m : t[i] = tail[i]
      PROVE  prefix = << 36 >> \o (body \o t)
  <2> DEFINE b == body \o t
  <2>1. /\ b \in Seq(Byte) /\ Len(b) = Len(body) + m
        /\ \A i \in 1..(Len(body) + m) : b[i] = IF i <= Len(body) THEN body[i] ELSE t[i - Len(body)]
    BY <1>1, <1>9, ConcatProperties
  <2> HIDE DEF b
  <2>2. n - 1 = Len(body) + m
    BY <1>3, <1>9
  <2>3. \A i \in 1..(n - 1) : b[i] = rest[i]
    <3> SUFFICES ASSUME NEW i \in 1..(n - 1) PROVE b[i] = rest[i]
      OBVIOUS
    <3>1. i \in 1..(Len(body) + m) /\ i \in 1..(Len(body) + 3)
      BY <1>3, <2>2
    <3>2. CASE i <= Len(body)
      BY <1>3, <2>1, <3>1, <3>2
    <3>3. CASE ~(i <= Len(body))
      <4>1. i - Len(body) \in 1..m
        BY <1>3, <3>1, <3>3
      <4> QED BY <1>3, <1>9, <2>1, <3>1, <3>3, <4>1
    <3> QED BY <3>2, <3>3
  <2> QED BY <1>7, <2>1, <2>2, <2>3 DEF b
<1>10. n = Len(body) + 2 => prefix = << 36 >> \o (body \o << 35 >>)
  <2>1. << 35 >> \in Seq(Byte) /\ Len(<< 35 >>) = 1 /\ << 35 >>[1] = 35
    BY <1>1
  <2>2. \A i \in 1..1 : << 35 >>[i] = tail[i]
    BY <1>2, <2>1
  <2>3. 1 \in 1..3 /\ (n = Len(body) + 2 => n = Len(body) + 1 + 1)
    BY <1>3
  <2> QED BY <1>9, <2>1, <2>2, <2>3
<1>11. n = Len(body) + 3 => prefix = << 36 >> \o (body \o <<35, h>>)
  <2> DEFINE t == <<35, h>>
  <2>1. t \in Seq(Byte) /\ Len(t) = 2 /\ t[1] = 35 /\ t[2] = h
    BY <1>1
  <2> HIDE DEF t
  <2>2. \A i \in 1..2 : i = 1 \/ i = 2
    OBVIOUS
  <2>3. \A i \in 1..2 : t[i] = tail[i]
    BY <1>2, <2>1, <2>2
  <2>4. 2 \in 1..3 /\ (n = Len(body) + 3 => n = Len(body) + 1 + 2)
    BY <1>3
  <2> QED BY <1>9, <2>1, <2>3, <2>4 DEF t
<1>12. /\ Len(body) \in Nat /\ n <= Len(body) + 3 /\ Len(pkt) = Len(body) + 4
       /\ n <= Len(body) + 1 => prefix = << 36 >> \o SubSeq(body, 1, n - 1)
       /\ n = Len(body) + 2 => prefix = << 36 >> \o (body \o << 35 >>)
       /\ n = Len(body) + 3 => prefix = << 36 >> \o (body \o <<35, h>>)
  <2>1. Len(body) \in Nat /\ n <= Len(body) + 3 /\ Len(pkt) = Len(body) + 4
    BY <1>3, <1>4, <1>5
  <2>2. n <= Len(body) + 1 => prefix = << 36 >> \o SubSeq(body, 1, n - 1)
    BY <1>8
  <2> QED BY <2>1, <2>2, <1>10, <1>11
<1> QED BY <1>12 DEF prefix, pkt, body, h

LEMMA CutRead ==
  ASSUME NEW cut \in Seq(Byte), NEW n \in 0..(Len(Packet!putPkt(cut)) - 1)
  PROVE  /\ SubSeq(Packet!putPkt(cut), 1, n) \in Seq(Byte)
         /\ \E r : CutAt(cut, n, r) /\ Feeds(Packet!Receiver, SubSeq(Packet!putPkt(cut), 1, n), r)
<1> DEFINE body == Packet!Escaped(cut)
           prefix == SubSeq(Packet!putPkt(cut), 1, n)
           h == Packet!hex2Char(High(cut))
           start == Rcv("body", <<>>, 0, <<>>)
<1>1. /\ body \in Seq(BodyChar) /\ body \in Seq(Byte) /\ << 36 >> \in Seq(Byte)
      /\ 35 \in Byte /\ 35 \in NotStart /\ h \in Byte /\ h \in NotStart
  BY PacketParts, SumDigits, DigitRight, BodyCharsAreBytes
<1>2. Feeds(Packet!Receiver, << 36 >>, start)
  BY FeedsStart, ReceiverIs
<1>3. CASE n = 0
  <2>1. prefix = <<>> /\ <<>> \in Seq(Byte)
    BY <1>3, SubSeqEmpty, EmptySeq
  <2>2. Feeds(Packet!Receiver, <<>>, Packet!Receiver)
    BY FeedsNone
  <2>3. CutAt(cut, n, Packet!Receiver)
    <3>1. Len(Packet!Escaped(cut)) \in Nat
      BY <1>1, LenProperties
    <3> QED BY <1>3, <3>1, ReceiverIs DEF CutAt
  <2> HIDE DEF prefix
  <2> QED BY <2>1, <2>2, <2>3 DEF prefix
<1>4. CASE n # 0
  <2>1. n \in 1..(Len(Packet!putPkt(cut)) - 1)
    BY <1>4
  <2>2. /\ Len(body) \in Nat /\ n <= Len(body) + 3
        /\ n <= Len(body) + 1 => prefix = << 36 >> \o SubSeq(body, 1, n - 1)
        /\ n = Len(body) + 2 => prefix = << 36 >> \o (body \o << 35 >>)
        /\ n = Len(body) + 3 => prefix = << 36 >> \o (body \o <<35, h>>)
    BY <2>1, CutParts
  <2>3. n \in Nat /\ n >= 1
    BY <2>1
  <2> HIDE DEF body, prefix, h, start
  <2>4. ASSUME NEW b \in Seq(Byte), NEW r, prefix = << 36 >> \o b, Feeds(start, b, r), CutAt(cut, n, r)
        PROVE  prefix \in Seq(Byte) /\ \E q : CutAt(cut, n, q) /\ Feeds(Packet!Receiver, prefix, q)
    <3>1. prefix \in Seq(Byte)
      BY <1>1, <2>4, ConcatProperties
    <3>2. Feeds(Packet!Receiver, prefix, r)
      BY <1>1, <1>2, <2>4, FeedsBoth
    <3> QED BY <2>4, <3>1, <3>2
  <2>5. CASE n <= Len(body) + 1
    <3> DEFINE b == SubSeq(body, 1, n - 1)
    <3>1. b \in Seq(BodyChar) /\ b \in Seq(Byte)
      <4>1. \A i \in 1..(n - 1) : i \in 1..Len(body) /\ body[i] \in BodyChar
        BY <1>1, <2>2, <2>3, <2>5, ElementOfSeq
      <4>2. 1 \in Int /\ n - 1 \in Int
        BY <2>3
      <4>3. b \in Seq(BodyChar)
        BY <4>1, <4>2, SubSeqProperties
      <4> QED BY <4>3, BodyCharsAreBytes
    <3> HIDE DEF b
    <3>2. Feeds(start, b, BodyRead(b, 0, <<>>))
      BY <3>1, FeedsBody DEF start
    <3>3. CutAt(cut, n, BodyRead(b, 0, <<>>))
      BY <2>5, BodyReadAt DEF CutAt, body
    <3>4. prefix = << 36 >> \o b
      BY <2>2, <2>5 DEF b
    <3> QED BY <2>4, <3>1, <3>2, <3>3, <3>4 DEF prefix
  <2>6. ASSUME NEW t \in Seq(NotStart), NEW r, prefix = << 36 >> \o (body \o t),
               Packet!Fits(cut) => Feeds(Rcv("body", body, 0, <<>>), t, r) /\ CutAt(cut, n, r)
        PROVE  prefix \in Seq(Byte) /\ \E q : CutAt(cut, n, q) /\ Feeds(Packet!Receiver, prefix, q)
    <3>1. t \in Seq(Byte) /\ body \o t \in Seq(Byte)
      BY <1>1, ConcatProperties, BodyCharsAreBytes
    <3>2. Feeds(start, body, BodyRead(body, 0, <<>>))
      BY <1>1, FeedsBody DEF start
    <3>3. CASE Packet!Fits(cut)
      <4>1. BodyRead(body, 0, <<>>) = Rcv("body", body, 0, <<>>)
        BY <3>3, BodyReadCases DEF body
      <4>2. Feeds(start, body \o t, r)
        BY <1>1, <2>6, <3>1, <3>2, <3>3, <4>1, FeedsBoth
      <4> QED BY <2>4, <2>6, <3>1, <3>3, <4>2
    <3>4. CASE ~Packet!Fits(cut)
      <4> DEFINE d == SubSeq(body, 1, BufSize - 1)
                 lost == Rcv("hunt", d, 0, <<>>)
      <4>1. BodyRead(body, 0, <<>>) = lost
        BY <3>4, BodyReadCases DEF body
      <4>2. Feeds(lost, t, lost)
        BY FeedsHunt
      <4>3. CutAt(cut, n, lost)
        BY <3>4 DEF CutAt
      <4> HIDE DEF lost
      <4>4. Feeds(start, body \o t, lost)
        BY <1>1, <3>1, <3>2, <4>1, <4>2, FeedsBoth
      <4> QED BY <2>4, <2>6, <3>1, <4>3, <4>4
    <3> QED BY <3>3, <3>4
  <2>7. CASE n = Len(body) + 2
    <3> DEFINE t == << 35 >>
               r == Rcv("digit1", body, 0, <<>>)
    <3>1. t \in Seq(NotStart)
      BY <1>1
    <3>2. Feeds(Rcv("body", body, 0, <<>>), t, r)
      BY FeedsTail DEF body
    <3>3. Packet!Fits(cut) => CutAt(cut, n, r)
      BY <2>7 DEF CutAt, body
    <3>4. prefix = << 36 >> \o (body \o t)
      BY <2>2, <2>7
    <3> HIDE DEF t, r
    <3>5. prefix \in Seq(Byte) /\ \E q : CutAt(cut, n, q) /\ Feeds(Packet!Receiver, prefix, q)
      BY <2>6, <3>1, <3>2, <3>3, <3>4
    <3> QED BY <3>5 DEF prefix
  <2>8. CASE n = Len(body) + 3
    <3> DEFINE t == <<35, h>>
               r == Rcv("digit2", body, 16 * High(cut), <<>>)
    <3>1. t \in Seq(NotStart)
      BY <1>1
    <3>2. Feeds(Rcv("body", body, 0, <<>>), t, r)
      BY FeedsTail DEF body, h
    <3>3. Packet!Fits(cut) => CutAt(cut, n, r)
      BY <2>8 DEF CutAt, body
    <3>4. prefix = << 36 >> \o (body \o t)
      BY <2>2, <2>8
    <3> HIDE DEF t, r
    <3>5. prefix \in Seq(Byte) /\ \E q : CutAt(cut, n, q) /\ Feeds(Packet!Receiver, prefix, q)
      BY <2>6, <3>1, <3>2, <3>3, <3>4
    <3> QED BY <3>5 DEF prefix
  <2>9. n <= Len(body) + 1 \/ n = Len(body) + 2 \/ n = Len(body) + 3
    BY <2>2, <2>3
  <2> QED BY <2>5, <2>7, <2>8, <2>9 DEF prefix
<1> QED BY <1>3, <1>4

\* A packet is its start, one more character, and what follows that.
LEMMA NextParts ==
  ASSUME NEW data \in Seq(Byte)
  PROVE  \E first \in NotStart, more \in Seq(NotStart) :
           /\ Packet!putPkt(data) = << 36 >> \o (<<first>> \o more)
           /\ Packet!putPkt(data)[1] = 36 /\ Packet!putPkt(data)[2] = first
<1> DEFINE rest == Rest(data)
           body == Packet!Escaped(data)
<1>1. /\ rest \in Seq(NotStart) /\ Packet!putPkt(data) = << 36 >> \o rest
      /\ body \in Seq(NotStart) /\ Tail3(data) \in Seq(NotStart) /\ << 36 >> \in Seq(Byte)
      /\ rest \in Seq(Byte)
  BY PacketParts, BodyCharsAreBytes
<1>2. Len(rest) \in Nat /\ Len(rest) >= 1
  <2>1. Len(Tail3(data)) = 3
    BY DEF Tail3
  <2>2. Len(body) \in Nat
    BY <1>1, LenProperties
  <2>3. Len(rest) = Len(body) + Len(Tail3(data))
    BY <1>1, ConcatProperties DEF Rest
  <2> QED BY <2>1, <2>2, <2>3
<1> HIDE DEF rest
<1> DEFINE more == SubSeq(rest, 2, Len(rest))
<1>3. rest = <<rest[1]>> \o more
  <2>1. 1 \in 1..Len(rest) /\ Len(rest) \in 1..Len(rest) /\ 1 + 1 = 2
    BY <1>2
  <2>2. SubSeq(rest, 1, Len(rest)) = <<rest[1]>> \o SubSeq(rest, 1 + 1, Len(rest))
    BY <1>1, <2>1, SubSeqRecursiveFirst
  <2>3. SubSeq(rest, 1, Len(rest)) = rest
    BY <1>1, SubSeqFull
  <2> QED BY <2>1, <2>2, <2>3
<1>4. more \in Seq(NotStart)
  <2>1. \A i \in 2..Len(rest) : i \in 1..Len(rest) /\ rest[i] \in NotStart
    BY <1>1, <1>2, ElementOfSeq
  <2>2. 2 \in Int /\ Len(rest) \in Int
    BY <1>2
  <2> QED BY <2>1, <2>2, SubSeqProperties
<1>5. rest[1] \in NotStart
  BY <1>1, <1>2, ElementOfSeq
<1>6. Packet!putPkt(data)[1] = 36 /\ Packet!putPkt(data)[2] = rest[1]
  <2>1. Len(<< 36 >>) = 1 /\ << 36 >>[1] = 36
    OBVIOUS
  <2> DEFINE q == << 36 >> \o rest
  <2>2. \A i \in 1..(1 + Len(rest)) : q[i] = IF i <= 1 THEN << 36 >>[i] ELSE rest[i - 1]
    BY <1>1, <2>1, ConcatProperties
  <2> HIDE DEF q
  <2>3. 1 \in 1..(1 + Len(rest)) /\ 2 \in 1..(1 + Len(rest)) /\ ~(2 <= 1) /\ 2 - 1 = 1
    BY <1>2
  <2>4. q[1] = 36 /\ q[2] = rest[1]
    BY <2>1, <2>2, <2>3
  <2> QED BY <1>1, <2>4 DEF q
<1> HIDE DEF more
<1> QED BY <1>1, <1>3, <1>4, <1>5, <1>6

\* A start is read as 255, whatever follows it as a byte.
LEMMA NotADigit ==
  ASSUME NEW ch \in Byte
  PROVE  Packet!char2Hex(ch) \in 0..255 /\ Packet!char2Hex(36) = 255
BY DEF Packet!char2Hex, Byte

\* The verdict on what is read for the second digit.
LEMMA DigitStepsFor ==
  \A d, x, a, ch :
    /\ (x + Packet!char2Hex(ch)) % 256 = Packet!Checksum(d) =>
         Packet!getRspChar(Rcv("digit2", d, x, a), ch) = Rcv("done", d, x, Append(a, "+"))
    /\ (x + Packet!char2Hex(ch)) % 256 # Packet!Checksum(d) =>
         Packet!getRspChar(Rcv("digit2", d, x, a), ch) = Rcv("hunt", d, x, Append(a, "-"))
BY DigitSteps

LEMMA SumOver == \A m \in 0..255 : (256 + m) % 256 = m
OBVIOUS

\* What the receiver has become behind the packet that follows the one cut short.
OnceRight(cut, data, n, q) ==
  IF Packet!Fits(cut) /\ n = Len(Packet!Escaped(cut)) + 2 /\ Packet!TakenForSum(cut, Packet!putPkt(data))
  THEN \E x, a : q = Rcv("done", Packet!Escaped(cut), x, a)
  ELSE \/ \E x, a : q = Rcv("done", Packet!Escaped(data), x, a)
       \/ \E d, x : q = Rcv("hunt", d, x, <<"-">>)

LEMMA CutOnce ==
  ASSUME NEW cut \in Seq(Byte), NEW data \in Seq(Byte), Packet!Fits(data),
         NEW n \in Nat, NEW r, CutAt(cut, n, r)
  PROVE  \E q : Feeds(r, Packet!putPkt(data), q) /\ OnceRight(cut, data, n, q)
<1> DEFINE body == Packet!Escaped(cut)
           next == Packet!putPkt(data)
<1>1. Len(body) \in Nat
  BY PacketParts, LenProperties
<1>2. Append(<<>>, "-") = <<"-">>
  OBVIOUS
<1>3. CASE /\ Packet!Fits(cut) => n <= Len(body) + 1
           /\ \E at \in {"hunt", "body"} : \E d, x : r = Rcv(at, d, x, <<>>)
  <2>0. PICK at \in {"hunt", "body"} : \E d, x : r = Rcv(at, d, x, <<>>)
    BY <1>3
  <2>1. PICK d, x : r = Rcv(at, d, x, <<>>)
    BY <2>0
  <2>2. Feeds(r, next, PacketRead(data, x, <<>>))
    BY <2>1, FeedsPacket
  <2>3. PacketRead(data, x, <<>>) = Rcv("done", Packet!Escaped(data), 16 * High(data), Append(<<>>, "+"))
    BY DEF PacketRead
  <2>4. ~(Packet!Fits(cut) /\ n = Len(body) + 2)
    BY <1>1, <1>3
  <2>5. OnceRight(cut, data, n, PacketRead(data, x, <<>>))
    BY <2>3, <2>4 DEF OnceRight
  <2> QED BY <2>2, <2>5
<1>4. PICK first \in NotStart, more \in Seq(NotStart) :
        next = << 36 >> \o (<<first>> \o more) /\ next[1] = 36 /\ next[2] = first
  BY NextParts
<1>5. /\ << 36 >> \in Seq(Byte) /\ <<first>> \in Seq(Byte) /\ <<first>> \in Seq(NotStart)
      /\ more \in Seq(Byte) /\ <<first>> \o more \in Seq(Byte) /\ <<first>> \o more \in Seq(NotStart)
      /\ first \in Byte /\ 36 \in Byte
  <2>1. first \in Byte /\ 36 \in Byte /\ more \in Seq(Byte)
    BY BodyCharsAreBytes
  <2>2. << 36 >> \in Seq(Byte) /\ <<first>> \in Seq(Byte) /\ <<first>> \in Seq(NotStart)
    BY <2>1
  <2> QED BY <2>1, <2>2, ConcatProperties
<1>6. Packet!char2Hex(first) \in 0..255 /\ Packet!char2Hex(36) = 255
  BY <1>5, NotADigit
<1>7. CASE Packet!Fits(cut) /\ n = Len(body) + 2 /\ r = Rcv("digit1", body, 0, <<>>)
  <2> DEFINE k == 240
             half == Rcv("digit2", body, k, <<>>)
             c == Packet!char2Hex(first)
  <2>1. Packet!getRspChar(r, 36) = half
    <3>1. Packet!getRspChar(r, 36) = Rcv("digit2", body, (Packet!char2Hex(36) * 16) % 256, <<>>)
      BY <1>7, DigitSteps
    <3>2. (Packet!char2Hex(36) * 16) % 256 = 240
      BY <1>6
    <3> QED BY <3>1, <3>2
  <2>2. Packet!TakenForSum(cut, next) <=> Packet!Checksum(body) = (k + c) % 256
    <3>1. Packet!TakenForSum(cut, next) <=> Packet!Checksum(body) = (255 * 16 + c) % 256
      BY <1>4, <1>6 DEF Packet!TakenForSum
    <3>2. c \in 0..255
      BY <1>6
    <3> HIDE DEF c
    <3>3. (255 * 16 + c) % 256 = (240 + c) % 256
      BY <3>2
    <3> QED BY <3>1, <3>3
  <2> HIDE DEF k
  <2>3. Feeds(r, << 36 >>, half)
    BY <1>5, <2>1, FeedsOne
  <2>4. CASE Packet!TakenForSum(cut, next)
    <3> DEFINE q == Rcv("done", body, k, Append(<<>>, "+"))
    <3>1. Packet!getRspChar(half, first) = q
      <4>1. (k + Packet!char2Hex(first)) % 256 = Packet!Checksum(body)
        BY <2>2, <2>4
      <4> HIDE DEF body
      <4> QED BY <4>1, DigitStepsFor
    <3> HIDE DEF half
    <3>2. Feeds(half, <<first>>, q)
      BY <1>5, <3>1, FeedsOne
    <3>3. Feeds(q, more, q)
      BY <1>5, FeedsDone
    <3>4. OnceRight(cut, data, n, q)
      BY <1>7, <2>4 DEF OnceRight
    <3> HIDE DEF q
    <3>5. Feeds(half, <<first>> \o more, q)
      BY <1>5, <3>2, <3>3, FeedsBoth
    <3>6. Feeds(r, << 36 >> \o (<<first>> \o more), q)
      BY <1>5, <2>3, <3>5, FeedsBoth
    <3> QED BY <1>4, <3>4, <3>6
  <2>5. CASE ~Packet!TakenForSum(cut, next)
    <3> DEFINE q == Rcv("hunt", body, k, <<"-">>)
    <3>1. Packet!getRspChar(half, first) = q
      <4>1. (k + Packet!char2Hex(first)) % 256 # Packet!Checksum(body)
        BY <2>2, <2>5
      <4> HIDE DEF body
      <4>2. Packet!getRspChar(half, first) = Rcv("hunt", body, k, Append(<<>>, "-"))
        BY <4>1, DigitStepsFor
      <4> QED BY <1>2, <4>2
    <3> HIDE DEF half
    <3>2. Feeds(half, <<first>>, q)
      BY <1>5, <3>1, FeedsOne
    <3>3. Feeds(q, more, q)
      BY FeedsHunt
    <3>4. OnceRight(cut, data, n, q)
      BY <2>5 DEF OnceRight
    <3> HIDE DEF q
    <3>5. Feeds(half, <<first>> \o more, q)
      BY <1>5, <3>2, <3>3, FeedsBoth
    <3>6. Feeds(r, << 36 >> \o (<<first>> \o more), q)
      BY <1>5, <2>3, <3>5, FeedsBoth
    <3> QED BY <1>4, <3>4, <3>6
  <2> QED BY <2>4, <2>5
<1>8. CASE Packet!Fits(cut) /\ n = Len(body) + 3 /\ r = Rcv("digit2", body, 16 * High(cut), <<>>)
  <2> DEFINE q == Rcv("hunt", body, 16 * High(cut), <<"-">>)
             H == High(cut)
             L == Low(cut)
  <2>1. (16 * H + 255) % 256 # 16 * H + L
    <3>1. H \in 0..15 /\ L \in 0..15
      BY SumDigits
    <3> HIDE DEF H, L
    <3>2. H = 0 => (16 * H + 255) % 256 = 255
      BY <3>1
    <3>3. H # 0 => (16 * H + 255) % 256 = 16 * H - 1
      <4> SUFFICES ASSUME H # 0 PROVE (16 * H + 255) % 256 = 16 * H - 1
        OBVIOUS
      <4>1. 16 * H + 255 = 256 + (16 * H - 1) /\ 16 * H - 1 \in 0..255
        BY <3>1
      <4> DEFINE m == 16 * H - 1
      <4>2. m \in 0..255 /\ 16 * H + 255 = 256 + m
        BY <4>1
      <4> HIDE DEF m
      <4>3. (256 + m) % 256 = m
        BY <4>2, SumOver
      <4>4. (16 * H + 255) % 256 = m
        BY <4>2, <4>3
      <4> QED BY <4>4 DEF m
    <3> QED BY <3>1, <3>2, <3>3
  <2>2. (16 * High(cut) + Packet!char2Hex(36)) % 256 # Packet!Checksum(body)
    BY <1>6, <2>1, SumDigits
  <2>3. Packet!getRspChar(r, 36) = q
    <3> HIDE DEF body
    <3>1. Packet!getRspChar(r, 36) = Rcv("hunt", body, 16 * High(cut), Append(<<>>, "-"))
      BY <1>8, <2>2, DigitStepsFor
    <3> QED BY <1>2, <3>1
  <2>4. Feeds(q, <<first>> \o more, q)
    BY <1>5, FeedsHunt
  <2>5. OnceRight(cut, data, n, q)
    BY <1>1, <1>8 DEF OnceRight
  <2> HIDE DEF q
  <2>6. Feeds(r, << 36 >>, q)
    BY <1>5, <2>3, FeedsOne
  <2>7. Feeds(r, << 36 >> \o (<<first>> \o more), q)
    BY <1>5, <2>4, <2>6, FeedsBoth
  <2> QED BY <1>4, <2>5, <2>7
<1> QED BY <1>3, <1>7, <1>8 DEF CutAt

\* Wherever a packet is cut short, the one behind it gets through, the second time at
\* the latest, but for a checksum that is right by chance: for all data that fit, and
\* whatever was cut short (getPkt).
THEOREM EveryCutHeals ==
  \A cut, data \in Seq(Byte) : Packet!Fits(data) => Packet!CutHeals(cut, data)
<1> SUFFICES ASSUME NEW cut \in Seq(Byte), NEW data \in Seq(Byte), Packet!Fits(data),
                    NEW n \in 0..(Len(Packet!putPkt(cut)) - 1)
             PROVE  LET next == Packet!putPkt(data)
                        stream == SubSeq(Packet!putPkt(cut), 1, n) \o next
                        once == Packet!getPkt(stream)
                        again == Packet!getPkt(stream \o next)
                    IN IF /\ Packet!Fits(cut) /\ n = Len(Packet!Escaped(cut)) + 2
                          /\ Packet!TakenForSum(cut, next)
                       THEN once.at = "done" /\ once.data = Packet!Escaped(cut)
                       ELSE /\ again.at = "done" /\ again.data = Packet!Escaped(data)
                            /\ once.at # "done" => once.answers = <<"-">>
  BY DEF Packet!CutHeals
<1> DEFINE next == Packet!putPkt(data)
           prefix == SubSeq(Packet!putPkt(cut), 1, n)
           stream == prefix \o next
           once == Packet!getPkt(stream)
           again == Packet!getPkt(stream \o next)
<1>1. PICK r : CutAt(cut, n, r) /\ Feeds(Packet!Receiver, prefix, r)
  BY CutRead
<1>2. prefix \in Seq(Byte) /\ next \in Seq(Byte)
  BY CutRead, PacketParts
<1>3. PICK q : Feeds(r, next, q) /\ OnceRight(cut, data, n, q)
  <2>1. n \in Nat
    OBVIOUS
  <2> QED BY <1>1, <2>1, CutOnce
<1> HIDE DEF prefix, next
<1>4. Feeds(Packet!Receiver, stream, q) /\ stream \in Seq(Byte)
  BY <1>1, <1>2, <1>3, FeedsBoth, ConcatProperties
<1> HIDE DEF stream
<1>5. once = q
  BY <1>4, FeedsFirst
<1>6. ASSUME NEW t, Feeds(q, next, t) PROVE again = t
  <2>1. Feeds(Packet!Receiver, stream \o next, t) /\ stream \o next \in Seq(Byte)
    BY <1>2, <1>4, <1>6, FeedsBoth, ConcatProperties
  <2> QED BY <2>1, FeedsFirst
<1> DEFINE Taken == Packet!Fits(cut) /\ n = Len(Packet!Escaped(cut)) + 2 /\ Packet!TakenForSum(cut, next)
<1>7. Taken => once.at = "done" /\ once.data = Packet!Escaped(cut)
  BY <1>3, <1>5, RcvFields DEF OnceRight, next
<1>8. ~Taken => /\ again.at = "done" /\ again.data = Packet!Escaped(data)
                /\ once.at # "done" => once.answers = <<"-">>
  <2> SUFFICES ASSUME ~Taken
               PROVE  /\ again.at = "done" /\ again.data = Packet!Escaped(data)
                      /\ once.at # "done" => once.answers = <<"-">>
    OBVIOUS
  <2>1. \/ \E x, a : q = Rcv("done", Packet!Escaped(data), x, a)
        \/ \E d, x : q = Rcv("hunt", d, x, <<"-">>)
    BY <1>3 DEF OnceRight, next
  <2>2. CASE \E x, a : q = Rcv("done", Packet!Escaped(data), x, a)
    <3>1. PICK x, a : q = Rcv("done", Packet!Escaped(data), x, a)
      BY <2>2
    <3>2. Feeds(q, next, q)
      BY <1>2, <3>1, FeedsDone
    <3>3. again = q
      BY <1>6, <3>2
    <3> HIDE DEF again, once
    <3> QED BY <1>5, <3>1, <3>3, RcvFields
  <2>3. CASE \E d, x : q = Rcv("hunt", d, x, <<"-">>)
    <3>1. PICK d, x : q = Rcv("hunt", d, x, <<"-">>)
      BY <2>3
    <3>2. Feeds(q, next, PacketRead(data, x, <<"-">>))
      BY <3>1, FeedsPacket DEF next
    <3>3. again = Rcv("done", Packet!Escaped(data), 16 * High(data), Append(<<"-">>, "+"))
      BY <1>6, <3>2 DEF PacketRead
    <3> HIDE DEF again, once
    <3> QED BY <1>5, <3>1, <3>3, RcvFields
  <2> QED BY <2>1, <2>2, <2>3
<1> QED BY <1>7, <1>8 DEF once, again, stream, prefix, next

\* The packets of the run that are cut short are among them (getPkt).
LEMMA CutPacketsHealHolds == CutPacketsHeal
<1>1. {36, 1, 239} \subseteq Byte /\ 2 \in Nat
  BY DEF Byte
<1> QED BY <1>1, SmallData, EveryCutHeals DEF CutPacketsHeal

-----------------------------------------------------------------------------
(* The link as a whole.                                                    *)

\* What the server builds on when it carries out a request holds: the map of the TAP
\* is the shortest way, resets and scans do what they should, packets arrive and
\* heal, binary writes are right for whole words only, and no hardware matchpoint
\* is ever removed (rspClientRequest and everything below it).
THEOREM LinkAlwaysCarries == Spec => []LinkCarries
<1>1. LinkRight
  BY TapMapOptimalHolds, ResetRightHolds, ScanRightHolds, PacketsDeliveredHolds,
     CutPacketsHealHolds, BinaryWritesHold, HwMatchpointsStayHolds DEF LinkRight
<1>2. LinkCarries
  BY <1>1 DEF LinkCarries
<1>3. QED
  BY <1>2, PTL

=============================================================================
