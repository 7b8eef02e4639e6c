---------------------------- MODULE DebugUnitSC -----------------------------
(***************************************************************************)
(* The debug unit of the GDB server (bench/sysc/src/DebugUnitSC.cpp) and,   *)
(* behind JTAG, the processor it stalls.                                   *)
(*                                                                         *)
(* An operation takes and returns both: unit is what the server remembers, *)
(* cpu what the hardware holds.  DebugUnitSC.h defines NOCACHE, so the     *)
(* next program counter is the only register that is cached: the hardware  *)
(* reads it as 0 from the moment it is written until the processor runs.   *)
(*                                                                         *)
(* The processor is modelled from how the server uses it: DMR1.ST stops it *)
(* after an instruction, a trap instruction stops it with DRR.TE set and   *)
(* its own address in PPC.  Its program is one loop over Addr.             *)
(***************************************************************************)
EXTENDS Naturals

CONSTANT
  LastAddr  \* the program lies at the addresses 1..LastAddr

ASSUME LastAssumption == LastAddr \in Nat /\ LastAddr >= 2

Addr == 1..LastAddr

Flushed == 0    \* what NPC reads after it has been written

NextAddr(a) == (a % LastAddr) + 1

\* What a word of memory may hold: as loaded, as the client wrote it, a trap.
Insn == {"loaded", "written", "trap"}

Unit == [stallState : {"UNKNOWN", "STALLED"}, npcCacheIsValid : BOOLEAN,
         npcCachedValue : Addr \cup {Flushed}]

Cpu == [stalled : BOOLEAN, npc : Addr, written : BOOLEAN, ppc : Addr,
        drr : {"none", "TE"}, singleStep : BOOLEAN, mem : [Addr -> Insn]]

-----------------------------------------------------------------------------
(* Stalling.                                                               *)

stall(s) == [s EXCEPT !.cpu.stalled = TRUE, !.unit.stallState = "STALLED"]

\* Mutant: the cached NPC stays.
unstall_KeepCache(s) == [s EXCEPT !.cpu.stalled = FALSE, !.unit.stallState = "UNKNOWN"]

unstall(s) == [s EXCEPT !.cpu.stalled = FALSE, !.unit.stallState = "UNKNOWN",
                        !.unit.npcCacheIsValid = FALSE, !.unit.npcCachedValue = Flushed]

\* Mutant: only what is remembered counts.
isStalled_Remembered(s) == s.unit.stallState = "STALLED"

\* A stalled processor stays so, hence it is not asked again.
isStalled(s) == s.unit.stallState = "STALLED" \/ s.cpu.stalled

\* isStalled remembers what it was told.
stallNoted(s) ==
  [s EXCEPT !.unit.stallState = IF isStalled(s) THEN "STALLED" ELSE "UNKNOWN"]

-----------------------------------------------------------------------------
(* The next program counter.                                               *)

SprNpc(cpu) == IF cpu.written THEN Flushed ELSE cpu.npc

CacheUsed(s) == s.unit.stallState = "STALLED" /\ s.unit.npcCacheIsValid

readNpc(s) == IF CacheUsed(s) THEN s.unit.npcCachedValue ELSE SprNpc(s.cpu)

CacheNpc(s, value) ==
  IF s.unit.stallState = "STALLED"
  THEN [s EXCEPT !.unit.npcCacheIsValid = TRUE, !.unit.npcCachedValue = value]
  ELSE s

\* Reading it fills the cache.
npcRead(s) == CacheNpc(s, readNpc(s))

\* The write is dropped when the cache says that it changes nothing.
writeSprNpc(s, addr) ==
  IF CacheUsed(s) /\ s.unit.npcCachedValue = addr THEN s
  ELSE [CacheNpc(s, addr) EXCEPT !.cpu.npc = addr, !.cpu.written = TRUE]

\* GdbServerSC::writeNpc reads before it writes.
writeNpc(s, addr) == IF addr = readNpc(s) THEN npcRead(s) ELSE writeSprNpc(npcRead(s), addr)

-----------------------------------------------------------------------------
(* The other registers and memory.                                         *)

clearDrr(s) == [s EXCEPT !.cpu.drr = "none"]

setSingleStep(s, on) == [s EXCEPT !.cpu.singleStep = on]

writeMem(s, addr, insn) == [s EXCEPT !.cpu.mem[addr] = insn]

\* The processor executes the instruction at NPC.
Execute(cpu) ==
  LET trap == cpu.mem[cpu.npc] = "trap" IN
    [cpu EXCEPT !.ppc = cpu.npc, !.npc = NextAddr(cpu.npc), !.written = FALSE,
                !.drr = IF trap THEN "TE" ELSE @,
                !.stalled = trap \/ cpu.singleStep]

=============================================================================
