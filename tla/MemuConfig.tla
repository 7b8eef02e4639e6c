----------------------------- MODULE MemuConfig -----------------------------
(***************************************************************************)
(* Configuration of the ParaNut memory unit (sysc/config.h and the macros  *)
(* of sysc/memu.h) and the address helpers of sysc/memu.cpp.               *)
(*                                                                         *)
(* Ports are numbered as in the source.  CPU n owns the data read port n,  *)
(* the instruction read port CPU_CORES + n and the write port n.  On the   *)
(* vectors that hold all ports a write port n has index RPORTS + n and the *)
(* bus interface has index RPORTS + WPORTS.  Bit vectors of the source are *)
(* sets of indices here.                                                   *)
(***************************************************************************)
EXTENDS Integers

CONSTANTS
  CPU_CORES,      \* number of CPUs
  CACHE_BANKS,    \* words per cache line
  CACHE_SETS,     \* number of cache sets
  CACHE_WAYS,     \* associativity
  BR_PORTS        \* ports of each bank RAM

ASSUME ConfigAssumption ==
  /\ CPU_CORES \in Nat \ {0}
  /\ CACHE_BANKS \in Nat \ {0}
  /\ CACHE_SETS \in Nat \ {0}
  /\ CACHE_WAYS \in Nat \ {0}
  /\ BR_PORTS \in Nat \ {0}

WPORTS == CPU_CORES
RPORTS == 2 * CPU_CORES

CPU   == 0 .. CPU_CORES - 1
RP    == 0 .. RPORTS - 1
WP    == 0 .. WPORTS - 1
Bank  == 0 .. CACHE_BANKS - 1
Index == 0 .. CACHE_SETS - 1
Way   == 0 .. CACHE_WAYS - 1

\* IDX_RP, IDX_IP, IDX_WP and IDX_BUSIF of sysc/memu.cpp, and all of them.
IDX_RP(cpu) == cpu
IDX_IP(cpu) == WPORTS + cpu
IDX_WP(cpu) == RPORTS + cpu
IDX_BUSIF   == RPORTS + WPORTS
Port        == 0 .. RPORTS + WPORTS

\* The line-lock and tag-write vectors hold the write ports and, last, the
\* bus interface.
LOCK_BUSIF  == WPORTS
Locker      == 0 .. WPORTS

-----------------------------------------------------------------------------
(* Address arithmetic; addresses are byte addresses.                       *)

GetBankOfAdr(adr)  == (adr \div 4) % CACHE_BANKS
GetIndexOfAdr(adr) == (adr \div (4 * CACHE_BANKS)) % CACHE_SETS
GetTagOfAdr(adr)   == adr \div (4 * CACHE_BANKS * CACHE_SETS)

GetWayIndexOfAdr(adr, way) == GetIndexOfAdr(adr) + way * CACHE_SETS
GetIndexOfWayIndex(wiadr)  == wiadr % CACHE_SETS

ComposeAdress(tadr, iadr, bank) ==
  4 * (bank + CACHE_BANKS * (iadr + CACHE_SETS * tadr))

=============================================================================
