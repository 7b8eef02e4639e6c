-------------------------------- MODULE MExu --------------------------------
(***************************************************************************)
(* The execution unit of a CPU (MExu, sysc/exu.cpp): MainThread between    *)
(* the IFU and the LSU, the special purpose registers and the CPU modes.   *)
(*                                                                         *)
(* An action is what the thread does at a clock edge, until its next       *)
(* wait(): exu_state tells which one.  Registers and lines are signals,    *)
(* which change behind the edge.  The data of the register file is left    *)
(* out: addresses, flags and special values an instruction computes are    *)
(* any the program of the workload may give.                               *)
(***************************************************************************)
EXTENDS MIfu, Sequences, Functions

CONSTANTS
  Target,           \* addresses instructions jump to
  VECTOR,           \* address of the exception routine
  CPU               \* CPUs by number; number 0 is the CePU

ASSUME ExuAssumption == /\ Target \subseteq Address /\ Target # {}
                        /\ VECTOR \in Address
                        /\ CPU \subseteq Nat /\ 0 \in CPU

VARIABLES
  localID,          \* the CPU this is (constructor)
  workload,         \* its program: sr, the flags instructions may set
  exu_state,        \* where MainThread waits
  insn,             \* its instruction
  mode,             \* the CPU runs
  sr,               \* flags and enable bits that are set
  regEPCR, regESR, regCPUEN,
  lsu_op, lsu_adr, lsu_rlink_wcond,       \* to the LSU
  lsu_ack, lsu_wcond_ok                   \* from the LSU

ifuLines == <<ifu_next, ifu_jump, ifu_jump_adr>>
lsuLines == <<lsu_op, lsu_adr, lsu_rlink_wcond>>
regs     == <<mode, sr, regEPCR, regESR, regCPUEN>>
exuVars  == <<exu_state, insn, regs, ifuLines, lsuLines>>

inCePU  == localID = 0
CacheOp == {"writeback", "invalidate", "writeback_invalidate"}

-----------------------------------------------------------------------------
(* The supervision register (GetSpr, SetSpr): a value is the set of the    *)
(* numbers of its bits that are 1.                                         *)

\* From bit 0 on, as GetSpr concatenates them.
SrLayout == <<"SM", "TEE", "IEE", "DCE", "ICE", "DME", "IME", "LEE", "CE", "F",
              "CY", "OV", "OVE", "DSX", "EPH", "FO", "SUMRA">>

GetSR(flags) == {n - 1 : n \in {m \in DOMAIN SrLayout :
                                  SrLayout[m] \in flags \cup {"SM", "FO"}}}

\* Faulty variant: the bits of another flag.
SetSR_Shifted(value) ==
  {f \in {"SUMRA", "OV", "CY", "F", "ICE", "DCE", "IEE"} :
     CASE f = "SUMRA" -> 16 \in value [] f = "OV" -> 12 \in value
       [] f = "CY" -> 11 \in value    [] f = "F" -> 10 \in value
       [] f = "ICE" -> 4 \in value    [] f = "DCE" -> 3 \in value
       [] f = "IEE" -> 2 \in value}
SetSR(value) ==
  {f \in {"SUMRA", "OV", "CY", "F", "ICE", "DCE", "IEE"} :
     CASE f = "SUMRA" -> 16 \in value [] f = "OV" -> 11 \in value
       [] f = "CY" -> 10 \in value    [] f = "F" -> 9 \in value
       [] f = "ICE" -> 4 \in value    [] f = "DCE" -> 3 \in value
       [] f = "IEE" -> 2 \in value}

\* l.mtspr; all other registers are read-only or have no effect.
SetSpr ==
  \/ /\ \E flags \in SUBSET workload.sr : sr' = SetSR(GetSR(flags))
     /\ UNCHANGED <<regEPCR, regCPUEN>>
  \/ /\ regEPCR' \in Target
     /\ UNCHANGED <<sr, regCPUEN>>
  \/ /\ inCePU /\ regCPUEN' \in SUBSET CPU
     /\ UNCHANGED <<sr, regEPCR>>

-----------------------------------------------------------------------------
(* Ends of instructions.                                                   *)

Drive(next, jump, adr, state) ==
  /\ ifu_next' = next /\ ifu_jump' = jump /\ ifu_jump_adr' = adr
  /\ exu_state' = state

GoOn == Drive(TRUE, FALSE, ifu_jump_adr, "top")

\* The request is made, and "while (lsu_ack == 0) wait (1)" looks at the line
\* before the LSU has seen it.
Await(op, adr, state) ==
  /\ lsu_adr' = adr
  /\ IF lsu_ack THEN GoOn /\ lsu_op' = "none"
     ELSE /\ lsu_op' = op /\ exu_state' = state
          /\ UNCHANGED ifuLines

-----------------------------------------------------------------------------
(* Instructions.                                                           *)

\* ALU, set flag, l.nop, l.mfspr; some need more clocks than one.
Compute ==
  /\ insn'.kind = "alu"
  /\ \E flags \in SUBSET (workload.sr \cap {"F", "CY", "OV"}) :
       sr' = (sr \ {"F", "CY", "OV"}) \cup flags
  /\ \/ GoOn
     \/ exu_state' = "execute" /\ UNCHANGED ifuLines
  /\ UNCHANGED <<mode, regEPCR, regESR, regCPUEN, lsuLines>>

MoveToSpr ==
  /\ insn'.kind = "mtspr"
  /\ SetSpr /\ GoOn
  /\ UNCHANGED <<mode, regESR, lsuLines>>

\* A load linked sets lsu_rlink_wcond, which nothing resets.
LoadStore ==
  /\ insn'.kind \in {"load", "store", "ll"}
  /\ \E adr \in Target : Await(IF insn'.kind = "store" THEN "wr" ELSE "rd", adr, "access")
  /\ lsu_rlink_wcond' = (lsu_rlink_wcond \/ insn'.kind = "ll")
  /\ UNCHANGED regs

\* A store conditional asks for the link before it makes its request.
StoreConditional ==
  /\ insn'.kind = "sc"
  /\ IF lsu_wcond_ok
     THEN /\ \E adr \in Target : Await("wr", adr, "access")
          /\ sr' = IF lsu_ack THEN sr \cup {"F"} ELSE sr
     ELSE /\ GoOn /\ lsu_adr' \in Target /\ UNCHANGED lsu_op
          /\ sr' = sr \ {"F"}
  /\ UNCHANGED <<mode, regEPCR, regESR, regCPUEN, lsu_rlink_wcond>>

CacheControl ==
  /\ insn'.kind = "cache"
  /\ \E adr \in Target : lsu_adr' = adr
  /\ IF lsu_ack THEN lsu_op' = "none" /\ exu_state' = "flushed"
     ELSE lsu_op' = "flush" /\ exu_state' = "flush"
  /\ UNCHANGED <<regs, ifuLines, lsu_rlink_wcond>>

\* Jumps, and branches that are or are not taken.
Jump ==
  /\ \/ insn'.kind \in {"jump", "branch"} /\ Drive(TRUE, TRUE, insn'.target, "top")
     \/ insn'.kind = "branch" /\ GoOn
  /\ UNCHANGED <<regs, lsuLines>>

\* jal and jalr first get the link address, then jump.
\* Faulty variant: the link address is taken without a step.
JumpAndLink_NoStep ==
  /\ insn'.kind = "jal"
  /\ Drive(FALSE, FALSE, insn'.target, "link")
  /\ UNCHANGED <<regs, lsuLines>>
JumpAndLink ==
  /\ insn'.kind = "jal"
  /\ Drive(TRUE, FALSE, insn'.target, "link")
  /\ UNCHANGED <<regs, lsuLines>>

Halt ==
  /\ insn'.kind = "halt"
  /\ mode' = FALSE /\ exu_state' = "halted"
  /\ UNCHANGED <<sr, regEPCR, regESR, regCPUEN, ifuLines, lsuLines>>

\* The exception is handled at once ("if (exceptId > 0)").
SystemCall ==
  /\ insn'.kind = "sys" /\ inCePU
  /\ regESR' = GetSR(sr) /\ regEPCR' = npc /\ sr' = sr \ {"IEE"}
  /\ Drive(TRUE, TRUE, VECTOR, "except")
  /\ UNCHANGED <<mode, regCPUEN, lsuLines>>

ReturnFromException ==
  /\ insn'.kind = "rfe"
  /\ sr' = SetSR(regESR)
  /\ Drive(TRUE, TRUE, regEPCR, "rfe")
  /\ UNCHANGED <<mode, regEPCR, regESR, regCPUEN, lsuLines>>

-----------------------------------------------------------------------------
(* The clock edges of MainThread.                                          *)

Enabled == localID \in regCPUEN \/ inCePU

Takes == exu_state = "main" /\ Enabled /\ ir_valid

TakeInsn ==
  /\ Takes
  /\ insn' = ir
  /\ \/ Compute \/ MoveToSpr \/ LoadStore \/ StoreConditional \/ CacheControl
     \/ Jump \/ JumpAndLink \/ Halt \/ SystemCall \/ ReturnFromException

\* The main loop goes on waiting: there is no instruction, or the CPU is off.
Idle ==
  /\ exu_state = "main" /\ ~Takes
  /\ mode' = Enabled
  /\ UNCHANGED <<exu_state, insn, sr, regEPCR, regESR, regCPUEN, ifuLines, lsuLines>>

FinishCompute ==
  /\ exu_state = "execute"
  /\ GoOn \/ UNCHANGED <<exu_state, ifuLines>>
  /\ UNCHANGED <<insn, regs, lsuLines>>

\* Load or store: when it is acknowledged the data of a load comes one clock
\* later, when Preset is executed.
\* Faulty variant: the request is left to the preset of the control signals.
FinishAccess_KeepRequest ==
  /\ exu_state = "access" /\ lsu_ack
  /\ GoOn
  /\ sr' = IF insn.kind = "sc" THEN sr \cup {"F"} ELSE sr
  /\ UNCHANGED <<insn, mode, regEPCR, regESR, regCPUEN, lsuLines>>
FinishAccess ==
  /\ exu_state = "access" /\ lsu_ack
  /\ lsu_op' = "none" /\ GoOn
  /\ sr' = IF insn.kind = "sc" THEN sr \cup {"F"} ELSE sr
  /\ UNCHANGED <<insn, mode, regEPCR, regESR, regCPUEN, lsu_adr, lsu_rlink_wcond>>

\* Faulty variant: without "wait for 'lsu_ack' to go down".
FinishFlush_NoWait ==
  /\ exu_state = "flush" /\ lsu_ack
  /\ \E op \in CacheOp : Await(op, lsu_adr, "cache")
  /\ UNCHANGED <<insn, regs, lsu_rlink_wcond>>
FinishFlush ==
  /\ exu_state = "flush" /\ lsu_ack
  /\ lsu_op' = "none" /\ exu_state' = "flushed"
  /\ UNCHANGED <<insn, regs, ifuLines, lsu_adr, lsu_rlink_wcond>>

StartCacheOp ==
  /\ exu_state = "flushed"
  /\ \E op \in CacheOp : Await(op, lsu_adr, "cache")
  /\ UNCHANGED <<insn, regs, lsu_rlink_wcond>>

FinishCacheOp ==
  /\ exu_state = "cache" /\ lsu_ack
  /\ lsu_op' = "none" /\ GoOn
  /\ UNCHANGED <<insn, regs, lsu_adr, lsu_rlink_wcond>>

\* "preset control signals", then one clock for the outputs of the IFU.
Preset ==
  /\ exu_state = "top"
  /\ Drive(FALSE, FALSE, ifu_jump_adr, "main") /\ lsu_op' = "none"
  /\ UNCHANGED <<insn, regs, lsu_adr, lsu_rlink_wcond>>

LinkStep ==
  /\ exu_state = "link"
  /\ Drive(FALSE, FALSE, ifu_jump_adr, "link_wait") /\ UNCHANGED <<insn, regs, lsuLines>>

LinkJump ==
  /\ exu_state = "link_wait" /\ npc_valid
  /\ Drive(FALSE, TRUE, ifu_jump_adr, "top") /\ UNCHANGED <<insn, regs, lsuLines>>

\* "Wait & ignore delay slot instruction": both loops wait until an
\* instruction is there, then go on to the main loop.
ExceptionStep ==
  /\ exu_state = "except"
  /\ Drive(FALSE, FALSE, ifu_jump_adr, IF ir_valid THEN "main" ELSE "skip")
  /\ UNCHANGED <<insn, regs, lsuLines>>

RfeStep ==
  /\ exu_state = "rfe"
  /\ Drive(FALSE, FALSE, ifu_jump_adr, "skip") /\ UNCHANGED <<insn, regs, lsuLines>>

Skip ==
  /\ exu_state = "skip" /\ ir_valid
  /\ exu_state' = "main"
  /\ UNCHANGED <<insn, regs, ifuLines, lsuLines>>

\* Loops that wait for the IFU or the LSU, or for ever.
Wait ==
  /\ \/ exu_state = "skip" /\ ~ir_valid
     \/ exu_state = "link_wait" /\ ~npc_valid
     \/ exu_state \in {"access", "flush", "cache"} /\ ~lsu_ack
     \/ exu_state = "halted"
  /\ UNCHANGED exuVars

\* After reset.
ExuInit ==
  /\ exu_state = "main" /\ insn = ZeroInsn
  /\ localID \in CPU /\ mode = inCePU
  /\ sr = {} /\ regEPCR = 0 /\ regESR = {} /\ regCPUEN = {}
  /\ ifu_next = FALSE /\ ifu_jump = FALSE /\ ifu_jump_adr = 0
  /\ lsu_op = "none" /\ lsu_adr = 0 /\ lsu_rlink_wcond = FALSE

ExuEdge ==
  \/ TakeInsn \/ Idle \/ FinishCompute \/ FinishAccess \/ FinishFlush \/ StartCacheOp
  \/ FinishCacheOp \/ Preset \/ LinkStep \/ LinkJump \/ ExceptionStep \/ RfeStep
  \/ Skip \/ Wait

=============================================================================
