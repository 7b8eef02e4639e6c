-------------------------------- MODULE MIfu --------------------------------
(***************************************************************************)
(* The instruction fetch unit of a CPU (MIfu, sysc/ifu.cpp): a prefetch    *)
(* buffer between a read port of the memory unit and the execution unit.   *)
(*                                                                         *)
(* Entry 0 of the buffer is the previous instruction, entry 1 the current  *)
(* one.  TransitionMethod is one clock edge.  Its buffers are signals, so  *)
(* whatever it reads of them is as it was before the edge.  Addresses are  *)
(* word addresses; an instruction is the record of the address it came     *)
(* from, its kind and, for a jump, its target.                             *)
(***************************************************************************)
EXTENDS Integers

CONSTANTS
  IFU_BUF_SIZE,
  ADDRESSES         \* number of word addresses; TWord wraps around

ASSUME IfuAssumption ==
  /\ IFU_BUF_SIZE \in Nat \ (0 .. 3)
  /\ ADDRESSES \in Nat \ {0}

VARIABLES
  insn_buf, adr_buf, insn_top, adr_top, last_rp_ack,   \* registers
  rp_rd, rp_adr,                          \* to the read port
  rp_ack, rp_data,                        \* from the read port
  ifu_next, ifu_jump, ifu_jump_adr        \* from the EXU

ifuVars == <<insn_buf, adr_buf, insn_top, adr_top, last_rp_ack, rp_rd, rp_adr>>

Entry   == 0 .. IFU_BUF_SIZE - 1
Address == 0 .. ADDRESSES - 1
Succ(adr) == (adr + 1) % ADDRESSES

\* "zero" is what the buffer holds after reset: the instruction word 0, "l.j 0".
JumpKind == {"jump", "branch", "jal", "sys", "rfe", "zero"}
OtherKind == {"alu", "load", "store", "ll", "sc", "cache", "mtspr", "halt"}
Kind     == JumpKind \cup OtherKind
Insn     == [adr : Address, kind : Kind, target : Address]
IsJump(insn) == insn.kind \in JumpKind

ZeroInsn == [adr |-> 0, kind |-> "zero", target |-> 0]

-----------------------------------------------------------------------------
(* Outputs towards the EXU (OutputMethod).                                 *)

ir        == insn_buf[1]
ir_valid  == insn_top > 1
npc       == adr_buf[2]
npc_valid == adr_top > 2

-----------------------------------------------------------------------------
(* TransitionMethod.                                                       *)

ofs         == IF ifu_next THEN 1 ELSE 0
Shifted(buf) == [n \in Entry |-> IF n + ofs \in Entry THEN buf[n + ofs]
                                 ELSE buf[n]]
Popped(top) == IF top > 0 THEN top - ofs ELSE top

\* The next address in sequence is generated if there is room for it; then the
\* target of a jump is put behind the delay slot, which now is the current one.
AdrTop  == Popped(adr_top)
NextAdr == Succ(adr_buf[AdrTop - 1 + ofs])
\* Faulty variant: the target takes the place of the delay slot.
NewAdrBuf_NoDelaySlot ==
  LET seq == IF AdrTop \in Entry
             THEN [Shifted(adr_buf) EXCEPT ![AdrTop] = NextAdr]
             ELSE Shifted(adr_buf)
  IN  IF ifu_jump THEN [seq EXCEPT ![1] = ifu_jump_adr] ELSE seq
NewAdrBuf ==
  LET seq == IF AdrTop \in Entry
             THEN [Shifted(adr_buf) EXCEPT ![AdrTop] = NextAdr]
             ELSE Shifted(adr_buf)
  IN  IF ifu_jump THEN [seq EXCEPT ![2] = ifu_jump_adr] ELSE seq

NewAdrTop ==
  IF ifu_jump THEN 3
  ELSE IF AdrTop < IFU_BUF_SIZE THEN AdrTop + 1
  ELSE AdrTop

\* A jump drops what is behind the delay slot.
KeptInsns ==
  IF ifu_jump /\ Popped(insn_top) > 2 THEN 2 ELSE Popped(insn_top)

NewInsnTop == KeptInsns + (IF last_rp_ack THEN 1 ELSE 0)
NewInsnBuf == IF last_rp_ack
              THEN [Shifted(insn_buf) EXCEPT ![KeptInsns] = rp_data]
              ELSE Shifted(insn_buf)

\* The first entry that is neither filled nor will be by the read that is just
\* acknowledged.
Expected == NewInsnTop + (IF rp_ack THEN 1 ELSE 0)

\* The entry before it is the delay slot of a jump: what comes next is not
\* known before the jump is executed.
\* Faulty variants: without the shift of the buffer, or the delay slot waits.
JumpPending_NoShift  == Expected >= 2 /\ IsJump(insn_buf[Expected - 2])
JumpPending_OffByOne == Expected >= 1 /\ IsJump(insn_buf[Expected + ofs - 1])
JumpPending          == Expected >= 2 /\ IsJump(insn_buf[Expected + ofs - 2])

Request == /\ NewAdrTop > Expected
           /\ Expected + ofs \in Entry
           /\ ~JumpPending

RequestAdr == adr_buf[Expected + ofs]

\* After at least two clocks of reset.
IfuInit ==
  /\ insn_buf = [n \in Entry |-> ZeroInsn]
  /\ insn_top = 1 /\ adr_top = 1
  /\ \E start \in Address :
       adr_buf = [n \in Entry |-> CASE n = 0 -> start [] n = 1 -> Succ(start)
                                    [] OTHER -> 0]
  /\ last_rp_ack = FALSE /\ rp_rd = FALSE /\ rp_adr = 0

IfuEdge ==
  /\ insn_buf' = NewInsnBuf /\ insn_top' = NewInsnTop
  /\ adr_buf' = NewAdrBuf /\ adr_top' = NewAdrTop
  /\ last_rp_ack' = rp_ack
  /\ rp_rd' = Request
  /\ rp_adr' = IF Request THEN RequestAdr ELSE rp_adr

=============================================================================
