------------------------------- MODULE MCIfu --------------------------------
(***************************************************************************)
(* Instances of the CPU: programs and read ports, and the ALU for words    *)
(* small enough to try them all.                                           *)
(***************************************************************************)
EXTENDS IfuSystem, MAlu

ASSUME AluInstance == HALF = 2 ^ (WIDTH - 1)

Program(kinds, flags, clocks) == [kinds |-> kinds, sr |-> flags, acks |-> clocks]

Exception == {"sys", "rfe"}

\* Jumps of all kinds, and exceptions, from a read port that never acknowledges
\* in two clocks in a row; straight-line code from one that may do so for twice
\* the buffer; exceptions and flags; requests to the LSU; halt.
Programs ==
  {Program({"load", "jump", "branch", "jal"}, {}, 1),
   Program({"alu", "jal"} \cup Exception, {}, 1),
   Program({"alu"}, {}, 2 * IFU_BUF_SIZE),
   Program({"mtspr"} \cup Exception, {"CY"}, 1),
   Program({"store", "cache"}, {}, 1),
   Program({"ll", "sc"}, {"F"}, 1),
   Program({"halt", "alu"}, {}, 1)}

\* Jumps from a read port that may acknowledge in two clocks in a row.
FastJumps == {Program({"alu", "jump"}, {}, 2)}

-----------------------------------------------------------------------------
\* An instruction that is given to the ALU gets the result it promises, whatever
\* its operands and the carry flag are (RunAlu).
AluExecutes == exu_state = "execute" /\ insn.kind = "alu" => AluRight

=============================================================================
