----------------------------- MODULE CpuProofs ------------------------------
(***************************************************************************)
(* Proofs about a CPU, for every program, every size of the instruction    *)
(* buffer, and any answers of read port and load & store unit: no buffer   *)
(* overflows, the requests to the load & store unit are those LsuSystem    *)
(* takes for granted, the flags survive an exception, and the ALU computes *)
(* what it should, for words of every width.  The last part is about the   *)
(* order of the program, which takes the IFU and the EXU together: the     *)
(* invariant OrderInv says which entry of the buffer the EXU is at, what   *)
(* has been asked for behind it, and where a jump stops that.              *)
(***************************************************************************)
EXTENDS MCIfu, TLAPS

\* The registers of the SR that have an effect.
Flag == {"SUMRA", "OV", "CY", "F", "ICE", "DCE", "IEE"}

-----------------------------------------------------------------------------
(* Requests to the load & store unit.                                      *)

\* Where MainThread waits without a request.
Quiet == {"main", "top", "execute", "link", "link_wait", "except", "rfe", "skip",
          "halted"}

\* What MainThread asks for where it waits.
RequestOK ==
  \/ exu_state \in Quiet /\ lsu_op = "none"
  \/ /\ exu_state = "access"
     /\ \/ insn.kind \in {"load", "ll"} /\ lsu_op = "rd"
        \/ insn.kind \in {"store", "sc"} /\ lsu_op = "wr"
  \/ exu_state = "flush" /\ insn.kind = "cache" /\ lsu_op = "flush"
  \/ exu_state = "flushed" /\ insn.kind = "cache" /\ lsu_op = "none" /\ flushed
  \/ exu_state = "cache" /\ insn.kind = "cache" /\ lsu_op \in CacheOp

AckOK == lsu_ack => lsu_op # "none"

WaitOK == /\ exu_state = "execute" => insn.kind = "alu"
          /\ exu_state \in {"link", "link_wait"} => insn.kind = "jal"

RInv == RequestOK /\ AckOK /\ WaitOK

\* A step of MainThread: what becomes of the request, and what it has done when
\* it goes on to the next instruction.
StepOK ==
  /\ Client!Hold \/ Client!Withdraw \/ Client!Request
  /\ RequestOK' /\ WaitOK'
  /\ exu_state' = "top" =>
       /\ insn'.kind \in {"load", "ll"} => lsu_op = "rd" /\ lsu_ack
       /\ insn'.kind = "store" => lsu_op = "wr" /\ lsu_ack
       /\ insn'.kind = "cache" => lsu_op \in CacheOp /\ lsu_ack

LEMMA InitRequests == Init => RInv
  BY DEF Init, ExuInit, RInv, RequestOK, AckOK, WaitOK, Quiet

\* An instruction is taken without a request being there.
LEMMA TakeRequests ==
  ASSUME RInv, TakeInsn
  PROVE  StepOK
  <1>1. exu_state = "main" /\ lsu_op = "none" /\ ~lsu_ack
    BY DEF TakeInsn, Takes, RInv, RequestOK, AckOK
  <1>2. Client!Hold \/ Client!Withdraw \/ Client!Request <=> 
          (lsu_op' \in CacheOp => flushed /\ lsu_adr' = lsu_adr)
    BY <1>1 DEF Client!Hold, Client!Withdraw, Client!Request, Client!CacheOp, CacheOp
  <1>3. CASE Compute
    BY <1>1, <1>2, <1>3 DEF Compute, GoOn, Drive, lsuLines, StepOK, RequestOK, WaitOK,
                            Quiet, CacheOp
  <1>4. CASE MoveToSpr
    BY <1>1, <1>2, <1>4 DEF MoveToSpr, GoOn, Drive, lsuLines, StepOK, RequestOK, WaitOK,
                            Quiet, CacheOp
  <1>5. CASE LoadStore
    BY <1>1, <1>2, <1>5 DEF LoadStore, Await, StepOK, RequestOK, WaitOK, Quiet, CacheOp
  <1>6. CASE StoreConditional
    BY <1>1, <1>2, <1>6 DEF StoreConditional, Await, GoOn, Drive, StepOK, RequestOK,
                            WaitOK, Quiet, CacheOp
  <1>7. CASE CacheControl
    BY <1>1, <1>2, <1>7 DEF CacheControl, StepOK, RequestOK, WaitOK, Quiet, CacheOp
  <1>8. CASE Jump
    BY <1>1, <1>2, <1>8 DEF Jump, GoOn, Drive, lsuLines, StepOK, RequestOK, WaitOK, Quiet,
                            CacheOp
  <1>9. CASE JumpAndLink
    BY <1>1, <1>2, <1>9 DEF JumpAndLink, Drive, lsuLines, StepOK, RequestOK, WaitOK,
                            Quiet, CacheOp
  <1>10. CASE Halt
    BY <1>1, <1>2, <1>10 DEF Halt, lsuLines, StepOK, RequestOK, WaitOK, Quiet, CacheOp
  <1>11. CASE SystemCall \/ ReturnFromException
    BY <1>1, <1>2, <1>11 DEF SystemCall, ReturnFromException, Drive, lsuLines, StepOK,
                             RequestOK, WaitOK, Quiet, CacheOp
  <1> QED
    BY <1>3, <1>4, <1>5, <1>6, <1>7, <1>8, <1>9, <1>10, <1>11 DEF TakeInsn

\* The other clock edges of MainThread.
LEMMA WaitRequests ==
  ASSUME RInv, LsuEdge, ExuEdge, ~TakeInsn
  PROVE  StepOK
  <1> USE DEF StepOK, RequestOK, WaitOK, RInv, AckOK, Quiet, CacheOp, Client!Hold,
              Client!Withdraw, Client!Request, Client!CacheOp
  <1>1. CASE Idle
    BY <1>1 DEF Idle, lsuLines, ifuLines
  <1>2. CASE FinishCompute
    BY <1>2 DEF FinishCompute, GoOn, Drive, lsuLines, ifuLines
  <1>3. CASE FinishAccess
    BY <1>3 DEF FinishAccess, GoOn, Drive
  <1>4. CASE FinishFlush
    BY <1>4 DEF FinishFlush, LsuEdge
  <1>5. CASE StartCacheOp
    BY <1>5 DEF StartCacheOp, Await
  <1>6. CASE FinishCacheOp
    BY <1>6 DEF FinishCacheOp, GoOn, Drive
  <1>7. CASE Preset
    BY <1>7 DEF Preset, Drive
  <1>8. CASE LinkStep \/ LinkJump
    BY <1>8 DEF LinkStep, LinkJump, Drive, lsuLines
  <1>9. CASE ExceptionStep \/ RfeStep
    BY <1>9 DEF ExceptionStep, RfeStep, Drive, lsuLines
  <1>10. CASE Skip
    BY <1>10 DEF Skip, lsuLines
  <1>11. CASE Wait
    BY <1>11 DEF Wait, exuVars, lsuLines, LsuEdge
  <1> QED
    BY <1>1, <1>2, <1>3, <1>4, <1>5, <1>6, <1>7, <1>8, <1>9, <1>10, <1>11 DEF ExuEdge

LEMMA NextRequests ==
  ASSUME RInv, Next
  PROVE  StepOK /\ RInv'
  <1>1. LsuEdge /\ ExuEdge
    BY DEF Next
  <1>2. StepOK
    BY <1>1, TakeRequests, WaitRequests
  <1>3. AckOK'
    BY <1>1 DEF LsuEdge, AckOK
  <1> QED
    BY <1>2, <1>3 DEF StepOK, RInv

LEMMA StutterRequests ==
  ASSUME RInv, UNCHANGED vars
  PROVE  RInv'
  BY DEF RInv, RequestOK, AckOK, WaitOK, vars, exuVars, lsuLines, lsuEnv

LEMMA Requests == Spec => []RInv
  BY InitRequests, NextRequests, StutterRequests, PTL DEF Spec

\* The execution unit is the client that LsuSystem takes for granted.
THEOREM LsuClientTheorem == Spec => LsuClientSpec
  <1>1. Init => Client!Init
    BY DEF Init, ExuInit, Client!Init
  <1>2. RInv /\ [Next]_vars => [Client!Edge]_<<lsu_op, lsu_adr, flushed>>
    <2>1. ASSUME RInv, Next PROVE Client!Edge
      BY <2>1, NextRequests DEF StepOK, Next, LsuEdge, Client!Edge
    <2>2. ASSUME UNCHANGED vars PROVE UNCHANGED <<lsu_op, lsu_adr, flushed>>
      BY <2>2 DEF vars, exuVars, lsuLines, lsuEnv
    <2> QED
      BY <2>1, <2>2
  <1> QED
    BY <1>1, <1>2, Requests, PTL DEF Spec, LsuClientSpec, Client!Spec

\* No instruction goes on with the acknowledgement of another request.
THEOREM AccessTheorem == Spec => AccessMade
  <1> DEFINE Made ==
        exu_state' = "top" =>
          /\ insn'.kind \in {"load", "ll"} => lsu_op = "rd" /\ lsu_ack
          /\ insn'.kind = "store" => lsu_op = "wr" /\ lsu_ack
          /\ insn'.kind = "cache" => lsu_op \in CacheOp /\ lsu_ack
  <1>1. RInv /\ [Next]_vars => [Made]_vars
    BY NextRequests DEF StepOK
  <1>2. [][Made]_vars => AccessMade
    BY PTL DEF AccessMade
  <1> HIDE DEF Made
  <1> QED
    BY <1>1, <1>2, Requests, PTL DEF Spec

-----------------------------------------------------------------------------
(* Flags.                                                                  *)

FlagInv == sr \subseteq Flag /\ SetSR(regESR) = saved

\* The bits that GetSpr puts together are those SetSpr takes apart.
LEMMA GetBit ==
  ASSUME NEW flags
  PROVE  /\ 2 \in GetSR(flags) <=> "IEE" \in flags
         /\ 3 \in GetSR(flags) <=> "DCE" \in flags
         /\ 4 \in GetSR(flags) <=> "ICE" \in flags
         /\ 9 \in GetSR(flags) <=> "F" \in flags
         /\ 10 \in GetSR(flags) <=> "CY" \in flags
         /\ 11 \in GetSR(flags) <=> "OV" \in flags
         /\ 16 \in GetSR(flags) <=> "SUMRA" \in flags
  <1>1. DOMAIN SrLayout = 1 .. 17
    BY DEF SrLayout
  <1>2. ASSUME NEW n \in 0 .. 16
        PROVE  n \in GetSR(flags) <=> SrLayout[n + 1] \in flags \cup {"SM", "FO"}
    <2>1. n \in GetSR(flags) <=>
            \E m \in 1 .. 17 : SrLayout[m] \in flags \cup {"SM", "FO"} /\ n = m - 1
      BY <1>1 DEF GetSR
    <2>2. \A m \in 1 .. 17 : n = m - 1 <=> m = n + 1
      OBVIOUS
    <2> QED
      BY <2>1, <2>2
  <1>3. /\ SrLayout[3] = "IEE" /\ SrLayout[4] = "DCE" /\ SrLayout[5] = "ICE"
        /\ SrLayout[10] = "F" /\ SrLayout[11] = "CY" /\ SrLayout[12] = "OV"
        /\ SrLayout[17] = "SUMRA"
    BY DEF SrLayout
  <1>4. /\ 2 \in GetSR(flags) <=> SrLayout[3] \in flags \cup {"SM", "FO"}
        /\ 3 \in GetSR(flags) <=> SrLayout[4] \in flags \cup {"SM", "FO"}
        /\ 4 \in GetSR(flags) <=> SrLayout[5] \in flags \cup {"SM", "FO"}
        /\ 9 \in GetSR(flags) <=> SrLayout[10] \in flags \cup {"SM", "FO"}
        /\ 10 \in GetSR(flags) <=> SrLayout[11] \in flags \cup {"SM", "FO"}
        /\ 11 \in GetSR(flags) <=> SrLayout[12] \in flags \cup {"SM", "FO"}
        /\ 16 \in GetSR(flags) <=> SrLayout[17] \in flags \cup {"SM", "FO"}
    BY <1>2
  <1> QED
    BY <1>3, <1>4

LEMMA SetBit ==
  ASSUME NEW value
  PROVE  /\ SetSR(value) \subseteq Flag
         /\ "IEE" \in SetSR(value) <=> 2 \in value
         /\ "DCE" \in SetSR(value) <=> 3 \in value
         /\ "ICE" \in SetSR(value) <=> 4 \in value
         /\ "F" \in SetSR(value) <=> 9 \in value
         /\ "CY" \in SetSR(value) <=> 10 \in value
         /\ "OV" \in SetSR(value) <=> 11 \in value
         /\ "SUMRA" \in SetSR(value) <=> 16 \in value
  BY DEF SetSR, Flag

LEMMA FlagRoundTrip ==
  ASSUME NEW flags \in SUBSET Flag
  PROVE  SetSR(GetSR(flags)) = flags
  <1>1. \A f \in Flag : f \in SetSR(GetSR(flags)) <=> f \in flags
    BY GetBit, SetBit DEF Flag
  <1>2. SetSR(GetSR(flags)) \subseteq Flag
    BY SetBit
  <1> QED
    BY <1>1, <1>2

\* What an edge of MainThread does to the flags and to ESR.
LEMMA FlagStep ==
  ASSUME sr \subseteq Flag, ExuEdge
  PROVE  /\ sr' \subseteq Flag
         /\ \/ regESR' = regESR /\ ~(Takes /\ ir.kind = "sys")
            \/ regESR' = GetSR(sr) /\ Takes /\ ir.kind = "sys"
         /\ Takes /\ ir.kind = "rfe" => sr' = SetSR(regESR)
  <1>1. CASE TakeInsn
    <2>1. Takes /\ insn' = ir
      BY <1>1 DEF TakeInsn
    <2>2. CASE Compute
      BY <2>1, <2>2 DEF Compute, Flag
    <2>3. CASE MoveToSpr
      BY <2>1, <2>3, SetBit DEF MoveToSpr, SetSpr
    <2>4. CASE StoreConditional
      BY <2>1, <2>4 DEF StoreConditional, Flag
    <2>5. CASE SystemCall
      BY <2>1, <2>5 DEF SystemCall
    <2>6. CASE ReturnFromException
      BY <2>1, <2>6, SetBit DEF ReturnFromException
    <2>7. CASE LoadStore \/ CacheControl \/ Jump \/ JumpAndLink \/ Halt
      BY <2>1, <2>7 DEF LoadStore, CacheControl, Jump, JumpAndLink, Halt, regs
    <2> QED
      BY <1>1, <2>2, <2>3, <2>4, <2>5, <2>6, <2>7 DEF TakeInsn
  <1>2. CASE ~TakeInsn
    <2>1. ~Takes
      BY <1>2 DEF ExuEdge, TakeInsn, Idle, FinishCompute, FinishAccess, FinishFlush,
                  StartCacheOp, FinishCacheOp, Preset, LinkStep, LinkJump, ExceptionStep,
                  RfeStep, Skip, Wait, Takes
    <2>2. regESR' = regESR /\ sr' \in {sr, sr \cup {"F"}}
      BY <1>2 DEF ExuEdge, Idle, FinishCompute, FinishAccess, FinishFlush, StartCacheOp,
                  FinishCacheOp, Preset, LinkStep, LinkJump, ExceptionStep, RfeStep, Skip,
                  Wait, regs, exuVars
    <2> QED
      BY <2>1, <2>2 DEF Flag
  <1> QED
    BY <1>1, <1>2

LEMMA FlagsKept ==
  ASSUME FlagInv, Next
  PROVE  FlagInv' /\ (Takes /\ ir.kind = "rfe" => sr' = saved)
  <1>1. ExuEdge /\ saved' = IF Takes /\ ir.kind = "sys" THEN sr ELSE saved
    BY DEF Next, ArchEdge
  <1> QED
    BY <1>1, FlagStep, FlagRoundTrip DEF FlagInv

LEMMA Flags == Spec => []FlagInv
  <1>1. Init => FlagInv
    <2> SUFFICES ASSUME Init PROVE FlagInv
      OBVIOUS
    <2>1. SetSR({}) = {}
      BY DEF SetSR
    <2> QED
      BY <2>1 DEF Init, ExuInit, FlagInv
  <1>2. FlagInv /\ UNCHANGED vars => FlagInv'
    BY DEF FlagInv, vars, exuVars, regs
  <1> QED
    BY <1>1, <1>2, FlagsKept, PTL DEF Spec

\* ESR brings back every flag, whatever the exception routine does to SR.
THEOREM FlagsTheorem == Spec => FlagsRestored
  <1> DEFINE Restored == Takes /\ ir.kind = "rfe" => sr' = saved
  <1>1. FlagInv /\ [Next]_vars => [Restored]_vars
    BY FlagsKept
  <1>2. [][Restored]_vars => FlagsRestored
    BY PTL DEF FlagsRestored
  <1> HIDE DEF Restored
  <1> QED
    BY <1>1, <1>2, Flags, PTL DEF Spec

-----------------------------------------------------------------------------
(* Types, and room in the instruction buffer.                              *)

IfuTypes ==
  /\ insn_buf \in [Entry -> Insn] /\ adr_buf \in [Entry -> Address]
  /\ insn_top \in 0 .. IFU_BUF_SIZE /\ adr_top \in 1 .. IFU_BUF_SIZE
  /\ last_rp_ack \in BOOLEAN /\ rp_rd \in BOOLEAN /\ rp_adr \in Address

PortTypes ==
  /\ rp_ack \in BOOLEAN /\ rp_data \in Insn /\ rp_pending \in BOOLEAN

ExuTypes ==
  /\ insn \in Insn /\ regEPCR \in Address /\ mode \in BOOLEAN
  /\ regCPUEN \subseteq CPU
  /\ regESR \subseteq 0 .. Len(SrLayout) - 1
  /\ ifu_next \in BOOLEAN /\ ifu_jump \in BOOLEAN /\ ifu_jump_adr \in Address
  /\ lsu_adr \in Address /\ lsu_rlink_wcond \in BOOLEAN

ArchTypes == arch.pc \in Address /\ arch.npc \in Address

\* Words that have been asked for have room in the buffer: those the port has
\* acknowledged but not yet delivered, and one that it may still acknowledge,
\* even if the request is withdrawn.
Waiting == IF rp_rd \/ rp_pending THEN 1 ELSE 0
Coming  == IF last_rp_ack THEN 1 ELSE 0

Room ==
  /\ insn_top + Coming + Waiting <= IFU_BUF_SIZE
  /\ rp_ack => rp_rd \/ rp_pending

TInv == /\ IfuTypes /\ PortTypes /\ ExuTypes /\ ArchTypes /\ Room
        /\ workload \in Workloads

LEMMA IfuFacts ==
  /\ IFU_BUF_SIZE \in Nat /\ IFU_BUF_SIZE > 3 /\ ADDRESSES \in Nat /\ ADDRESSES > 0
  /\ Entry = 0 .. IFU_BUF_SIZE - 1 /\ 0 \in Address
  /\ 0 \in Entry /\ 1 \in Entry /\ 2 \in Entry
  BY IfuAssumption DEF Entry, Address

LEMMA SuccType == \A a \in Address : Succ(a) \in Address
  BY IfuFacts DEF Succ, Address

LEMMA ZeroType == ZeroInsn \in Insn
  BY IfuFacts DEF ZeroInsn, Insn, Kind, JumpKind

LEMMA InitType == Init => TInv
  <1> SUFFICES ASSUME Init PROVE TInv
    OBVIOUS
  <1>1. PICK start \in Address :
          adr_buf = [n \in Entry |-> CASE n = 0 -> start [] n = 1 -> Succ(start)
                                       [] OTHER -> 0]
    BY DEF Init, IfuInit
  <1>2. \A n \in Entry : adr_buf[n] \in Address
    <2> SUFFICES ASSUME NEW n \in Entry PROVE adr_buf[n] \in Address
      OBVIOUS
    <2>1. CASE n = 0
      BY <1>1, <2>1
    <2>2. CASE n = 1
      BY <1>1, <2>2, SuccType
    <2>3. CASE n # 0 /\ n # 1
      BY <1>1, <2>3, IfuFacts
    <2> QED
      BY <2>1, <2>2, <2>3
  <1>3. adr_buf \in [Entry -> Address]
    BY <1>1, <1>2
  <1>4. IfuTypes
    <2>1. /\ insn_buf = [n \in Entry |-> ZeroInsn]
          /\ insn_top = 1 /\ adr_top = 1
          /\ last_rp_ack = FALSE /\ rp_rd = FALSE /\ rp_adr = 0
      BY DEF Init, IfuInit
    <2>2. insn_buf \in [Entry -> Insn]
      BY <2>1, ZeroType
    <2>3. insn_top \in 0 .. IFU_BUF_SIZE /\ adr_top \in 1 .. IFU_BUF_SIZE /\ rp_adr \in Address
      BY <2>1, IfuFacts
    <2>4. last_rp_ack \in BOOLEAN /\ rp_rd \in BOOLEAN
      BY <2>1
    <2> QED
      BY <1>3, <2>2, <2>3, <2>4, Zenon DEF IfuTypes
  <1>5. PortTypes /\ ExuTypes
    BY ZeroType, IfuFacts DEF Init, ExuInit, inCePU, PortTypes, ExuTypes
  <1>6. ArchTypes
    BY <1>2, SuccType, IfuFacts DEF Init, ArchTypes
  <1>7. Room
    BY IfuFacts DEF Init, IfuInit, Room, Waiting, Coming
  <1> QED
    BY <1>4, <1>5, <1>6, <1>7 DEF Init, TInv

\* TransitionMethod.  "ASSERT (insn_top_var < IFU_BUF_SIZE)": there is an entry
\* for every word that arrives.
LEMMA Fill ==
  ASSUME TInv
  PROVE  /\ Popped(insn_top) \in 0 .. IFU_BUF_SIZE /\ Popped(insn_top) <= insn_top
         /\ KeptInsns \in 0 .. IFU_BUF_SIZE /\ KeptInsns <= insn_top
         /\ last_rp_ack => KeptInsns \in Entry
         /\ NewInsnTop \in 0 .. IFU_BUF_SIZE /\ NewInsnTop <= insn_top + Coming
  <1>1. insn_top \in 0 .. IFU_BUF_SIZE /\ insn_top + Coming <= IFU_BUF_SIZE
    BY IfuFacts DEF TInv, IfuTypes, Room, Coming, Waiting
  <1>2. ofs \in {0, 1}
    BY DEF ofs
  <1>3. Popped(insn_top) \in 0 .. IFU_BUF_SIZE /\ Popped(insn_top) <= insn_top
    BY <1>1, <1>2, IfuFacts DEF Popped
  <1>4. KeptInsns \in 0 .. IFU_BUF_SIZE /\ KeptInsns <= insn_top
    BY <1>1, <1>3, IfuFacts DEF KeptInsns
  <1>5. last_rp_ack => KeptInsns \in Entry
    BY <1>1, <1>4, IfuFacts DEF Coming
  <1>6. NewInsnTop \in 0 .. IFU_BUF_SIZE /\ NewInsnTop <= insn_top + Coming
    BY <1>1, <1>4, IfuFacts DEF NewInsnTop, Coming
  <1> QED
    BY <1>3, <1>4, <1>5, <1>6

LEMMA IfuStep ==
  ASSUME TInv, IfuEdge, ReadPortEdge
  PROVE  IfuTypes' /\ Room'
  <1>1. IfuTypes /\ PortTypes /\ ExuTypes
    BY DEF TInv
  <1>2. ofs \in {0, 1} /\ \A n \in Entry : n + ofs \in Entry \/ n + ofs \notin Entry
    BY DEF ofs
  <1>3. Shifted(insn_buf) \in [Entry -> Insn] /\ Shifted(adr_buf) \in [Entry -> Address]
    BY <1>1 DEF Shifted, IfuTypes
  <1>4. NewInsnBuf \in [Entry -> Insn]
    BY <1>1, <1>3, Fill DEF NewInsnBuf, PortTypes
  <1>5. NextAdr \in Address
    <2>1. AdrTop - 1 + ofs \in Entry
      BY <1>1, <1>2, IfuFacts DEF AdrTop, Popped, IfuTypes
    <2> QED
      BY <1>1, <2>1, SuccType DEF NextAdr, IfuTypes
  <1>6. NewAdrBuf \in [Entry -> Address]
    BY <1>1, <1>3, <1>5, IfuFacts DEF NewAdrBuf, ExuTypes
  <1>7. NewAdrTop \in 1 .. IFU_BUF_SIZE
    BY <1>1, <1>2, IfuFacts DEF NewAdrTop, AdrTop, Popped, IfuTypes
  <1>8. Request \in BOOLEAN /\ (Request => RequestAdr \in Address)
    BY <1>1 DEF Request, RequestAdr, IfuTypes
  <1>9. IfuTypes'
    <2>1. insn_buf' \in [Entry -> Insn] /\ insn_top' \in 0 .. IFU_BUF_SIZE
      BY <1>4, Fill DEF IfuEdge
    <2>2. adr_buf' \in [Entry -> Address] /\ adr_top' \in 1 .. IFU_BUF_SIZE
      BY <1>6, <1>7 DEF IfuEdge
    <2>3. last_rp_ack' \in BOOLEAN /\ rp_rd' \in BOOLEAN /\ rp_adr' \in Address
      BY <1>1, <1>8 DEF IfuEdge, PortTypes, IfuTypes
    <2> QED
      BY <2>1, <2>2, <2>3 DEF IfuTypes, Entry, Address, Insn, Kind, JumpKind, OtherKind
  <1>10. Room'
    <2>1. rp_ack' => rp_rd' \/ rp_pending'
      BY DEF ReadPortEdge
    <2>2. /\ insn_top' = NewInsnTop /\ last_rp_ack' = rp_ack
          /\ rp_rd' = Request /\ rp_pending' = (~rp_ack /\ (rp_rd \/ rp_pending))
      BY DEF IfuEdge, ReadPortEdge
    <2>3. /\ insn_top + Coming + Waiting <= IFU_BUF_SIZE /\ insn_top \in 0 .. IFU_BUF_SIZE
          /\ rp_ack => rp_rd \/ rp_pending
      BY DEF TInv, Room, IfuTypes
    <2>4. NewInsnTop \in 0 .. IFU_BUF_SIZE /\ NewInsnTop <= insn_top + Coming
      BY Fill
    <2>5. /\ Coming \in {0, 1} /\ Waiting \in {0, 1}
          /\ Coming' = (IF rp_ack THEN 1 ELSE 0)
          /\ Waiting' = IF Request \/ (~rp_ack /\ (rp_rd \/ rp_pending)) THEN 1 ELSE 0
      BY <2>2 DEF Coming, Waiting
    <2>6. CASE Request
      <3>1. NewInsnTop + (IF rp_ack THEN 1 ELSE 0) + ofs <= IFU_BUF_SIZE - 1
        <4>1. Expected + ofs \in Entry
          BY <2>6 DEF Request
        <4> QED
          BY <4>1, IfuFacts DEF Expected
      <3>2. Waiting' = 1
        BY <2>5, <2>6
      <3>3. insn_top' + Coming' + Waiting' <= IFU_BUF_SIZE
        BY <1>2, <2>2, <2>4, <2>5, <3>1, <3>2, IfuFacts
      <3> QED
        BY <2>1, <3>3 DEF Room
    <2>7. CASE ~Request
      <3>1. CASE rp_ack
        <4>1. Coming' = 1 /\ Waiting' = 0
          BY <2>5, <2>7, <3>1
        <4>2. Waiting = 1
          BY <2>3, <3>1 DEF Waiting
        <4>3. insn_top' + Coming' + Waiting' <= IFU_BUF_SIZE
          BY <2>2, <2>3, <2>4, <2>5, <4>1, <4>2, IfuFacts
        <4> QED
          BY <2>1, <4>3 DEF Room
      <3>2. CASE ~rp_ack
        <4>1. Coming' = 0 /\ Waiting' = Waiting
          BY <2>5, <2>7, <3>2 DEF Waiting
        <4>2. insn_top' + Coming' + Waiting' <= IFU_BUF_SIZE
          BY <2>2, <2>3, <2>4, <2>5, <4>1, IfuFacts
        <4> QED
          BY <2>1, <4>2 DEF Room
      <3> QED
        BY <3>1, <3>2
    <2> QED
      BY <2>6, <2>7
  <1> QED
    BY <1>9, <1>10

LEMMA PortStep ==
  ASSUME TInv, ReadPortEdge
  PROVE  PortTypes'
  <1>1. rp_ack' \in BOOLEAN /\ rp_pending' \in BOOLEAN
    BY DEF ReadPortEdge
  <1>2. rp_data' \in Insn
    <2>1. CASE rp_ack
      <3>1. PICK i \in Fetched(rp_adr) : rp_data' = i
        BY <2>1 DEF ReadPortEdge
      <3>2. \E k \in workload.kinds, t \in Target :
              i = [adr |-> rp_adr, kind |-> k, target |-> t]
        BY DEF Fetched
      <3>3. workload.kinds \subseteq Kind /\ Target \subseteq Address /\ rp_adr \in Address
        BY IfuSystemAssumption, ExuAssumption DEF TInv, IfuTypes
      <3> QED
        BY <3>1, <3>2, <3>3 DEF Insn
    <2>2. CASE ~rp_ack
      BY <2>2 DEF ReadPortEdge, TInv, PortTypes
    <2> QED
      BY <2>1, <2>2
  <1> QED
    BY <1>1, <1>2 DEF PortTypes, Insn, Address, Kind, JumpKind, OtherKind

LEMMA EsrType == \A flags : GetSR(flags) \subseteq 0 .. Len(SrLayout) - 1
  <1>1. DOMAIN SrLayout = 1 .. 17 /\ Len(SrLayout) = 17
    BY DEF SrLayout
  <1> QED
    BY <1>1 DEF GetSR

LEMMA ExuStep ==
  ASSUME TInv, ExuEdge
  PROVE  ExuTypes'
  <1>1. ExuTypes /\ IfuTypes
    BY DEF TInv
  <1>2. ir \in Insn /\ npc \in Address /\ VECTOR \in Address /\ Target \subseteq Address
    BY <1>1, IfuFacts, ExuAssumption DEF ir, npc, IfuTypes
  <1>3. ir.target \in Address
    BY <1>2 DEF Insn
  <1>4. insn' \in Insn /\ regESR' \subseteq 0 .. Len(SrLayout) - 1
    <2>1. insn' \in {ir, insn} /\ (regESR' = regESR \/ regESR' = GetSR(sr))
      BY DEF ExuEdge, TakeInsn, Idle, FinishCompute, FinishAccess, FinishFlush,
             StartCacheOp, FinishCacheOp, Preset, LinkStep, LinkJump, ExceptionStep, RfeStep,
             Skip, Wait, regs, exuVars, Compute, MoveToSpr, LoadStore, StoreConditional,
             CacheControl, Jump, JumpAndLink, Halt, SystemCall, ReturnFromException
    <2> QED
      BY <1>1, <1>2, <2>1, EsrType DEF ExuTypes
  <1>5. /\ regEPCR' \in {regEPCR, npc} \cup Target
        /\ regCPUEN' = regCPUEN \/ regCPUEN' \subseteq CPU
        /\ mode' = mode \/ mode' = FALSE \/ mode' = Enabled
    BY DEF ExuEdge, TakeInsn, Idle, FinishCompute, FinishAccess, FinishFlush,
           StartCacheOp, FinishCacheOp, Preset, LinkStep, LinkJump, ExceptionStep, RfeStep,
           Skip, Wait, regs, exuVars, Compute, MoveToSpr, SetSpr, LoadStore,
           StoreConditional, CacheControl, Jump, JumpAndLink, Halt, SystemCall,
           ReturnFromException
  <1>6. /\ regEPCR' \in Address /\ regCPUEN' \subseteq CPU /\ mode' \in BOOLEAN
    BY <1>1, <1>2, <1>5 DEF ExuTypes, Enabled, inCePU
  <1>7. /\ ifu_next' \in {TRUE, FALSE, ifu_next} /\ ifu_jump' \in {TRUE, FALSE, ifu_jump}
        /\ ifu_jump_adr' \in {ifu_jump_adr, insn'.target, VECTOR, regEPCR}
    BY DEF ExuEdge, TakeInsn, Idle, FinishCompute, FinishAccess, FinishFlush,
           StartCacheOp, FinishCacheOp, Preset, LinkStep, LinkJump, ExceptionStep, RfeStep,
           Skip, Wait, exuVars, Compute, MoveToSpr, LoadStore,
           StoreConditional, CacheControl, Jump, JumpAndLink, Halt, SystemCall,
           ReturnFromException, Await, GoOn, Drive, ifuLines
  <1>8. /\ lsu_adr' \in {lsu_adr} \cup Target
        /\ lsu_rlink_wcond' \in {TRUE, FALSE, lsu_rlink_wcond}
    BY DEF ExuEdge, TakeInsn, Idle, FinishCompute, FinishAccess, FinishFlush,
           StartCacheOp, FinishCacheOp, Preset, LinkStep, LinkJump, ExceptionStep, RfeStep,
           Skip, Wait, exuVars, Compute, MoveToSpr, LoadStore,
           StoreConditional, CacheControl, Jump, JumpAndLink, Halt, SystemCall,
           ReturnFromException, Await, lsuLines
  <1>9. insn'.target \in Address
    BY <1>4 DEF Insn
  <1> QED
    BY <1>1, <1>2, <1>4, <1>6, <1>7, <1>8, <1>9 DEF ExuTypes, Insn, Address, Kind, JumpKind,
                                                    OtherKind

LEMMA ArchStep ==
  ASSUME TInv, ArchEdge
  PROVE  ArchTypes'
  <1>1. CASE ~Takes
    BY <1>1 DEF ArchEdge, TInv, ArchTypes
  <1>2. CASE Takes
    <2>1. arch'.pc = arch.npc /\ arch'.npc = TargetOf(ir)
      BY <1>2 DEF ArchEdge
    <2>2. /\ ir.target \in Address /\ VECTOR \in Address /\ regEPCR \in Address
          /\ Succ(arch.npc) \in Address /\ arch.npc \in Address
      BY IfuFacts, ExuAssumption, SuccType DEF ir, TInv, IfuTypes, ExuTypes, ArchTypes, Insn
    <2>3. TargetOf(ir) \in {ir.target, VECTOR, regEPCR, Succ(arch.npc)}
      BY DEF TargetOf
    <2> QED
      BY <2>1, <2>2, <2>3 DEF ArchTypes, Address
  <1> QED
    BY <1>1, <1>2

LEMMA NextType ==
  ASSUME TInv, [Next]_vars
  PROVE  TInv'
  <1>1. CASE Next
    <2>1. IfuEdge /\ ExuEdge /\ ReadPortEdge /\ ArchEdge /\ workload' = workload
      BY <1>1 DEF Next
    <2> QED
      BY <2>1, IfuStep, PortStep, ExuStep, ArchStep DEF TInv
  <1>2. CASE UNCHANGED vars
    BY <1>2 DEF vars, ifuVars, exuVars, rpVars, regs, ifuLines, lsuLines, TInv, IfuTypes,
                PortTypes, ExuTypes, ArchTypes, Room, Waiting, Coming
  <1> QED
    BY <1>1, <1>2

LEMMA Types == Spec => []TInv
  BY InitType, NextType, PTL DEF Spec

\* Registers and lines stay in their types; in particular the instruction buffer
\* never overflows, however long it is and whatever it is asked for.
THEOREM TypeCorrect == Spec => []TypeOK
  <1>1. TInv /\ RInv /\ FlagInv => TypeOK
    <2> SUFFICES ASSUME TInv, RInv, FlagInv PROVE TypeOK
      OBVIOUS
    <2>1. Flag \subseteq Range(SrLayout)
      <3>1. DOMAIN SrLayout = 1 .. 17
        BY DEF SrLayout
      <3>2. /\ SrLayout[3] = "IEE" /\ SrLayout[4] = "DCE" /\ SrLayout[5] = "ICE"
            /\ SrLayout[10] = "F" /\ SrLayout[11] = "CY" /\ SrLayout[12] = "OV"
            /\ SrLayout[17] = "SUMRA"
        BY DEF SrLayout
      <3> QED
        BY <3>1, <3>2 DEF Flag, Range
    <2>2. lsu_op \in {"none", "rd", "wr", "flush"} \cup CacheOp
      BY DEF RInv, RequestOK
    <2> QED
      BY <2>1, <2>2, IfuFacts DEF TInv, FlagInv, IfuTypes, PortTypes, ExuTypes, ArchTypes,
                                  TypeOK
  <1> QED
    BY <1>1, Types, Requests, Flags, PTL

-----------------------------------------------------------------------------
(* What the ALU computes.                                                  *)

\* Sum, carry and overflow flag of l.add and l.addc (RunAlu, afAdd and afAdc)
\* are those of the numbers.
THEOREM AddTheorem == AddRight
<1> SUFFICES ASSUME NEW a \in Word, NEW b \in Word, NEW cy \in 0 .. 1,
                    NEW func \in {"add", "adc"}
             PROVE  LET c   == IF func = "adc" THEN cy ELSE 0
                        out == outRegD(func, a, b, cy)
                    IN  /\ out \in Word
                        /\ out + (IF outCY(func, a, b, cy) THEN 2 * HALF ELSE 0)
                             = a + b + c
                        /\ outOV(func, a, b, cy)
                             <=> ~InRange(Signed(a) + Signed(b) + c)
                        /\ ~outOV(func, a, b, cy)
                             => Signed(out) = Signed(a) + Signed(b) + c
  BY DEF AddRight
<1>1. CASE func = "add"
  BY <1>1, HalfAssumption
     DEF Word, outRegD, outCY, outOV, result, Wide, Low, Carry, NegativeB, Negative,
         Signed, InRange
<1>2. CASE func = "adc"
  BY <1>2, HalfAssumption
     DEF Word, outRegD, outCY, outOV, result, Wide, Low, Carry, NegativeB, Negative,
         Signed, InRange
<1> QED
  BY <1>1, <1>2

\* Difference and carry of l.sub (afSub) are those of the numbers, and so is
\* the overflow flag unless the most negative number is subtracted.
THEOREM SubTheorem == SubRight
<1> SUFFICES ASSUME NEW a \in Word, NEW b \in Word
             PROVE  LET out == outRegD("sub", a, b, 0)
                        ov  == outOV("sub", a, b, 0)
                    IN  /\ out \in Word
                        /\ outCY("sub", a, b, 0) <=> a < b
                        /\ InRange(Signed(a) - Signed(b))
                             => Signed(out) = Signed(a) - Signed(b)
                        /\ b # HALF => (ov <=> ~InRange(Signed(a) - Signed(b)))
                        /\ b = HALF => (ov <=> InRange(Signed(a) - Signed(b)))
  BY DEF SubRight
<1> QED
  BY HalfAssumption
     DEF Word, outRegD, outCY, outOV, result, Wide, Low, Carry, NegativeB, Negative,
         Signed, InRange

\* The difference is zero for equal words only, and the two ways to compare.
LEMMA Comparison ==
  ASSUME NEW a \in Word, NEW b \in Word
  PROVE  /\ outRegD("sub", a, b, 0) = 0 <=> a = b
         /\ outCY("sub", a, b, 0) <=> a < b
BY HalfAssumption DEF Word, outRegD, outCY, result, Wide, Low, Carry

LEMMA LessThanRight ==
  ASSUME NEW a \in Word, NEW b \in Word, NEW d
  PROVE  /\ 3 \notin d => (LessThan(d, a, b) <=> a < b)
         /\ 3 \in d => (LessThan(d, a, b) <=> Signed(a) < Signed(b))
<1>1. ASSUME 3 \notin d PROVE LessThan(d, a, b) <=> a < b
  BY <1>1, Comparison DEF LessThan
<1>2. ASSUME 3 \in d PROVE LessThan(d, a, b) <=> Signed(a) < Signed(b)
  BY <1>2, Comparison, HalfAssumption DEF LessThan, Signed, Negative, Parity, Word
<1> QED
  BY <1>1, <1>2

\* Every set-flag instruction (compare flag of afSub) compares what its name
\* says, also when the subtraction overflows.
THEOREM SetFlagTheorem == SetFlagRight
<1> SUFFICES ASSUME NEW a \in Word, NEW b \in Word
             PROVE  /\ outF(sfeq, a, b) <=> a = b
                    /\ outF(sfne, a, b) <=> a # b
                    /\ outF(sfgtu, a, b) <=> a > b
                    /\ outF(sfgeu, a, b) <=> a >= b
                    /\ outF(sfltu, a, b) <=> a < b
                    /\ outF(sfleu, a, b) <=> a <= b
                    /\ outF(sfgts, a, b) <=> Signed(a) > Signed(b)
                    /\ outF(sfges, a, b) <=> Signed(a) >= Signed(b)
                    /\ outF(sflts, a, b) <=> Signed(a) < Signed(b)
                    /\ outF(sfles, a, b) <=> Signed(a) <= Signed(b)
  BY DEF SetFlagRight
<1> DEFINE zero  == outRegD("sub", a, b, 0) = 0
           lt(d) == LessThan(d, a, b)
<1>1. /\ a \in Int /\ b \in Int /\ Signed(a) \in Int /\ Signed(b) \in Int
      /\ Signed(a) = Signed(b) <=> a = b
  BY HalfAssumption DEF Word, Signed, Negative
<1>2. zero <=> a = b
  BY Comparison
<1>3. /\ lt(sfgtu) <=> a < b
      /\ lt(sfgeu) <=> a < b
      /\ lt(sfltu) <=> a < b
      /\ lt(sfleu) <=> a < b
  BY LessThanRight DEF sfgtu, sfgeu, sfltu, sfleu
<1>4. /\ lt(sfgts) <=> Signed(a) < Signed(b)
      /\ lt(sfges) <=> Signed(a) < Signed(b)
      /\ lt(sflts) <=> Signed(a) < Signed(b)
      /\ lt(sfles) <=> Signed(a) < Signed(b)
  BY LessThanRight DEF sfgts, sfges, sflts, sfles
<1>5. /\ outF(sfeq, a, b) <=> zero
      /\ outF(sfne, a, b) <=> ~zero
  BY DEF outF, Parity, sfeq, sfne
<1>6. /\ outF(sfgtu, a, b) <=> ~(~lt(sfgtu) <=> zero)
      /\ outF(sfgts, a, b) <=> ~(~lt(sfgts) <=> zero)
      /\ outF(sfleu, a, b) <=> ~(lt(sfleu) <=> zero)
      /\ outF(sfles, a, b) <=> ~(lt(sfles) <=> zero)
  BY DEF outF, Parity, sfgtu, sfgts, sfleu, sfles
<1>7. /\ outF(sfgeu, a, b) <=> ~lt(sfgeu)
      /\ outF(sfges, a, b) <=> ~lt(sfges)
      /\ outF(sfltu, a, b) <=> lt(sfltu)
      /\ outF(sflts, a, b) <=> lt(sflts)
  BY DEF outF, Parity, sfgeu, sfges, sfltu, sflts
<1> HIDE DEF zero, lt
<1>8. /\ outF(sfgtu, a, b) <=> ~(~(a < b) <=> a = b)
      /\ outF(sfleu, a, b) <=> ~(a < b <=> a = b)
      /\ outF(sfgeu, a, b) <=> ~(a < b)
      /\ outF(sfltu, a, b) <=> a < b
  BY <1>2, <1>3, <1>6, <1>7, Zenon
<1>9. /\ outF(sfgts, a, b) <=> ~(~(Signed(a) < Signed(b)) <=> a = b)
      /\ outF(sfles, a, b) <=> ~(Signed(a) < Signed(b) <=> a = b)
      /\ outF(sfges, a, b) <=> ~(Signed(a) < Signed(b))
      /\ outF(sflts, a, b) <=> Signed(a) < Signed(b)
  BY <1>2, <1>4, <1>6, <1>7, Zenon
<1>10. /\ ~(~(a < b) <=> a = b) <=> a > b
       /\ ~(a < b <=> a = b) <=> a <= b
       /\ ~(a < b) <=> a >= b
  BY <1>1
<1>11. /\ ~(~(Signed(a) < Signed(b)) <=> a = b) <=> Signed(a) > Signed(b)
       /\ ~(Signed(a) < Signed(b) <=> a = b) <=> Signed(a) <= Signed(b)
       /\ ~(Signed(a) < Signed(b)) <=> Signed(a) >= Signed(b)
  BY <1>1
<1> QED
  BY <1>2, <1>5, <1>8, <1>9, <1>10, <1>11, Zenon

\* The sign extension of fields, bytes and half words ("(x ^ 0x8000) - 0x8000")
\* keeps their value.
THEOREM SignExtTheorem == SignExtRight
BY HalfAssumption DEF SignExtRight, SignExt, Flip, Word, Signed, Negative

\* l.ror rotates by up to half a word; by more, the highest bits become 0.
THEOREM RotateTheorem == RotateByHalf
<1> SUFFICES ASSUME NEW w \in BitWord, NEW n \in 1 .. WIDTH - 1
             PROVE  /\ 2 * n <= WIDTH => Ror(w, n) = RotateRight(w, n)
                    /\ \A i \in Bit : i >= 2 * (WIDTH - n) => ~Ror(w, n)[i]
  BY DEF RotateByHalf
<1>1. ASSUME 2 * n <= WIDTH, NEW i \in Bit
      PROVE  Ror(w, n)[i] = RotateRight(w, n)[i]
  BY <1>1, WidthAssumption DEF Ror, RotateRight, Bit, BitWord
<1>2. 2 * n <= WIDTH => Ror(w, n) = RotateRight(w, n)
  BY <1>1 DEF Ror, RotateRight
<1>3. ASSUME NEW i \in Bit, i >= 2 * (WIDTH - n)
      PROVE  ~Ror(w, n)[i]
  <2>1. ~(i < WIDTH - n) /\ ~(i - (WIDTH - n) < WIDTH - n)
    BY <1>3, WidthAssumption DEF Bit
  <2> QED
    BY <2>1, Zenon DEF Ror
<1> QED
  BY <1>2, <1>3

\* All of it, for words of every width.
THEOREM AluTheorem == AluRight
BY AddTheorem, SubTheorem, SetFlagTheorem, SignExtTheorem, RotateTheorem DEF AluRight

\* An instruction that is given to the ALU (RunAlu) gets the result it promises,
\* with every program, for words of every width.
THEOREM AluExecutesTheorem == Spec => []AluExecutes
<1>1. AluExecutes
  BY AluTheorem DEF AluExecutes
<1> QED BY <1>1, PTL

-----------------------------------------------------------------------------
(* The order of the program.                                               *)

\* Two words in a row never arrive behind a jump: the read port does not acknowledge in
\* two clocks in a row, or the program has no jumps.  Otherwise the IFU may look for the
\* jump where it is not yet ("insn_buf" before the edge) and ProgramOrder is false.
NoFastJumps == \A w \in Workloads : w.acks = 1 \/ w.kinds \cap JumpKind = {}

\* Entry of the buffer that holds the instruction at arch.pc: the EXU has still to leave
\* the one before it, or not.
Busy     == {"execute", "access", "flush", "flushed", "cache", "halted"}
Position == IF exu_state \in Busy \/ ifu_next THEN 2 ELSE 1

\* The jump that has been executed is not yet in the address buffer.
Linking == exu_state \in {"link", "link_wait"}
Pending == ifu_jump \/ Linking

\* Entries filled, and those asked for.
Filled   == insn_top + Coming
Asked    == IF rp_rd THEN 1 ELSE 0
Taken(i) == IsJump(i) /\ i.kind # "zero"

\* The lines to the IFU, and the counters of the architecture.
DriveInv ==
  /\ ifu_next => exu_state \in {"top", "link", "except", "rfe"}
  /\ exu_state \in {"link", "except", "rfe"} => ifu_next
  /\ ifu_jump => exu_state \in {"top", "except", "rfe"}
CounterInv ==
  /\ Pending => arch.npc = ifu_jump_adr
  /\ Linking => arch.pc = Succ(insn.adr)

\* The read port and what it delivers.
PortInv ==
  /\ acks \in Nat
  /\ rp_pending => rp_rd
  /\ rp_ack => rp_rd /\ acks > 0
  /\ rp_ack /\ last_rp_ack => workload.kinds \cap JumpKind = {}
  /\ last_rp_ack => rp_data.kind \in workload.kinds

\* Addresses are ahead of the words asked for, but right after reset.
CountInv ==
  /\ Position <= insn_top
  /\ Filled + Asked <= adr_top
  /\ Filled >= 2 => adr_top = IFU_BUF_SIZE \/ adr_top >= Filled + 1 + Asked
  /\ \/ adr_top >= Position + 2
     \/ /\ exu_state = "main" /\ adr_top \in {1, 2}
        /\ arch.npc = Succ(arch.pc)
        /\ IsJump(insn_buf[0])
        /\ arch.pc = Succ(adr_buf[0]) /\ arch.pc = adr_buf[1]

\* Nothing is asked for behind the delay slot of a jump, whose word is no jump.
JumpInv ==
  /\ \A j \in 0 .. insn_top - 1 : IsJump(insn_buf[j]) => Filled + Asked <= j + 2
  /\ \A j \in 0 .. insn_top - 2 : Taken(insn_buf[j]) => ~IsJump(insn_buf[j + 1])
  /\ last_rp_ack /\ Taken(insn_buf[insn_top - 1]) => ~IsJump(rp_data)
  /\ \A j \in 1 .. insn_top - 1 : insn_buf[j].kind # "zero"
  /\ Pending => IsJump(insn_buf[Position - 1])
  /\ arch.npc = Succ(arch.pc) \/ Taken(insn_buf[Position - 1])

\* Words come from the addresses in the buffer, and these follow the program.
AdrInv ==
  /\ \A j \in 1 .. insn_top - 1 : insn_buf[j].adr = adr_buf[j]
  /\ last_rp_ack => rp_data.adr = adr_buf[insn_top]
  /\ rp_rd => rp_adr = adr_buf[Filled]
  /\ Position < adr_top => adr_buf[Position] = arch.pc
  /\ Position + 1 < adr_top /\ ~ifu_jump =>
       adr_buf[Position + 1] = IF Linking THEN Succ(arch.pc) ELSE arch.npc
  /\ \A j \in Position + 1 .. adr_top - 2 : adr_buf[j + 1] = Succ(adr_buf[j])

OrderInv == /\ DriveInv /\ CounterInv /\ PortInv /\ CountInv /\ JumpInv /\ AdrInv

-----------------------------------------------------------------------------
\* What an instruction does to the lines when the EXU takes it.
LEMMA TakeTurn ==
  ASSUME DriveInv, TakeInsn
  PROVE  /\ Position = 1 /\ ~ifu_next /\ ~Pending
         /\ insn' = ir
         /\ DriveInv'
         /\ Position' = 2
         /\ Pending' => Taken(ir)
         /\ Pending' /\ ir.kind \in {"jump", "branch", "jal"} => ifu_jump_adr' = ir.target
         /\ Pending' /\ ir.kind = "sys" => ifu_jump_adr' = VECTOR
         /\ Pending' /\ ir.kind = "rfe" => ifu_jump_adr' = regEPCR
         /\ Pending' /\ ir.kind = "branch" => ifu_jump'
         /\ ifu_jump' => ir.kind # "jal"
         /\ ~Pending' => ir.kind \in OtherKind \cup {"branch"} /\ ~ifu_jump'
<1>1. exu_state = "main" /\ insn' = ir /\ ~ifu_next /\ ~ifu_jump
  BY DEF TakeInsn, Takes, DriveInv
<1>2. Position = 1 /\ ~Pending
  BY <1>1 DEF Position, Pending, Linking, Busy
<1>3. CASE Compute \/ MoveToSpr \/ LoadStore \/ StoreConditional \/ CacheControl \/ Halt
  <2>1. ir.kind \in OtherKind
    BY <1>1, <1>3 DEF Compute, MoveToSpr, LoadStore, StoreConditional, CacheControl, Halt,
                      OtherKind
  <2>2. \/ ifu_next' /\ ~ifu_jump' /\ exu_state' = "top"
        \/ ~ifu_next' /\ ~ifu_jump' /\ exu_state' \in Busy
    BY <1>1, <1>3 DEF Compute, MoveToSpr, LoadStore, StoreConditional, CacheControl, Halt,
                      Await, GoOn, Drive, ifuLines, Busy
  <2> QED BY <1>1, <1>2, <2>1, <2>2 DEF DriveInv, Position, Pending, Linking, Busy
<1>4. CASE Jump
  BY <1>1, <1>2, <1>4 DEF Jump, GoOn, Drive, DriveInv, Position, Pending, Linking, Taken, IsJump,
                          JumpKind
<1>5. CASE JumpAndLink
  BY <1>1, <1>2, <1>5 DEF JumpAndLink, Drive, DriveInv, Position, Pending, Linking, Taken, IsJump,
                          JumpKind
<1>6. CASE SystemCall
  BY <1>1, <1>2, <1>6 DEF SystemCall, Drive, DriveInv, Position, Pending, Linking, Taken, IsJump,
                          JumpKind
<1>7. CASE ReturnFromException
  BY <1>1, <1>2, <1>7 DEF ReturnFromException, Drive, DriveInv, Position, Pending, Linking, Taken,
                          IsJump, JumpKind
<1> QED BY <1>3, <1>4, <1>5, <1>6, <1>7 DEF TakeInsn

\* What the EXU does to them otherwise.
LEMMA WaitTurn ==
  ASSUME DriveInv, ExuEdge, ~Takes, ifu_next \in BOOLEAN, ifu_jump \in BOOLEAN
  PROVE  /\ Position' = Position - ofs
         /\ DriveInv'
         /\ insn' = insn
         /\ Pending' <=> Pending /\ ~ifu_jump
         /\ Linking' => Linking
         /\ Pending' => ifu_jump_adr' = ifu_jump_adr
         /\ exu_state = "main" => exu_state' = "main"
         /\ ifu_jump => ~ifu_jump' /\ ~Linking /\ Position = 1 + ofs
<1> USE DEF Position, Pending, Linking, DriveInv, Busy, ofs
<1>1. CASE Idle
  BY <1>1 DEF Idle, ifuLines
<1>2. CASE FinishCompute
  BY <1>2 DEF FinishCompute, GoOn, Drive, ifuLines
<1>3. CASE FinishAccess \/ FinishCacheOp
  BY <1>3 DEF FinishAccess, FinishCacheOp, GoOn, Drive, ifuLines
<1>4. CASE FinishFlush \/ StartCacheOp
  BY <1>4 DEF FinishFlush, StartCacheOp, Await, GoOn, Drive, ifuLines
<1>5. CASE Preset
  BY <1>5 DEF Preset, Drive
<1>6. CASE LinkStep \/ LinkJump
  BY <1>6 DEF LinkStep, LinkJump, Drive
<1>7. CASE ExceptionStep \/ RfeStep
  BY <1>7 DEF ExceptionStep, RfeStep, Drive
<1>8. CASE Skip
  BY <1>8 DEF Skip, ifuLines
<1>9. CASE Wait
  BY <1>9 DEF Wait, exuVars, ifuLines
<1>10. ~TakeInsn
  BY DEF TakeInsn
<1> HIDE DEF Position, Pending, Linking, DriveInv, Busy, ofs
<1> QED BY <1>1, <1>2, <1>3, <1>4, <1>5, <1>6, <1>7, <1>8, <1>9, <1>10 DEF ExuEdge

-----------------------------------------------------------------------------
(* What an edge does to the buffers of the IFU.                            *)

\* The word of an entry, be it in the buffer or on its way there.
WordAt(n) == IF n < insn_top THEN insn_buf[n] ELSE rp_data
Ack     == IF rp_ack THEN 1 ELSE 0

LEMMA Numbers ==
  ASSUME TInv, OrderInv
  PROVE  /\ ofs \in {0, 1} /\ Coming \in {0, 1} /\ Asked \in {0, 1} /\ Ack \in {0, 1}
         /\ insn_top \in 0 .. IFU_BUF_SIZE /\ adr_top \in 1 .. IFU_BUF_SIZE
         /\ Position \in {1, 2} /\ Position >= 1 + ofs /\ insn_top >= 1 + ofs
         /\ Filled = insn_top + Coming /\ Filled \in Nat /\ Filled + Asked <= adr_top
         /\ Ack <= Asked
         /\ ifu_jump => Position = 1 + ofs /\ adr_top >= Position + 2
BY IfuFacts DEF ofs, Coming, Asked, Ack, Position, Filled, TInv, IfuTypes, OrderInv, CountInv,
                DriveInv, Busy, PortInv

\* A jump finds its delay slot in the buffer or on its way there, and nothing behind it.
LEMMA NothingBehind ==
  ASSUME TInv, OrderInv, ifu_jump
  PROVE  Filled + Asked <= ofs + 2
<1>1. IsJump(insn_buf[Position - 1])
  BY DEF OrderInv, JumpInv, Pending
<1>2. Position - 1 \in 0 .. insn_top - 1 /\ Position = 1 + ofs
  BY Numbers DEF OrderInv, CountInv
<1>3. Filled + Asked <= Position - 1 + 2
  BY <1>1, <1>2 DEF OrderInv, JumpInv
<1> QED BY <1>2, <1>3, Numbers

LEMMA WordsMove ==
  ASSUME TInv, OrderInv, IfuEdge
  PROVE  /\ insn_top' = Filled - ofs /\ last_rp_ack' = rp_ack
         /\ Coming' = Ack /\ Filled' = Filled + Ack - ofs
         /\ Expected = Filled + Ack - ofs
         /\ \A j \in 0 .. Filled - ofs - 1 : insn_buf'[j] = WordAt(j + ofs)
<1>1. Popped(insn_top) = insn_top - ofs
  BY Numbers DEF Popped
<1>2. KeptInsns = insn_top - ofs
  BY <1>1, Numbers, NothingBehind DEF KeptInsns
<1>3. NewInsnTop = Filled - ofs
  BY <1>2, Numbers DEF NewInsnTop, Coming
<1>4. insn_top' = Filled - ofs /\ last_rp_ack' = rp_ack
  BY <1>3 DEF IfuEdge
<1>5. Coming' = Ack /\ Filled' = Filled + Ack - ofs /\ Expected = Filled + Ack - ofs
  BY <1>3, <1>4, Numbers DEF Coming, Ack, Filled, Expected
<1>6. ASSUME NEW j \in 0 .. Filled - ofs - 1 PROVE insn_buf'[j] = WordAt(j + ofs)
  <2>1. insn_top + Coming <= IFU_BUF_SIZE
    BY IfuFacts DEF TInv, Room, Coming, Waiting, IfuTypes
  <2>2. j \in Entry /\ j + ofs \in Nat /\ j + ofs <= insn_top /\ (~last_rp_ack => j + ofs < insn_top)
    BY <2>1, Numbers, IfuFacts DEF Coming
  <2>3. insn_buf' = NewInsnBuf /\ insn_buf \in [Entry -> Insn]
    BY DEF IfuEdge, TInv, IfuTypes
  <2>4. CASE j + ofs < insn_top
    <3>1. j + ofs \in Entry /\ j # insn_top - ofs
      BY <2>2, <2>4, Numbers, IfuFacts
    <3>2. Shifted(insn_buf)[j] = insn_buf[j + ofs]
      BY <2>2, <3>1 DEF Shifted
    <3> QED BY <1>2, <2>2, <2>3, <2>4, <3>1, <3>2 DEF NewInsnBuf, WordAt, Shifted
  <2>5. CASE j + ofs = insn_top
    <3>1. last_rp_ack /\ j = insn_top - ofs
      BY <2>2, <2>5, Numbers
    <3> QED BY <1>2, <2>2, <2>3, <2>5, <3>1 DEF NewInsnBuf, WordAt, Shifted
  <2> QED BY <2>2, <2>4, <2>5, Numbers
<1> QED BY <1>4, <1>5, <1>6

LEMMA AddressesMove ==
  ASSUME TInv, OrderInv, IfuEdge
  PROVE  /\ ifu_jump => adr_top' = 3 /\ adr_buf'[2] = ifu_jump_adr
         /\ ~ifu_jump => adr_top' = IF adr_top - ofs < IFU_BUF_SIZE THEN adr_top - ofs + 1
                                    ELSE adr_top
         /\ \A j \in 0 .. adr_top - ofs - 1 :
              ~ifu_jump \/ j <= 1 => adr_buf'[j] = adr_buf[j + ofs]
         /\ ~ifu_jump /\ adr_top - ofs < IFU_BUF_SIZE =>
              adr_buf'[adr_top - ofs] = Succ(adr_buf[adr_top - 1])
<1>1. AdrTop = adr_top - ofs
  BY Numbers DEF AdrTop, Popped
<1>2. adr_buf' = NewAdrBuf /\ adr_top' = NewAdrTop /\ adr_buf \in [Entry -> Address]
  BY DEF IfuEdge, TInv, IfuTypes
<1> DEFINE seq == IF AdrTop \in Entry THEN [Shifted(adr_buf) EXCEPT ![AdrTop] = NextAdr]
                  ELSE Shifted(adr_buf)
<1>3. adr_buf' = IF ifu_jump THEN [seq EXCEPT ![2] = ifu_jump_adr] ELSE seq
  BY <1>2 DEF NewAdrBuf
<1>4. DOMAIN seq = Entry
  BY DEF Shifted
<1>5. ASSUME NEW j \in 0 .. adr_top - ofs - 1 PROVE j \in Entry /\ seq[j] = adr_buf[j + ofs]
  <2>1. j \in Entry /\ j + ofs \in Entry /\ j # AdrTop
    BY <1>1, Numbers, IfuFacts
  <2>2. Shifted(adr_buf)[j] = adr_buf[j + ofs]
    BY <2>1 DEF Shifted
  <2> QED BY <2>1, <2>2 DEF Shifted
<1>6. adr_top - ofs < IFU_BUF_SIZE => seq[adr_top - ofs] = Succ(adr_buf[adr_top - 1])
  <2>1. adr_top - ofs < IFU_BUF_SIZE => AdrTop \in Entry
    BY <1>1, Numbers, IfuFacts
  <2>2. NextAdr = Succ(adr_buf[adr_top - 1])
    <3>1. AdrTop - 1 + ofs = adr_top - 1
      BY <1>1, Numbers
    <3> QED BY <3>1 DEF NextAdr
  <2> QED BY <1>1, <2>1, <2>2 DEF Shifted
<1> HIDE DEF seq
<1>7. ifu_jump => adr_top' = 3 /\ adr_buf'[2] = ifu_jump_adr
  BY <1>2, <1>3, <1>4, IfuFacts DEF NewAdrTop
<1>8. ~ifu_jump => adr_top' = IF adr_top - ofs < IFU_BUF_SIZE THEN adr_top - ofs + 1
                              ELSE adr_top
  <2>1. ~(adr_top - ofs < IFU_BUF_SIZE) => adr_top - ofs = adr_top
    BY Numbers, IfuFacts
  <2> QED BY <1>1, <1>2, <2>1 DEF NewAdrTop
<1>9. ASSUME NEW j \in 0 .. adr_top - ofs - 1, ~ifu_jump \/ j <= 1
      PROVE  adr_buf'[j] = adr_buf[j + ofs]
  BY <1>3, <1>4, <1>5, <1>9
<1> QED BY <1>3, <1>6, <1>7, <1>8, <1>9

\* The read port gets no request but for the next word, whose address is known.
LEMMA RequestMove ==
  ASSUME TInv, OrderInv, IfuEdge
  PROVE  /\ rp_rd' = Request
         /\ rp_rd' => /\ Expected < adr_top'
                      /\ rp_adr' = adr_buf[Expected + ofs] /\ Expected + ofs < IFU_BUF_SIZE
                      /\ Expected >= 2 => ~IsJump(insn_buf[Expected + ofs - 2])
         /\ rp_rd /\ ~rp_ack => rp_rd' /\ rp_adr' = rp_adr
<1>1. rp_rd' = Request /\ rp_adr' = (IF Request THEN RequestAdr ELSE rp_adr) /\ adr_top' = NewAdrTop
  BY DEF IfuEdge
<1>2. Expected = Filled + Ack - ofs
  BY WordsMove
<1>3. rp_rd' => /\ Expected < adr_top' /\ rp_adr' = adr_buf[Expected + ofs]
                /\ Expected + ofs < IFU_BUF_SIZE
                /\ Expected >= 2 => ~IsJump(insn_buf[Expected + ofs - 2])
  <2>1. adr_top' \in Nat /\ (NewAdrTop > Expected => Expected < adr_top')
    BY <1>1, <1>2, AddressesMove, Numbers
  <2>2. Expected + ofs \in Entry => Expected + ofs < IFU_BUF_SIZE
    BY <1>2, Numbers, IfuFacts
  <2> QED BY <1>1, <2>1, <2>2 DEF Request, RequestAdr, JumpPending
<1>4. ASSUME rp_rd, ~rp_ack PROVE rp_rd' /\ rp_adr' = rp_adr
  <2>1. Asked = 1 /\ Ack = 0
    BY <1>4 DEF Asked, Ack
  <2>2. NewAdrTop > Expected
    <3>1. CASE ifu_jump
      BY <1>1, <1>2, <2>1, <3>1, NothingBehind, AddressesMove, Numbers
    <3>2. CASE ~ifu_jump
      BY <1>1, <1>2, <2>1, <3>2, AddressesMove, Numbers
    <3> QED BY <3>1, <3>2
  <2>3. Expected + ofs = Filled /\ Filled \in Entry
    BY <1>2, <2>1, Numbers, IfuFacts
  <2>4. ~JumpPending
    <3>1. SUFFICES ASSUME Expected >= 2, IsJump(insn_buf[Filled - 2]) PROVE FALSE
      BY <1>2, <2>1, <2>3, Numbers DEF JumpPending
    <3>2. Filled - 2 \in 0 .. insn_top - 1
      BY <1>2, <2>1, <3>1, Numbers
    <3>3. Filled + Asked <= Filled - 2 + 2
      BY <3>1, <3>2 DEF OrderInv, JumpInv
    <3> QED BY <2>1, <3>3, Numbers
  <2>5. Request
    BY <2>2, <2>3, <2>4 DEF Request
  <2>6. rp_adr = adr_buf[Filled]
    BY <1>4 DEF OrderInv, AdrInv
  <2> QED BY <1>1, <2>3, <2>5, <2>6 DEF RequestAdr
<1> QED BY <1>1, <1>3, <1>4

\* The address of a request is one of those generated before the edge, but right after reset.
LEMMA FreshAddress ==
  ASSUME TInv, OrderInv, IfuEdge, rp_rd'
  PROVE  \/ Expected + ofs < adr_top
         \/ /\ exu_state = "main" /\ ~ifu_jump /\ ofs = 0 /\ adr_top = 1 /\ Expected = 1
            /\ adr_buf[1] = Succ(adr_buf[0])
<1>1. Expected + ofs = Filled + Ack
  BY WordsMove, Numbers
<1>2. Expected + ofs < IFU_BUF_SIZE /\ (Expected >= 2 => ~IsJump(insn_buf[Expected + ofs - 2]))
  BY RequestMove
<1>3. CASE Filled >= 2
  BY <1>1, <1>2, <1>3, Numbers, IfuFacts DEF OrderInv, CountInv
<1>4. CASE ~(Filled >= 2)
  <2>1. Filled = 1 /\ ofs = 0 /\ Position = 1
    BY <1>4, Numbers DEF OrderInv, CountInv
  <2>2. CASE adr_top >= Position + 2
    BY <1>1, <2>1, <2>2, Numbers
  <2>3. CASE ~(adr_top >= Position + 2)
    <3>1. /\ exu_state = "main" /\ adr_top \in {1, 2} /\ IsJump(insn_buf[0])
          /\ adr_buf[1] = Succ(adr_buf[0])
      BY <2>3 DEF OrderInv, CountInv
    <3>2. ~ifu_jump
      BY <3>1 DEF OrderInv, DriveInv
    <3>3. Expected = 1 + Ack
      BY <2>1, WordsMove, Numbers
    <3>4. CASE Ack = 1
      BY <1>2, <2>1, <3>1, <3>3, <3>4
    <3>5. CASE Ack = 0
      BY <1>1, <2>1, <3>1, <3>2, <3>3, <3>5
    <3> QED BY <3>4, <3>5, Numbers
  <2> QED BY <2>2, <2>3
<1> QED BY <1>3, <1>4

\* A jump in this cycle leaves room for the request of its delay slot only.
LEMMA JumpStops ==
  ASSUME TInv, OrderInv, IfuEdge, ifu_jump
  PROVE  Expected <= 2 /\ (rp_rd' => Expected <= 1)
<1>1. Expected <= 2
  BY WordsMove, NothingBehind, Numbers
<1>2. IsJump(insn_buf[ofs])
  <2>1. Position - 1 = ofs
    BY Numbers
  <2> QED BY <2>1 DEF OrderInv, JumpInv, Pending
<1>3. Expected = 2 => ~rp_rd'
  <2>1. Expected = 2 => Expected + ofs - 2 = ofs
    BY Numbers
  <2> QED BY <1>2, <2>1, RequestMove
<1> QED BY <1>1, <1>3, WordsMove, Numbers

\* The EXU and the counters of the architecture.
LEMMA Turn ==
  ASSUME TInv, OrderInv, ExuEdge, ArchEdge
  PROVE  /\ DriveInv'
         /\ Takes => /\ Position = 1 /\ ofs = 0 /\ ~Pending /\ Position' = 2
                     /\ insn_top >= 2 /\ arch'.pc = arch.npc
                     /\ Pending' => Taken(ir) /\ arch'.npc = ifu_jump_adr'
                     /\ ~Pending' => arch'.npc = Succ(arch.npc)
                     /\ insn' = ir
                     /\ Taken(ir) \/ arch'.npc = Succ(arch.npc)
                     /\ ifu_jump' => ir.kind # "jal"
         /\ ~Takes => /\ Position' = Position - ofs /\ arch' = arch
                      /\ Pending' <=> Pending /\ ~ifu_jump
                      /\ Linking' => Linking
                      /\ insn' = insn
                      /\ Pending' => ifu_jump_adr' = ifu_jump_adr
                      /\ exu_state = "main" => exu_state' = "main"
                      /\ ifu_jump => ~ifu_jump' /\ ~Linking
<1>1. DriveInv /\ ifu_next \in BOOLEAN /\ ifu_jump \in BOOLEAN
  BY DEF OrderInv, TInv, ExuTypes
<1>2. CASE Takes
  <2>1. TakeInsn
    BY <1>2 DEF Takes, ExuEdge, Idle, FinishCompute, FinishAccess, FinishFlush,
           StartCacheOp, FinishCacheOp, Preset, LinkStep, LinkJump, ExceptionStep, RfeStep,
           Skip, Wait
  <2>2. arch'.pc = arch.npc /\ arch'.npc = TargetOf(ir)
    BY <1>2 DEF ArchEdge
  <2>3. ofs = 0 /\ insn_top >= 2
    BY <1>1, <1>2, <2>1, TakeTurn, Numbers DEF ofs, Takes, ir_valid
  <2>4. Pending' => arch'.npc = ifu_jump_adr'
    <3>1. SUFFICES ASSUME Pending' PROVE TargetOf(ir) = ifu_jump_adr'
      BY <2>2
    <3>2. ir.kind \in {"jump", "branch", "jal", "sys", "rfe"}
      BY <1>1, <2>1, <3>1, TakeTurn DEF Taken, IsJump, JumpKind
    <3> QED BY <1>1, <2>1, <3>1, <3>2, TakeTurn DEF TargetOf
  <2>5. ~Pending' => arch'.npc = Succ(arch.npc)
    BY <1>1, <2>1, <2>2, TakeTurn DEF TargetOf, OtherKind
  <2> QED BY <1>1, <1>2, <2>1, <2>2, <2>3, <2>4, <2>5, TakeTurn
<1>3. CASE ~Takes
  <2>1. arch' = arch
    BY <1>3 DEF ArchEdge
  <2> QED BY <1>1, <1>3, <2>1, WaitTurn
<1> QED BY <1>2, <1>3

LEMMA CountStep ==
  ASSUME TInv, OrderInv, IfuEdge, ExuEdge, ArchEdge
  PROVE  CountInv'
<1>1. Filled' = Filled + Ack - ofs /\ insn_top' = Filled - ofs /\ Expected = Filled'
  BY WordsMove
<1>2. Asked' = (IF rp_rd' THEN 1 ELSE 0)
  BY DEF Asked
<1>3. Position' <= insn_top'
  <2>1. CASE Takes
    BY <1>1, <2>1, Turn, Numbers
  <2>2. CASE ~Takes
    BY <1>1, <2>2, Turn, Numbers DEF OrderInv, CountInv
  <2> QED BY <2>1, <2>2
<1>4. Filled' + Asked' <= adr_top'
  <2>1. CASE rp_rd'
    BY <1>1, <1>2, <2>1, RequestMove, AddressesMove, Numbers
  <2>2. CASE ~rp_rd' /\ ifu_jump
    BY <1>1, <1>2, <2>2, JumpStops, AddressesMove, Numbers
  <2>3. CASE ~rp_rd' /\ ~ifu_jump
    BY <1>1, <1>2, <2>3, AddressesMove, Numbers
  <2> QED BY <2>1, <2>2, <2>3
<1>5. Filled' >= 2 => adr_top' = IFU_BUF_SIZE \/ adr_top' >= Filled' + 1 + Asked'
  <2>1. SUFFICES ASSUME Filled' >= 2
                 PROVE  adr_top' = IFU_BUF_SIZE \/ adr_top' >= Filled' + 1 + Asked'
    OBVIOUS
  <2>2. CASE ifu_jump
    BY <1>1, <1>2, <2>1, <2>2, JumpStops, AddressesMove, Numbers
  <2>3. CASE ~ifu_jump
    <3>1. Filled' + ofs + Asked' <= adr_top
      <4>1. CASE rp_rd'
        BY <1>1, <1>2, <2>1, <4>1, FreshAddress, Numbers
      <4>2. CASE ~rp_rd'
        BY <1>1, <1>2, <4>2, Numbers
      <4> QED BY <4>1, <4>2
    <3>2. CASE adr_top - ofs < IFU_BUF_SIZE
      BY <1>1, <1>2, <2>3, <3>1, <3>2, AddressesMove, Numbers, IfuFacts
    <3>3. CASE ~(adr_top - ofs < IFU_BUF_SIZE)
      BY <2>3, <3>3, AddressesMove, Numbers, IfuFacts
    <3> QED BY <3>2, <3>3
  <2> QED BY <2>2, <2>3
<1>6. \/ adr_top' >= Position' + 2
      \/ /\ exu_state' = "main" /\ adr_top' \in {1, 2}
         /\ arch'.npc = Succ(arch'.pc)
         /\ IsJump(insn_buf'[0])
         /\ arch'.pc = Succ(adr_buf'[0]) /\ arch'.pc = adr_buf'[1]
  <2>1. CASE Takes
    <3>1. Filled >= 2 /\ ~ifu_jump /\ ofs = 0 /\ Position' = 2
      BY <2>1, Turn, Numbers DEF Pending
    <3>2. adr_top = IFU_BUF_SIZE \/ adr_top >= 3
      BY <3>1, Numbers DEF OrderInv, CountInv
    <3> QED BY <3>1, <3>2, AddressesMove, Numbers, IfuFacts
  <2>2. CASE ~Takes /\ adr_top >= Position + 2
    <3>1. Position' = Position - ofs
      BY <2>2, Turn
    <3>2. CASE ifu_jump
      BY <3>1, <3>2, AddressesMove, Numbers
    <3>3. CASE ~ifu_jump
      BY <2>2, <3>1, <3>3, AddressesMove, Numbers, IfuFacts
    <3> QED BY <3>2, <3>3
  <2>3. CASE ~Takes /\ ~(adr_top >= Position + 2)
    <3>1. /\ exu_state = "main" /\ adr_top \in {1, 2} /\ arch.npc = Succ(arch.pc)
          /\ IsJump(insn_buf[0])
          /\ arch.pc = Succ(adr_buf[0]) /\ arch.pc = adr_buf[1]
      BY <2>3 DEF OrderInv, CountInv
    <3>2. ~ifu_jump /\ ofs = 0 /\ Position = 1
      BY <3>1 DEF OrderInv, DriveInv, ofs, Position, Busy
    <3>3. Position' = 1 /\ arch' = arch /\ exu_state' = "main"
      BY <2>3, <3>1, <3>2, Turn
    <3>4. adr_top' = adr_top + 1
      BY <3>1, <3>2, AddressesMove, IfuFacts
    <3>5. CASE adr_top = 2
      BY <3>3, <3>4, <3>5
    <3>6. CASE adr_top = 1
      <4>1. insn_buf'[0] = insn_buf[0]
        BY <3>2, WordsMove, Numbers DEF WordAt
      <4>2. adr_buf'[0] = adr_buf[0] /\ adr_buf'[1] = Succ(adr_buf[0])
        BY <3>2, <3>6, AddressesMove, IfuFacts
      <4>3. IsJump(insn_buf'[0])
        BY <3>1, <4>1 DEF IsJump
      <4>4. adr_top' = 2
        BY <3>4, <3>6
      <4> QED BY <3>1, <3>3, <4>2, <4>3, <4>4
    <3> QED BY <3>1, <3>5, <3>6
  <2> QED BY <2>1, <2>2, <2>3
<1> QED BY <1>3, <1>4, <1>5, <1>6 DEF CountInv

\* A word that arrives is one of the program; behind a jump it is none.
LEMMA Arrives ==
  ASSUME TInv, OrderInv, ReadPortEdge, rp_ack
  PROVE  /\ rp_data'.adr = rp_adr /\ rp_data'.kind \in workload.kinds
         /\ Taken(WordAt(Filled - 1)) => ~IsJump(rp_data')
<1>1. PICK i \in Fetched(rp_adr) : rp_data' = i
  BY DEF ReadPortEdge
<1> DEFINE before == IF last_rp_ack THEN rp_data ELSE insn_buf[insn_top - 1]
<1>2. PICK k \in (IF IsJump(before) /\ before.kind # "zero"
                  THEN workload.kinds \cap OtherKind ELSE workload.kinds), t \in Target :
        i = [adr |-> rp_adr, kind |-> k, target |-> t]
  BY <1>1 DEF Fetched
<1>3. WordAt(Filled - 1) = before
  BY Numbers DEF WordAt, Filled, Coming
<1>4. rp_data'.kind = k /\ rp_data'.adr = rp_adr
  BY <1>1, <1>2
<1>5. Taken(before) => ~IsJump(rp_data')
  <2>1. Taken(before) => k \in OtherKind
    BY <1>2 DEF Taken
  <2> HIDE DEF before
  <2> QED BY <1>4, <2>1 DEF IsJump, JumpKind, OtherKind
<1>6. k \in workload.kinds
  BY <1>2
<1> HIDE DEF before
<1> QED BY <1>3, <1>4, <1>5, <1>6

LEMMA KindsType ==
  ASSUME TInv
  PROVE  workload.kinds \subseteq Kind \ {"zero"}
BY IfuSystemAssumption DEF TInv

LEMMA PortInvStep ==
  ASSUME TInv, OrderInv, IfuEdge, ReadPortEdge, workload' = workload, NoFastJumps
  PROVE  PortInv'
<1> USE DEF PortInv
<1>1. acks' \in Nat /\ (rp_ack' => acks' > 0)
  BY DEF ReadPortEdge, OrderInv
<1>2. rp_pending' => rp_rd'
  BY RequestMove DEF ReadPortEdge, OrderInv
<1>3. rp_ack' => rp_rd'
  BY <1>2 DEF ReadPortEdge
<1>4. rp_ack' /\ last_rp_ack' => workload'.kinds \cap JumpKind = {}
  <2>1. SUFFICES ASSUME rp_ack', rp_ack PROVE workload.kinds \cap JumpKind = {}
    BY WordsMove
  <2>2. acks \in Nat /\ acks > 0 /\ acks < workload.acks
    BY <2>1 DEF ReadPortEdge, OrderInv
  <2> QED BY <2>2 DEF NoFastJumps, TInv
<1>5. last_rp_ack' => rp_data'.kind \in workload'.kinds
  BY Arrives, WordsMove
<1> QED BY <1>1, <1>2, <1>3, <1>4, <1>5

LEMMA JumpStep ==
  ASSUME TInv, OrderInv, IfuEdge, ExuEdge, ArchEdge, ReadPortEdge
  PROVE  JumpInv'
<1> DEFINE last == Filled - ofs - 1
<1>1. /\ Filled' = Filled + Ack - ofs /\ insn_top' = Filled - ofs /\ Expected = Filled'
      /\ last_rp_ack' = rp_ack
  BY WordsMove
<1>2. ASSUME NEW j \in 0 .. last
      PROVE  /\ insn_buf'[j] = WordAt(j + ofs) /\ j + ofs \in Nat /\ j + ofs <= insn_top
             /\ j + ofs < insn_top => WordAt(j + ofs) = insn_buf[j + ofs] /\ j + ofs \in 0 .. insn_top - 1
             /\ ~(j + ofs < insn_top) => WordAt(j + ofs) = rp_data /\ last_rp_ack /\ j + ofs = insn_top
  BY WordsMove, Numbers DEF WordAt, Coming
<1>3. 0 .. insn_top' - 1 = 0 .. last
  BY <1>1, Numbers
<1>4. ASSUME NEW j \in 0 .. last, IsJump(insn_buf'[j])
      PROVE  Filled' + Asked' <= j + 2
  <2>1. Asked' = (IF rp_rd' THEN 1 ELSE 0)
    BY DEF Asked
  <2>2. CASE j + ofs < insn_top
    <3>1. IsJump(insn_buf[j + ofs])
      BY <1>2, <1>4, <2>2
    <3>2. Filled + Asked <= j + ofs + 2
      BY <1>2, <2>2, <3>1, Numbers DEF OrderInv, JumpInv
    <3>3. Filled' <= j + 2
      BY <1>1, <3>2, Numbers
    <3>4. rp_rd' => Filled' # j + 2
      <4>1. Filled' = j + 2 => Expected >= 2 /\ Expected + ofs - 2 = j + ofs
        BY <1>1, Numbers
      <4> QED BY <3>1, <4>1, RequestMove
    <3> QED BY <1>1, <2>1, <3>3, <3>4, Numbers
  <2>3. CASE ~(j + ofs < insn_top)
    <3>1. last_rp_ack /\ IsJump(rp_data) /\ j + ofs = insn_top
      BY <1>2, <1>4, <2>3
    <3>2. ~rp_ack
      BY <3>1 DEF OrderInv, PortInv, IsJump
    <3>3. Ack = 0 /\ Filled = insn_top + 1
      BY <3>1, <3>2, Numbers DEF Ack, Coming
    <3> QED BY <1>1, <2>1, <3>1, <3>3, Numbers
  <2> QED BY <2>2, <2>3
<1>5. ASSUME NEW j \in 0 .. last - 1, Taken(insn_buf'[j])
      PROVE  ~IsJump(insn_buf'[j + 1])
  <2>1. j \in 0 .. last /\ j + 1 \in 0 .. last /\ j + ofs + 1 = j + 1 + ofs
    BY Numbers
  <2>2. j + 1 + ofs <= insn_top /\ j + ofs < insn_top
    BY <1>2, <2>1, Numbers
  <2>3. Taken(insn_buf[j + ofs])
    BY <1>2, <1>5, <2>1, <2>2
  <2>4. CASE j + 1 + ofs < insn_top
    <3>1. j + ofs \in 0 .. insn_top - 2
      BY <2>4, Numbers
    <3>2. ~IsJump(insn_buf[j + ofs + 1])
      BY <2>3, <3>1 DEF OrderInv, JumpInv
    <3> QED BY <1>2, <2>1, <2>4, <3>2
  <2>5. CASE ~(j + 1 + ofs < insn_top)
    <3>1. j + ofs = insn_top - 1
      BY <2>2, <2>5, Numbers
    <3>2. last_rp_ack /\ insn_buf'[j + 1] = rp_data
      BY <1>2, <2>1, <2>5
    <3> QED BY <2>3, <3>1, <3>2 DEF OrderInv, JumpInv
  <2> QED BY <2>4, <2>5
<1>6. rp_ack /\ Taken(insn_buf'[insn_top' - 1]) => ~IsJump(rp_data')
  <2>1. last \in 0 .. last /\ last + ofs = Filled - 1 /\ insn_top' - 1 = last
    BY <1>1, Numbers
  <2>2. insn_buf'[insn_top' - 1] = WordAt(Filled - 1)
    BY <1>2, <2>1
  <2> QED BY <2>2, Arrives
<1>7. ASSUME NEW j \in 1 .. last
      PROVE  insn_buf'[j].kind # "zero"
  <2>1. j \in 0 .. last
    BY Numbers
  <2>2. CASE j + ofs < insn_top
    <3>1. j + ofs \in 1 .. insn_top - 1
      BY <2>2, Numbers
    <3> QED BY <1>2, <2>1, <2>2, <3>1 DEF OrderInv, JumpInv
  <2>3. CASE ~(j + ofs < insn_top)
    BY <1>2, <2>1, <2>3, KindsType DEF OrderInv, PortInv
  <2> QED BY <2>2, <2>3
<1>8. /\ Takes => insn_buf'[Position' - 1] = ir
      /\ ~Takes => insn_buf'[Position' - 1] = insn_buf[Position - 1]
  <2>1. CASE Takes
    <3>1. Position' - 1 = 1 /\ 1 \in 0 .. last /\ 1 + ofs = 1 /\ 1 < insn_top
      BY <2>1, Turn, Numbers
    <3> QED BY <1>2, <2>1, <3>1 DEF ir
  <2>2. CASE ~Takes
    <3>1. /\ Position' - 1 = Position - ofs - 1 /\ Position - ofs - 1 \in 0 .. last
          /\ Position - ofs - 1 + ofs = Position - 1 /\ Position - 1 < insn_top
      BY <2>2, Turn, Numbers DEF OrderInv, CountInv
    <3> QED BY <1>2, <2>2, <3>1
  <2> QED BY <2>1, <2>2
<1>9. Pending' => IsJump(insn_buf'[Position' - 1])
  BY <1>8, Turn DEF Taken, OrderInv, JumpInv
<1>10. arch'.npc = Succ(arch'.pc) \/ Taken(insn_buf'[Position' - 1])
  BY <1>8, Turn DEF OrderInv, JumpInv
<1>11. 1 .. insn_top' - 1 = 1 .. last /\ 0 .. insn_top' - 2 = 0 .. last - 1
  BY <1>1, Numbers
<1> HIDE DEF last
<1> QED BY <1>1, <1>3, <1>4, <1>5, <1>6, <1>7, <1>9, <1>10, <1>11 DEF JumpInv, Taken, IsJump

LEMMA Between ==
  \A a, b \in Int : \A j : j \in (a + 1) .. (b - 2) => j \in Int /\ a < j /\ j + 1 < b
OBVIOUS

LEMMA AdrStep ==
  ASSUME TInv, OrderInv, IfuEdge, ExuEdge, ArchEdge, ReadPortEdge
  PROVE  AdrInv'
<1>1. /\ Filled' = Filled + Ack - ofs /\ insn_top' = Filled - ofs /\ Expected = Filled'
      /\ last_rp_ack' = rp_ack
  BY WordsMove
<1>2. ASSUME NEW n \in 0 .. adr_top - 1, n >= ofs, ~ifu_jump \/ n <= ofs + 1
      PROVE  adr_buf'[n - ofs] = adr_buf[n]
  <2>1. n - ofs \in 0 .. adr_top - ofs - 1 /\ n - ofs + ofs = n /\ (~ifu_jump \/ n - ofs <= 1)
    BY <1>2, Numbers
  <2> QED BY <2>1, AddressesMove
<1>a. ASSUME NEW j, NEW n \in 0 .. adr_top - 1, j \in Nat, n = j + ofs, ~ifu_jump \/ j <= 1
      PROVE  adr_buf'[j] = adr_buf[n]
  <2>1. j \in 0 .. adr_top - ofs - 1
    BY <1>a, Numbers
  <2> QED BY <1>a, <2>1, AddressesMove
<1>3. ASSUME NEW j \in 1 .. insn_top' - 1
      PROVE  insn_buf'[j].adr = adr_buf'[j]
  <2>1. /\ j \in 0 .. Filled - ofs - 1 /\ j + ofs \in 1 .. adr_top - 1 /\ j + ofs <= insn_top
        /\ j + ofs - ofs = j /\ (~(j + ofs < insn_top) => last_rp_ack /\ j + ofs = insn_top)
    BY <1>1, Numbers DEF Coming
  <2>2. ~ifu_jump \/ j + ofs <= ofs + 1
    BY <1>1, NothingBehind, Numbers
  <2>3. WordAt(j + ofs).adr = adr_buf[j + ofs]
    <3>1. CASE j + ofs < insn_top
      <4>1. j + ofs \in 1 .. insn_top - 1
        BY <2>1, <3>1, Numbers
      <4> QED BY <3>1, <4>1 DEF WordAt, OrderInv, AdrInv
    <3>2. CASE ~(j + ofs < insn_top)
      BY <2>1, <3>2 DEF WordAt, OrderInv, AdrInv
    <3> QED BY <3>1, <3>2
  <2>4. adr_buf'[j] = adr_buf[j + ofs]
    BY <1>2, <2>1, <2>2, Numbers
  <2> QED BY <2>1, <2>3, <2>4, WordsMove
<1>4. ASSUME rp_ack PROVE rp_data'.adr = adr_buf'[insn_top']
  <2>1. rp_rd /\ Asked = 1 /\ rp_adr = adr_buf[Filled]
    BY <1>4 DEF OrderInv, PortInv, AdrInv, Asked
  <2>2. Filled \in 0 .. adr_top - 1 /\ Filled >= ofs /\ (~ifu_jump \/ Filled <= ofs + 1)
    BY <2>1, NothingBehind, Numbers
  <2> QED BY <1>1, <1>2, <1>4, <2>1, <2>2, Arrives
<1>5. ASSUME rp_rd' PROVE rp_adr' = adr_buf'[Filled']
  <2>1. rp_adr' = adr_buf[Expected + ofs]
    BY <1>5, RequestMove
  <2>2. CASE Expected + ofs < adr_top
    <3>1. /\ Expected + ofs \in 0 .. adr_top - 1 /\ Expected + ofs >= ofs
          /\ Expected + ofs - ofs = Expected
      BY <1>1, <2>2, Numbers
    <3>2. ~ifu_jump \/ Expected + ofs <= ofs + 1
      BY <1>1, <1>5, JumpStops, Numbers
    <3>3. Expected \in Nat /\ (~ifu_jump \/ Expected <= 1)
      BY <1>1, <3>2, Numbers
    <3>4. adr_buf'[Expected] = adr_buf[Expected + ofs]
      BY <1>a, <3>1, <3>3
    <3> QED BY <1>1, <2>1, <3>4
  <2>3. CASE ~(Expected + ofs < adr_top)
    <3>1. ~ifu_jump /\ ofs = 0 /\ adr_top = 1 /\ Expected = 1 /\ adr_buf[1] = Succ(adr_buf[0])
      BY <1>5, <2>3, FreshAddress
    <3>2. adr_buf'[1] = Succ(adr_buf[0])
      BY <3>1, AddressesMove, IfuFacts
    <3> QED BY <1>1, <2>1, <3>1, <3>2
  <2> QED BY <2>2, <2>3
<1>b. ~(adr_top >= Position + 2) =>
        /\ ~Takes /\ ~ifu_jump /\ ~Linking /\ ofs = 0 /\ Position = 1 /\ Position' = 1
        /\ adr_top \in {1, 2} /\ adr_top' = adr_top + 1
        /\ adr_buf'[adr_top] = Succ(adr_buf[adr_top - 1])
        /\ arch.npc = Succ(arch.pc) /\ arch.pc = Succ(adr_buf[0]) /\ arch.pc = adr_buf[1]
  <2>1. SUFFICES ASSUME ~(adr_top >= Position + 2)
                 PROVE  /\ ~Takes /\ ~ifu_jump /\ ~Linking /\ ofs = 0
                        /\ Position = 1 /\ Position' = 1
                        /\ adr_top \in {1, 2} /\ adr_top' = adr_top + 1
                        /\ adr_buf'[adr_top] = Succ(adr_buf[adr_top - 1])
                        /\ arch.npc = Succ(arch.pc) /\ arch.pc = Succ(adr_buf[0])
                        /\ arch.pc = adr_buf[1]
    OBVIOUS
  <2>2. /\ exu_state = "main" /\ adr_top \in {1, 2} /\ arch.npc = Succ(arch.pc)
        /\ arch.pc = Succ(adr_buf[0]) /\ arch.pc = adr_buf[1]
    BY <2>1 DEF OrderInv, CountInv
  <2>3. ~ifu_jump /\ ofs = 0 /\ Position = 1 /\ ~Linking
    BY <2>2 DEF OrderInv, DriveInv, ofs, Position, Busy, Linking
  <2>4. ~Takes
    <3>1. Takes => Filled >= 2
      BY Turn, Numbers
    <3>2. Filled >= 2 => adr_top >= 3
      BY Numbers, IfuFacts DEF OrderInv, CountInv
    <3> QED BY <2>2, <3>1, <3>2
  <2>5. Position' = 1
    BY <2>3, <2>4, Turn
  <2>6. adr_top' = adr_top + 1 /\ adr_buf'[adr_top] = Succ(adr_buf[adr_top - 1])
    BY <2>2, <2>3, AddressesMove, IfuFacts
  <2> QED BY <2>2, <2>3, <2>4, <2>5, <2>6
<1>6. Position' < adr_top' => adr_buf'[Position'] = arch'.pc
  <2>1. CASE adr_top >= Position + 2 /\ Takes
    <3>1. /\ Position = 1 /\ ofs = 0 /\ ~ifu_jump /\ ~Linking /\ Position' = 2
          /\ arch'.pc = arch.npc
      BY <2>1, Turn DEF Pending
    <3>2. Position + 1 = 2 /\ 2 < adr_top
      BY <2>1, <3>1, Numbers
    <3>3. adr_buf[2] = arch.npc
      BY <3>1, <3>2 DEF OrderInv, AdrInv
    <3>4. 2 \in 0 .. adr_top - 1 /\ 2 >= ofs /\ 2 - ofs = 2
      BY <3>1, <3>2, Numbers
    <3>5. adr_buf'[2] = adr_buf[2]
      BY <1>2, <3>1, <3>4
    <3> QED BY <3>1, <3>3, <3>5
  <2>2. CASE adr_top >= Position + 2 /\ ~Takes
    <3>1. Position' = Position - ofs /\ arch' = arch
      BY <2>2, Turn
    <3>2. adr_buf[Position] = arch.pc
      BY <2>2, Numbers DEF OrderInv, AdrInv
    <3>3. Position \in 0 .. adr_top - 1 /\ Position >= ofs /\ (~ifu_jump \/ Position <= ofs + 1)
      BY <2>2, Numbers
    <3> QED BY <1>2, <3>1, <3>2, <3>3
  <2>3. CASE ~(adr_top >= Position + 2)
    <3>1. arch' = arch
      BY <1>b, <2>3, Turn
    <3>2. CASE adr_top = 1
      BY <1>b, <2>3, <3>1, <3>2
    <3>3. CASE adr_top = 2
      <4>1. adr_buf'[1] = adr_buf[1]
        BY <1>2, <1>b, <2>3, <3>3
      <4> QED BY <1>b, <2>3, <3>1, <4>1
    <3> QED BY <1>b, <2>3, <3>2, <3>3
  <2> QED BY <2>1, <2>2, <2>3
<1>7. ASSUME Position' + 1 < adr_top', ~ifu_jump'
      PROVE  adr_buf'[Position' + 1] = IF Linking' THEN Succ(arch'.pc) ELSE arch'.npc
  <2>1. CASE Takes
    <3>1. /\ Position = 1 /\ ofs = 0 /\ ~ifu_jump /\ ~Linking /\ Position' = 2
          /\ arch'.pc = arch.npc /\ (~Linking' => arch'.npc = Succ(arch.npc))
      BY <1>7, <2>1, Turn DEF Pending
    <3>2. adr_top >= 3
      BY <1>b, <2>1, <3>1, Numbers
    <3>3. adr_buf[2] = arch.npc
      <4>1. Position + 1 = 2 /\ 2 < adr_top
        BY <3>1, <3>2, Numbers
      <4> QED BY <3>1, <4>1 DEF OrderInv, AdrInv
    <3>4. adr_buf'[3] = Succ(adr_buf[2])
      <4>1. CASE adr_top = 3
        BY <3>1, <4>1, AddressesMove, IfuFacts
      <4>2. CASE adr_top # 3
        <5>1. 2 \in Position + 1 .. adr_top - 2 /\ 3 \in 0 .. adr_top - 1
          BY <3>1, <3>2, <4>2, Numbers
        <5>2. adr_buf[2 + 1] = Succ(adr_buf[2])
          BY <5>1 DEF OrderInv, AdrInv
        <5>3. adr_buf'[3] = adr_buf[3]
          <6>1. 3 >= ofs /\ 3 - ofs = 3 /\ 2 + 1 = 3
            BY <3>1
          <6> QED BY <1>2, <3>1, <5>1, <6>1
        <5> QED BY <5>2, <5>3
      <4> QED BY <4>1, <4>2
    <3> QED BY <3>1, <3>3, <3>4
  <2>2. CASE ~Takes /\ ifu_jump
    <3>1. Position' = 1 /\ ~Linking' /\ arch' = arch
      BY <2>2, Turn, Numbers
    <3>2. arch.npc = ifu_jump_adr
      BY <2>2 DEF OrderInv, CounterInv, Pending
    <3> QED BY <2>2, <3>1, <3>2, AddressesMove
  <2>3. CASE ~Takes /\ ~ifu_jump
    <3>1. Position' = Position - ofs /\ arch' = arch /\ (Linking' <=> Linking)
      BY <1>7, <2>3, Turn DEF Pending
    <3>2. CASE adr_top >= Position + 2
      <4>1. Position + 1 \in 0 .. adr_top - 1 /\ Position + 1 >= ofs
            /\ Position' + 1 = Position + 1 - ofs
        BY <3>1, <3>2, Numbers
      <4>2. adr_buf'[Position' + 1] = adr_buf[Position + 1]
        <5>1. Position' + 1 \in Nat /\ Position + 1 = Position' + 1 + ofs
          BY <4>1, Numbers
        <5> QED BY <1>a, <2>3, <4>1, <5>1
      <4>3. adr_buf[Position + 1] = IF Linking THEN Succ(arch.pc) ELSE arch.npc
        BY <2>3, <3>2, Numbers DEF OrderInv, AdrInv
      <4> QED BY <3>1, <4>2, <4>3
    <3>3. CASE ~(adr_top >= Position + 2)
      <4>1. adr_top = 2
        BY <1>7, <1>b, <3>3
      <4> QED BY <1>b, <3>1, <3>3, <4>1
    <3> QED BY <3>2, <3>3
  <2> QED BY <2>1, <2>2, <2>3
<1>8. ASSUME NEW j \in Int, Position' < j, j + 1 < adr_top'
      PROVE  adr_buf'[j + 1] = Succ(adr_buf'[j])
  <2>1. Position' \in {1, 2}
    BY DEF Position
  <2>7. Position' >= Position - ofs
    <3>1. CASE Takes
      BY <3>1, Turn
    <3>2. CASE ~Takes
      BY <2>1, <3>2, Turn, Numbers
    <3> QED BY <3>1, <3>2
  <2>2. ~ifu_jump
    <3>1. SUFFICES ASSUME ifu_jump PROVE FALSE
      OBVIOUS
    <3>2. adr_top' = 3
      BY <3>1, AddressesMove
    <3>3. Position' < j /\ j < 2
      BY <1>8, <3>2
    <3> QED BY <2>1, <3>3
  <2>3. /\ j \in Nat /\ j + ofs >= Position + 1 /\ j + 1 + ofs <= adr_top
        /\ j + 1 < IFU_BUF_SIZE
    <3>1. /\ adr_top - ofs < IFU_BUF_SIZE => adr_top' = adr_top - ofs + 1
          /\ ~(adr_top - ofs < IFU_BUF_SIZE) => adr_top' = adr_top
      BY <2>2, AddressesMove
    <3>2. adr_top' \in Nat /\ adr_top' <= adr_top - ofs + 1 /\ adr_top' <= IFU_BUF_SIZE
      BY <3>1, Numbers, IfuFacts
    <3> QED BY <1>8, <2>1, <2>7, <3>2, Numbers, IfuFacts
  <2>4. adr_buf'[j] = adr_buf[j + ofs]
    <3>1. j + ofs \in 0 .. adr_top - 1 /\ j + ofs >= ofs /\ j + ofs - ofs = j
      BY <2>3, Numbers
    <3> QED BY <1>a, <2>2, <2>3, <3>1
  <2>5. CASE j + 1 + ofs < adr_top
    <3>1. /\ j + ofs \in Position + 1 .. adr_top - 2
          /\ j + ofs + 1 \in 0 .. adr_top - 1 /\ j + ofs + 1 >= ofs /\ j + ofs + 1 - ofs = j + 1
      BY <2>3, <2>5, Numbers
    <3>2. adr_buf[j + ofs + 1] = Succ(adr_buf[j + ofs])
      BY <3>1 DEF OrderInv, AdrInv
    <3>3. adr_buf'[j + 1] = adr_buf[j + ofs + 1]
      <4>1. j + 1 \in Nat /\ j + ofs + 1 = j + 1 + ofs
        BY <2>3, Numbers
      <4> QED BY <1>a, <2>2, <3>1, <4>1
    <3> QED BY <2>4, <3>2, <3>3
  <2>6. CASE ~(j + 1 + ofs < adr_top)
    <3>1. j + 1 = adr_top - ofs /\ j + ofs = adr_top - 1
      BY <2>3, <2>6, Numbers
    <3> QED BY <2>2, <2>3, <2>4, <3>1, AddressesMove
  <2> QED BY <2>5, <2>6
<1>9. ASSUME NEW j \in (Position' + 1) .. (adr_top' - 2)
      PROVE  adr_buf'[j + 1] = Succ(adr_buf'[j])
  <2>1. Position' \in Int /\ adr_top' \in Int
    BY AddressesMove, Numbers, IfuFacts DEF Position
  <2>2. j \in Int /\ Position' < j /\ j + 1 < adr_top'
    BY <2>1, Between
  <2> QED BY <1>8, <2>2
<1> QED BY <1>1, <1>3, <1>4, <1>5, <1>6, <1>7, <1>9 DEF AdrInv

LEMMA CounterStep ==
  ASSUME TInv, OrderInv, ExuEdge, ArchEdge
  PROVE  CounterInv'
<1>1. CASE Takes
  <2>1. Pending' => arch'.npc = ifu_jump_adr'
    BY <1>1, Turn
  <2>2. ASSUME Linking' PROVE arch'.pc = Succ(insn'.adr)
    <3>1. /\ Position = 1 /\ insn_top >= 2 /\ arch'.pc = arch.npc /\ insn' = insn_buf[1]
          /\ IsJump(insn_buf[1])
      BY <1>1, <2>2, Turn DEF Pending, Taken, ir
    <3>2. ~Taken(insn_buf[0])
      <4>1. 0 \in 0 .. insn_top - 2
        BY <3>1, Numbers
      <4>2. Taken(insn_buf[0]) => ~IsJump(insn_buf[0 + 1])
        BY <4>1 DEF OrderInv, JumpInv
      <4> QED BY <3>1, <4>2
    <3>3. arch.npc = Succ(arch.pc)
      BY <3>1, <3>2 DEF OrderInv, JumpInv
    <3>4. insn_buf[1].adr = adr_buf[1] /\ adr_buf[1] = arch.pc
      <4>1. 1 \in 1 .. insn_top - 1 /\ 1 < adr_top
        BY <3>1, Numbers
      <4> QED BY <3>1, <4>1 DEF OrderInv, AdrInv
    <3> QED BY <3>1, <3>3, <3>4
  <2> QED BY <2>1, <2>2 DEF CounterInv
<1>2. CASE ~Takes
  <2>1. arch' = arch /\ insn' = insn /\ (Linking' => Linking) /\ (Pending' => Pending)
        /\ (Pending' => ifu_jump_adr' = ifu_jump_adr)
    <3>1. arch' = arch /\ insn' = insn
      BY <1>2, Turn
    <3>2. Linking' => Linking
      BY <1>2, Turn
    <3>3. (Pending' => Pending) /\ (Pending' => ifu_jump_adr' = ifu_jump_adr)
      <4>1. Pending' <=> (Pending /\ ~ifu_jump)
        BY <1>2, Turn
      <4>2. Pending' => ifu_jump_adr' = ifu_jump_adr
        BY <1>2, Turn
      <4> QED BY <4>1, <4>2
    <3> QED BY <3>1, <3>2, <3>3
  <2> QED BY <2>1 DEF CounterInv, OrderInv
<1> QED BY <1>1, <1>2

-----------------------------------------------------------------------------
LEMMA OrderInit ==
  ASSUME Init
  PROVE  OrderInv
<1>1. /\ insn_top = 1 /\ adr_top = 1 /\ ~last_rp_ack /\ ~rp_rd /\ ~rp_ack /\ ~rp_pending /\ acks = 0
      /\ exu_state = "main" /\ ~ifu_next /\ ~ifu_jump
      /\ arch.pc = Succ(adr_buf[0]) /\ arch.npc = Succ(Succ(adr_buf[0]))
  BY DEF Init, IfuInit, ExuInit
<1>2. insn_buf[0] = ZeroInsn /\ adr_buf[1] = Succ(adr_buf[0])
  <2>1. insn_buf = [n \in Entry |-> ZeroInsn]
    BY DEF Init, IfuInit
  <2>2. PICK start \in Address :
          adr_buf = [n \in Entry |-> CASE n = 0 -> start [] n = 1 -> Succ(start) [] OTHER -> 0]
    BY DEF Init, IfuInit
  <2>3. adr_buf[0] = start /\ adr_buf[1] = Succ(start)
    BY <2>2, IfuFacts
  <2> QED BY <2>1, <2>3, IfuFacts
<1>3. Position = 1 /\ Coming = 0 /\ Filled = 1 /\ Asked = 0 /\ ~Pending /\ ~Linking
  BY <1>1 DEF Position, Busy, Coming, Filled, Asked, Pending, Linking
<1>4. IsJump(insn_buf[0]) /\ ~Taken(insn_buf[0])
  BY <1>2 DEF IsJump, JumpKind, ZeroInsn, Taken
<1>5. DriveInv /\ CounterInv
  BY <1>1, <1>3 DEF DriveInv, CounterInv
<1>6. PortInv
  BY <1>1 DEF PortInv
<1>7. CountInv
  BY <1>1, <1>2, <1>3, <1>4 DEF CountInv
<1>8. JumpInv
  BY <1>1, <1>3, <1>4 DEF JumpInv
<1>9. AdrInv
  BY <1>1, <1>3 DEF AdrInv
<1> QED BY <1>5, <1>6, <1>7, <1>8, <1>9 DEF OrderInv

LEMMA OrderNext ==
  ASSUME TInv, OrderInv, [Next]_vars, NoFastJumps
  PROVE  OrderInv'
<1>1. CASE Next
  <2>1. /\ IfuEdge /\ ExuEdge /\ ReadPortEdge /\ ArchEdge /\ workload' = workload
    BY <1>1 DEF Next
  <2> QED BY <2>1, Turn, CounterStep, PortInvStep, CountStep, JumpStep, AdrStep DEF OrderInv
<1>2. CASE UNCHANGED vars
  <2>1. UNCHANGED <<insn_buf, adr_buf, insn_top, adr_top, last_rp_ack, rp_rd, rp_adr, rp_ack,
                    rp_data, rp_pending, acks, exu_state, insn, ifu_next, ifu_jump,
                    ifu_jump_adr, arch, workload>>
    BY <1>2 DEF vars, ifuVars, exuVars, rpVars, ifuLines
  <2>2. UNCHANGED <<Position, Linking, Asked, Coming>>
    BY <2>1 DEF Position, Linking, Asked, Coming
  <2>3. UNCHANGED <<Pending, Filled>>
    BY <2>1, <2>2 DEF Pending, Filled
  <2>4. DriveInv' /\ CounterInv' /\ PortInv'
    BY <2>1, <2>2, <2>3 DEF OrderInv, DriveInv, CounterInv, PortInv
  <2>5. CountInv'
    BY <2>1, <2>2, <2>3 DEF OrderInv, CountInv, IsJump
  <2>6. JumpInv'
    BY <2>1, <2>2, <2>3 DEF OrderInv, JumpInv, IsJump, Taken
  <2>7. AdrInv'
    BY <2>1, <2>2, <2>3 DEF OrderInv, AdrInv
  <2> QED BY <2>4, <2>5, <2>6, <2>7 DEF OrderInv
<1> QED BY <1>1, <1>2

LEMMA Order ==
  ASSUME NoFastJumps
  PROVE  Spec => []OrderInv
<1>1. TInv /\ OrderInv /\ [Next]_vars => OrderInv'
  BY OrderNext
<1> QED BY <1>1, OrderInit, Types, PTL DEF Spec

\* Whatever has been fetched ahead when an instruction turns out to be a jump ("(1, 1) lets
\* the (current + 2)'th instruction be the jump target", ifu.h), the EXU takes the
\* instructions of the program one after the other, whatever the size of the buffer.
THEOREM OrderTheorem ==
  ASSUME NoFastJumps
  PROVE  Spec => []ProgramOrder
<1>1. ASSUME TInv, OrderInv PROVE ProgramOrder
  <2>1. SUFFICES ASSUME exu_state = "main", ir_valid PROVE ir.adr = arch.pc
    BY DEF ProgramOrder
  <2>2. Position = 1
    BY <1>1, <2>1 DEF OrderInv, DriveInv, Position, Busy
  <2>3. insn_top > 1
    BY <2>1 DEF ir_valid
  <2>4. 1 \in 1 .. insn_top - 1 /\ 1 < adr_top
    BY <1>1, <2>3, Numbers
  <2>5. insn_buf[1].adr = adr_buf[1]
    BY <1>1, <2>4 DEF OrderInv, AdrInv
  <2>6. adr_buf[1] = arch.pc
    BY <1>1, <2>2, <2>4 DEF OrderInv, AdrInv
  <2> QED BY <2>5, <2>6 DEF ir
<1> QED BY <1>1, Order, Types, PTL

\* Where the EXU reads npc, for the link address ("PC+8", ifu.h) and for EPCR, it is the
\* address behind the delay slot; for EPCR it is there, although npc_valid is not looked at.
THEOREM NpcTheorem ==
  ASSUME NoFastJumps
  PROVE  Spec => []NpcRight
<1>1. ASSUME TInv, OrderInv PROVE NpcRight
  <2>1. ASSUME exu_state = "link_wait", npc_valid PROVE npc = Succ(Succ(insn.adr))
    <3>1. Linking /\ Pending /\ ~ifu_jump /\ Position = 1
      BY <1>1, <2>1 DEF Linking, Pending, OrderInv, DriveInv, Position, Busy
    <3>2. Position + 1 = 2 /\ 2 < adr_top
      BY <1>1, <2>1, <3>1, Numbers DEF npc_valid
    <3>3. adr_buf[2] = Succ(arch.pc)
      BY <1>1, <3>1, <3>2 DEF OrderInv, AdrInv
    <3>4. arch.pc = Succ(insn.adr)
      BY <1>1, <3>1 DEF OrderInv, CounterInv
    <3> QED BY <3>3, <3>4 DEF npc
  <2>2. ASSUME exu_state = "main", ir_valid PROVE npc_valid /\ npc = arch.npc
    <3>1. ~Linking /\ ~ifu_jump /\ Position = 1
      BY <1>1, <2>2 DEF Linking, OrderInv, DriveInv, Position, Busy
    <3>2. Filled >= 2
      BY <1>1, <2>2, Numbers DEF ir_valid
    <3>3. adr_top >= 3
      BY <1>1, <3>2, Numbers, IfuFacts DEF OrderInv, CountInv
    <3>4. Position + 1 = 2 /\ 2 < adr_top /\ adr_top > 2
      BY <1>1, <3>1, <3>3, Numbers
    <3>5. adr_buf[2] = arch.npc
      BY <1>1, <3>1, <3>4 DEF OrderInv, AdrInv
    <3> QED BY <3>4, <3>5 DEF npc, npc_valid
  <2> QED BY <2>1, <2>2 DEF NpcRight
<1> QED BY <1>1, Order, Types, PTL

\* "All input ports must be held until 'port_ack' is asserted" (memu.h): no word that
\* arrives, no jump and no room in the buffer makes the IFU withdraw or change a request.
THEOREM HeldTheorem ==
  ASSUME NoFastJumps
  PROVE  Spec => RequestHeld
<1> DEFINE Held == rp_rd /\ ~rp_ack => rp_rd' /\ rp_adr' = rp_adr
<1>1. TInv /\ OrderInv /\ [Next]_vars => [Held]_vars
  BY RequestMove DEF Next
<1>2. [][Held]_vars => RequestHeld
  BY PTL DEF RequestHeld
<1> HIDE DEF Held
<1> QED BY <1>1, <1>2, Order, Types, PTL DEF Spec

=============================================================================
