----------------------------- MODULE MWritePort -----------------------------
(***************************************************************************)
(* The write ports (MWritePort, sysc/memu.cpp), one per CPU.  The request  *)
(* lines of port w are the record wp_in[w]:                                *)
(*   op     "none", "write", "sc" (store conditional: write and            *)
(*          rlink_wcond), "ll" (load linked: rlink_wcond only),            *)
(*          "writeback", "invalidate" or "flush" (both)                    *)
(*   adr, data, bsel                                                       *)
(***************************************************************************)
EXTENDS MemuData

VARIABLES
  wp_state, wp_tag_reg, data_reg,     \* registers of the ports
  link_adr_reg, link_valid_reg,
  wp_in                               \* request lines, driven by the CPUs

writePortVars ==
  <<wp_state, wp_tag_reg, data_reg, link_adr_reg, link_valid_reg>>

WritePortState ==
  {"init", "direct", "request_linelock_only", "read_tag",
   "have_tag_request_bank", "read_bank", "write_tag1_and_bank",
   "write_tag2_and_bank", "write_tag1", "write_tag2", "write_bank", "miss",
   "request_busif_only", "recheck", "recheck_read_tag", "replace",
   "replace_wait_busif", "special_request_busif_only", "special",
   "special_wait_complete"}

SpecialOp == {"writeback", "invalidate", "flush"}

WpWrites(w)  == wp_in[w].op \in {"write", "sc"}
WpDirect(w)  == wp_in[w].adr \in DirectAdr
WpPartial(w) == wp_in[w].bsel # Lane

-----------------------------------------------------------------------------
(* What a request in the initial state is.                                 *)

Initial(w)     == wp_state[w] = "init"
NewDirect(w)   == Initial(w) /\ WpWrites(w) /\ WpDirect(w)
\* A store conditional that fails right away; later the link is not checked.
FailedSC(w)    == /\ Initial(w) /\ wp_in[w].op = "sc" /\ ~WpDirect(w)
                  /\ ~link_valid_reg[w]
NewCached(w)   == /\ Initial(w) /\ WpWrites(w) /\ ~WpDirect(w)
                  /\ ~FailedSC(w)
NewSpecial(w)  == Initial(w) /\ wp_in[w].op \in SpecialOp
NewLink(w)     == Initial(w) /\ wp_in[w].op = "ll"

-----------------------------------------------------------------------------
(* Output lines (MainMethod).  bank and tagw: the bank, the tag write lock *)
(* is granted; busy is busif_busy.                                         *)

WpBankWr(w, bank) ==
  bank /\ wp_state[w] \in {"write_tag1_and_bank", "write_tag2_and_bank",
                           "write_bank"}

\* The last access completes in this cycle: the line lock is given up.
LastAccess(w, bank) ==
  \/ wp_state[w] = "write_tag2"
  \/ wp_state[w] \in {"write_tag2_and_bank", "write_bank"} /\ bank

\* Faulty variant: the lock is given up while the line is being replaced.
WpReqLineLock_NotReplacing(w, bank) ==
  \/ NewCached(w) \/ NewSpecial(w)
  \/ /\ wp_state[w] \notin {"init", "direct", "request_busif_only",
                            "special_request_busif_only", "replace_wait_busif"}
     /\ ~LastAccess(w, bank)

WpReqLineLock(w, bank) ==
  \/ NewCached(w) \/ NewSpecial(w)
  \/ /\ wp_state[w] \notin {"init", "direct", "request_busif_only",
                            "special_request_busif_only"}
     /\ ~LastAccess(w, bank)

WpReqTagR(w, busy) ==
  \/ NewCached(w)
  \/ wp_state[w] = "recheck"
  \/ wp_state[w] = "replace_wait_busif" /\ ~busy

WpReqTagW(w) == wp_state[w] \in {"write_tag1_and_bank", "write_tag2_and_bank",
                                 "write_tag1", "write_tag2"}

WpTagWr(w, tagw) ==
  \/ tagw /\ wp_state[w] \in {"write_tag1_and_bank", "write_tag1"}
  \/ wp_state[w] = "write_tag2"

\* Faulty variants: the line is not marked dirty; the tag comes a clock late.
WpTagOut_NotDirty(w, tag) ==
  IF wp_state[w] = "read_tag" THEN tag ELSE wp_tag_reg[w]
WpTagOut_Late(w, tag) ==
  IF WpReqTagW(w) THEN [wp_tag_reg[w] EXCEPT !.dirty = TRUE] ELSE wp_tag_reg[w]

WpTagOut(w, tag) ==
  IF wp_state[w] = "read_tag" THEN tag
  ELSE IF WpReqTagW(w) THEN [wp_tag_reg[w] EXCEPT !.dirty = TRUE]
  ELSE wp_tag_reg[w]

WpReqBank(w) ==
  \/ wp_state[w] = "read_tag" /\ WpPartial(w)
  \/ wp_state[w] \in {"have_tag_request_bank", "read_bank",
                      "write_tag1_and_bank", "write_tag2_and_bank",
                      "write_bank"}

WpBankData(w) == CombineData(wp_in[w].bsel, data_reg[w], wp_in[w].data)

WpReqBusIf(w) ==
  \/ NewDirect(w) \/ NewSpecial(w)
  \/ wp_state[w] \in {"direct", "miss", "request_busif_only", "recheck",
                      "recheck_read_tag", "replace", "replace_wait_busif",
                      "special_request_busif_only", "special",
                      "special_wait_complete"}

WpBusIfOp(w) ==
  IF NewDirect(w) \/ wp_state[w] = "direct" THEN "direct_write"
  ELSE IF wp_state[w] = "replace" THEN "replace"
  ELSE IF wp_state[w] = "special" THEN wp_in[w].op
  ELSE "nothing"

WpAck(w, bank, busy) ==
  \/ FailedSC(w)
  \/ wp_state[w] = "direct" /\ busy
  \/ LastAccess(w, bank)
  \/ wp_state[w] = "special_wait_complete" /\ ~busy

WpCondOk(w) == link_valid_reg[w] /\ link_adr_reg[w] = wp_in[w].adr

-----------------------------------------------------------------------------
(* Next state.                                                             *)

NextWrite(tag) == IF tag.dirty THEN "write_bank" ELSE "write_tag1_and_bank"

NextAfterTag(w, tag, bank, miss) ==
  IF ~tag.valid THEN miss
  ELSE IF ~WpPartial(w) THEN NextWrite(tag)
  ELSE IF bank THEN "read_bank"
  ELSE "have_tag_request_bank"

\* g: grants of the port (linelock, tagr, tagw, bank, busif) and busif_busy.
\* An operation is handed to the bus interface only when that is idle.
NextDirect(g) == IF g.busif /\ ~g.busy THEN "direct" ELSE "init"

\* A miss needs both the bus interface and the line lock.  It gives up the lock
\* while it waits for the bus interface, and rechecks the tag after that.
NextMiss_NoRecheck(w, g) ==                                         \* faulty
  IF g.busif /\ ~g.busy /\ g.linelock THEN "replace"
  ELSE IF ~g.busif /\ g.linelock THEN "request_busif_only"
  ELSE "miss"
NextMiss_KeepLock(w, g) ==                                          \* faulty
  IF g.busif /\ ~g.busy /\ g.linelock THEN "recheck" ELSE "miss"
NextMiss(w, g) ==
  IF g.busif /\ ~g.busy /\ g.linelock THEN "recheck"
  ELSE IF ~g.busif /\ g.linelock THEN "request_busif_only"
  ELSE "miss"

NextFromInit(w, g) ==
  CASE NewDirect(w) -> NextDirect(g)
    [] NewCached(w) -> IF ~g.tagr THEN "init"
                       ELSE IF g.linelock THEN "read_tag"
                       ELSE "request_linelock_only"
    [] NewSpecial(w) -> IF g.busif /\ ~g.busy THEN "special"
                        ELSE IF g.linelock /\ ~g.busif
                        THEN "special_request_busif_only"
                        ELSE "init"
    [] OTHER -> "init"

WpNextState(w, tag, g) ==
  LET st == wp_state[w]
      GotoIf(cond, s) == IF cond THEN s ELSE st
  IN  CASE st = "init" -> NextFromInit(w, g)
        [] st = "direct" -> GotoIf(g.busy, "init")
        [] st = "request_linelock_only" -> GotoIf(g.linelock, "init")
        [] st = "read_tag" -> NextAfterTag(w, tag, g.bank, "miss")
        [] st = "have_tag_request_bank" -> GotoIf(g.bank, "read_bank")
        [] st = "read_bank" -> NextWrite(wp_tag_reg[w])
        [] st = "write_tag1_and_bank" ->
             IF g.tagw
             THEN IF g.bank THEN "write_tag2" ELSE "write_tag2_and_bank"
             ELSE GotoIf(g.bank, "write_tag1")
        [] st = "write_tag2_and_bank" ->
             IF g.bank THEN "init" ELSE "write_bank"
        [] st = "write_tag1" -> GotoIf(g.tagw, "write_tag2")
        [] st = "write_tag2" -> "init"
        [] st = "write_bank" -> GotoIf(g.bank, "init")
        [] st = "miss" -> NextMiss(w, g)
        [] st = "request_busif_only" -> GotoIf(g.busif, "miss")
        [] st = "recheck" -> GotoIf(g.tagr, "recheck_read_tag")
        [] st = "recheck_read_tag" -> NextAfterTag(w, tag, FALSE, "replace")
        [] st = "replace" -> GotoIf(g.busy, "replace_wait_busif")
        [] st = "replace_wait_busif" ->
             IF g.busy THEN st ELSE IF g.tagr THEN "read_tag" ELSE "init"
        [] st = "special_request_busif_only" -> GotoIf(g.busif, "init")
        [] st = "special" -> GotoIf(g.busy, "special_wait_complete")
        [] st = "special_wait_complete" -> GotoIf(~g.busy, "init")

\* The link is set by a load linked and lost when another port holds the line
\* lock for the same address.
NextLink(w, snoop_stb, snoop_adr) ==
  IF NewLink(w) THEN [valid |-> TRUE, adr |-> wp_in[w].adr]
  ELSE [valid |-> /\ link_valid_reg[w]
                  /\ ~(w \in snoop_stb /\ snoop_adr = link_adr_reg[w]),
        adr |-> link_adr_reg[w]]

WritePortInit ==
  /\ wp_state = [w \in WP |-> "init"]
  /\ wp_tag_reg = [w \in WP |-> NoTag]
  /\ data_reg = [w \in WP |-> AnyWord]
  /\ link_adr_reg = [w \in WP |-> 0]
  /\ link_valid_reg = [w \in WP |-> FALSE]

WritePortEdge(tag, g, bank_data, snoop_stb, snoop_adr) ==
  /\ wp_state' = [w \in WP |-> WpNextState(w, tag[w], g[w])]
  /\ wp_tag_reg' = [w \in WP |->
       IF wp_state[w] \in {"read_tag", "recheck_read_tag"} THEN tag[w]
       ELSE wp_tag_reg[w]]
  /\ data_reg' = [w \in WP |->
       IF wp_state[w] = "read_bank" THEN bank_data[w] ELSE data_reg[w]]
  /\ link_valid_reg' = [w \in WP |-> NextLink(w, snoop_stb, snoop_adr).valid]
  /\ link_adr_reg' = [w \in WP |-> NextLink(w, snoop_stb, snoop_adr).adr]

=============================================================================
