------------------------------- MODULE MBusIf -------------------------------
(***************************************************************************)
(* The bus interface (MBusIf, sysc/memu.cpp): serves one operation at a    *)
(* time.  Each wait () of MBusIf::MainThread is a value of bi_state, named *)
(* for what the thread waits for, and each action is the code between two  *)
(* waits.  The input lines of the clock cycle are the record "in":         *)
(*   op, nolinelock, bsel, adr, data    from the port that is granted      *)
(*   bank_data                          from the bank RAMs                 *)
(*   tag                                from the tag RAM                   *)
(*   gnt_linelock, gnt_tagr, gnt_tagw   grants; gnt_bank is a set of banks *)
(*   ack, dat                           from the Wishbone bus              *)
(***************************************************************************)
EXTENDS MemuData

VARIABLES
  bi_state,
  bi_op, nolinelock_reg, bsel_reg, adr_reg,     \* the latched operation
  idata_reg, idata_valid_reg,                   \* line read from the bus
  odata_reg,                                    \* line to write to the bus
  bi_tag_reg,                                   \* tag found by the operation
  bi_req_bank, banksLeft,                       \* requested and unserved banks
  bi_count,                                     \* words left to transfer
  write_victim

opVars    == <<bi_op, nolinelock_reg, bsel_reg>>
idataVars == <<adr_reg, idata_reg, idata_valid_reg>>
bankVars  == <<bi_req_bank, banksLeft>>
busIfVars == <<bi_state, opVars, idataVars, odata_reg, bi_tag_reg, bankVars,
               bi_count, write_victim>>

BusIfOp == {"nothing", "writeback", "invalidate", "flush", "replace",
            "direct_read", "direct_write"}

BusIfState ==
  {"idle", "start", "dread", "dread_ack", "dwrite", "linelock", "tagr", "tagr2",
   "tag_done", "fetch", "read_bank", "tagw_inv_req", "tagw_inv1", "tagw_inv2",
   "write_bank", "tagw_req", "tagw1", "tagw2", "wb_start", "writeback", "ack"}

-----------------------------------------------------------------------------
(* Output lines.                                                           *)

busif_busy       == bi_op # "nothing"
busif_adr_out    == adr_reg

\* The line lock is requested until the clock after the acknowledgement.
bi_req_linelock ==
  /\ bi_state \notin {"idle", "start", "dread", "dread_ack", "dwrite"}
  /\ ~nolinelock_reg
bi_tag_rd   == bi_state \in {"tagr", "tagr2"}         \* and req_tagr
bi_req_tagw == bi_state \in {"tagw_inv_req", "tagw_inv1", "tagw_inv2",
                             "tagw_req", "tagw1", "tagw2"}
bi_tag_wr   == bi_state \in {"tagw_inv1", "tagw_inv2", "tagw1", "tagw2"}
bi_bank_rd  == IF bi_state = "read_bank" THEN bi_req_bank ELSE {}
bi_bank_wr  == IF bi_state = "write_bank" THEN bi_req_bank ELSE {}

\* Tag lines: the old tag made invalid while the banks are rewritten, then the
\* new tag; the old tag selects the way in between.
new_tag == [valid |-> CASE bi_op \in {"flush", "invalidate"} -> FALSE
                        [] bi_op = "replace" -> TRUE
                        [] OTHER -> bi_tag_reg.valid,
            dirty |-> FALSE, tadr |-> GetTagOfAdr(adr_reg),
            way |-> bi_tag_reg.way]
\* Faulty variant: the way of the old tag is not kept while its line is saved.
bi_tag_out_FirstWay ==
  CASE bi_state \in {"tagw_req", "tagw1", "tagw2"} -> new_tag
    [] bi_state \in {"tagw_inv1", "tagw_inv2", "write_bank"} ->
         [bi_tag_reg EXCEPT !.valid = FALSE]
    [] OTHER -> NoTag
bi_tag_out ==
  CASE bi_state \in {"tagw_inv1", "tagw_inv2", "write_bank"} ->
         [bi_tag_reg EXCEPT !.valid = FALSE]
    [] bi_state \in {"tagw_req", "tagw1", "tagw2"} -> new_tag
    [] OTHER -> bi_tag_reg

wb_stb_o == bi_state \in {"dread", "dwrite", "fetch", "writeback"}
wb_we_o  == bi_state \in {"dwrite", "writeback"}

\* Bank the word on the bus belongs to: a fetch starts with the word that was
\* asked for and wraps around, a write-back starts with bank 0.
adrOfs == GetBankOfAdr(adr_reg)
wb_bank ==
  CASE bi_state = "fetch" ->
         (IF bi_count = CACHE_BANKS THEN adrOfs ELSE adrOfs + 1) % CACHE_BANKS
    [] bi_state = "writeback" -> CACHE_BANKS - bi_count
    [] OTHER -> adrOfs
wb_adr_o ==
  CASE bi_state = "fetch" ->
         ComposeAdress(GetTagOfAdr(adr_reg), GetIndexOfAdr(adr_reg), wb_bank)
    [] bi_state = "writeback" ->
         ComposeAdress(bi_tag_reg.tadr, GetIndexOfAdr(adr_reg), wb_bank)
    [] OTHER -> adr_reg
wb_dat_o == odata_reg[wb_bank]
wb_sel_o == IF bi_state = "dwrite" THEN bsel_reg ELSE Lane

-----------------------------------------------------------------------------
BusIfInit ==
  /\ bi_state = "idle"
  /\ bi_op = "nothing" /\ nolinelock_reg = FALSE /\ bsel_reg = {}
  /\ adr_reg = 0 /\ idata_valid_reg = {}
  /\ idata_reg = [b \in Bank |-> AnyWord]
  /\ odata_reg = [b \in Bank |-> AnyWord]
  /\ bi_tag_reg = NoTag
  /\ bi_req_bank = {} /\ banksLeft = {}
  /\ bi_count = 0 /\ write_victim = FALSE

Goto(s) == bi_state' = s

\* AcceptNewOp: latches the operation of the granted port, if there is one.
AcceptNewOp(in) ==
  IF in.op # "nothing"
  THEN /\ Goto("start")
       /\ bi_op' = in.op
       /\ nolinelock_reg' = in.nolinelock
       /\ bsel_reg' = in.bsel
       /\ adr_reg' = in.adr
       /\ odata_reg' = in.data
  ELSE /\ Goto("idle")
       /\ UNCHANGED <<opVars, adr_reg, odata_reg>>

Idle(in) ==
  /\ bi_state = "idle"
  /\ AcceptNewOp(in)
  /\ UNCHANGED <<idata_reg, idata_valid_reg, bi_tag_reg, bankVars, bi_count,
                 write_victim>>

Start ==
  /\ bi_state = "start"
  /\ Goto(CASE bi_op = "direct_read" -> "dread"
            [] bi_op = "direct_write" -> "dwrite"
            [] OTHER -> IF nolinelock_reg THEN "tagr" ELSE "linelock")
  /\ write_victim' = FALSE       \* not used by the direct operations
  /\ UNCHANGED <<opVars, idataVars, odata_reg, bi_tag_reg, bankVars, bi_count>>

\* Direct read and write.
DirectRead(in) ==
  /\ bi_state = "dread" /\ in.ack
  /\ Goto("dread_ack")
  /\ idata_reg' = [idata_reg EXCEPT ![GetBankOfAdr(adr_reg)] = in.dat]
  /\ idata_valid_reg' = idata_valid_reg \cup {GetBankOfAdr(adr_reg)}
  /\ UNCHANGED <<opVars, adr_reg, odata_reg, bi_tag_reg, bankVars, bi_count,
                 write_victim>>

DirectReadDone ==
  /\ bi_state = "dread_ack"
  /\ Goto("idle")
  /\ bi_op' = "nothing"
  /\ idata_valid_reg' = idata_valid_reg \ {GetBankOfAdr(adr_reg)}
  /\ UNCHANGED <<nolinelock_reg, bsel_reg, adr_reg, idata_reg, odata_reg,
                 bi_tag_reg, bankVars, bi_count, write_victim>>

DirectWrite(in) ==
  /\ bi_state = "dwrite" /\ in.ack
  /\ Goto("idle")
  /\ bi_op' = "nothing"
  /\ UNCHANGED <<nolinelock_reg, bsel_reg, idataVars, odata_reg, bi_tag_reg,
                 bankVars, bi_count, write_victim>>

\* Cached operations: lock the line, read its tag.
GotLineLock(in) ==
  /\ bi_state = "linelock" /\ in.gnt_linelock
  /\ Goto("tagr")
  /\ UNCHANGED <<opVars, idataVars, odata_reg, bi_tag_reg, bankVars, bi_count,
                 write_victim>>

GotTagR(in) ==
  /\ bi_state = "tagr" /\ in.gnt_tagr
  /\ Goto("tagr2")
  /\ UNCHANGED <<opVars, idataVars, odata_reg, bi_tag_reg, bankVars, bi_count,
                 write_victim>>

CaptureTag(in) ==
  /\ bi_state = "tagr2"
  /\ Goto("tag_done")
  /\ bi_tag_reg' = in.tag
  /\ UNCHANGED <<opVars, idataVars, odata_reg, bankVars, bi_count, write_victim>>

\* What follows the fetch (if there was one): save the old line if it is dirty
\* and the operation writes back, else go on to the tags.
SaveOldLine == bi_tag_reg.dirty /\ bi_op \in {"writeback", "flush", "replace"}
AfterSave   == IF bi_op = "replace" THEN "tagw_inv_req" ELSE "tagw_req"

GotoAfterFetch ==
  IF SaveOldLine
  THEN Goto("read_bank") /\ bi_req_bank' = Bank /\ banksLeft' = Bank
  ELSE Goto(AfterSave) /\ UNCHANGED bankVars

Dispatch ==
  /\ bi_state = "tag_done"
  /\ IF bi_op = "replace"
     THEN Goto("fetch") /\ bi_count' = CACHE_BANKS /\ UNCHANGED bankVars
     ELSE GotoAfterFetch /\ UNCHANGED bi_count
  /\ UNCHANGED <<opVars, idataVars, odata_reg, bi_tag_reg, write_victim>>

\* Read the new line from the bus; each word can be forwarded at once.
Fetch(in) ==
  /\ bi_state = "fetch" /\ in.ack
  /\ idata_reg' = [idata_reg EXCEPT ![wb_bank] = in.dat]
  /\ idata_valid_reg' = idata_valid_reg \cup {wb_bank}
  /\ adr_reg' = wb_adr_o
  /\ bi_count' = bi_count - 1
  /\ IF bi_count = 1 THEN GotoAfterFetch ELSE UNCHANGED <<bi_state, bankVars>>
  /\ UNCHANGED <<opVars, odata_reg, bi_tag_reg, write_victim>>

\* Read the old line from the banks: the data of a grant is taken at every
\* edge, the bank is done one clock after its first grant.
ReadBank(in) ==
  /\ bi_state = "read_bank"
  /\ odata_reg' = [b \in Bank |-> IF b \in in.gnt_bank THEN in.bank_data[b]
                                  ELSE odata_reg[b]]
  /\ IF banksLeft = {}
     THEN /\ Goto(AfterSave) /\ write_victim' = TRUE
          /\ bi_req_bank' = {} /\ UNCHANGED banksLeft
     ELSE /\ bi_req_bank' = banksLeft
          /\ banksLeft' = banksLeft \ in.gnt_bank
          /\ UNCHANGED <<bi_state, write_victim>>
  /\ UNCHANGED <<opVars, idataVars, bi_tag_reg, bi_count>>

\* Write the invalid tag, then the banks, so that no reader hits in between.
GotTagWInv(in) ==
  /\ bi_state = "tagw_inv_req" /\ in.gnt_tagw
  /\ Goto("tagw_inv1")
  /\ UNCHANGED <<opVars, idataVars, odata_reg, bi_tag_reg, bankVars, bi_count,
                 write_victim>>

WriteInvalidTag ==
  /\ bi_state = "tagw_inv1"
  /\ Goto("tagw_inv2")
  /\ UNCHANGED <<opVars, idataVars, odata_reg, bi_tag_reg, bankVars, bi_count,
                 write_victim>>

InvalidTagDone ==
  /\ bi_state = "tagw_inv2"
  /\ Goto("write_bank") /\ bi_req_bank' = Bank /\ banksLeft' = Bank
  /\ UNCHANGED <<opVars, idataVars, odata_reg, bi_tag_reg, bi_count,
                 write_victim>>

WriteBank(in) ==
  /\ bi_state = "write_bank"
  /\ banksLeft' = banksLeft \ in.gnt_bank
  /\ bi_req_bank' = banksLeft'
  /\ Goto(IF banksLeft' = {} THEN "tagw_req" ELSE "write_bank")
  /\ UNCHANGED <<opVars, idataVars, odata_reg, bi_tag_reg, bi_count,
                 write_victim>>

\* Write the new tag.
GotTagW(in) ==
  /\ bi_state = "tagw_req" /\ in.gnt_tagw
  /\ Goto("tagw1")
  /\ UNCHANGED <<opVars, idataVars, odata_reg, bi_tag_reg, bankVars, bi_count,
                 write_victim>>

WriteNewTag ==
  /\ bi_state = "tagw1"
  /\ Goto("tagw2")
  /\ UNCHANGED <<opVars, idataVars, odata_reg, bi_tag_reg, bankVars, bi_count,
                 write_victim>>

\* The acknowledgement: no more forwarding, not busy, lock still requested.
Acknowledge ==
  /\ Goto("ack")
  /\ idata_valid_reg' = {}
  /\ bi_op' = "nothing"

NewTagDone ==
  /\ bi_state = "tagw2"
  /\ IF write_victim THEN Goto("wb_start") /\ UNCHANGED <<bi_op, idata_valid_reg>>
     ELSE Acknowledge
  /\ UNCHANGED <<nolinelock_reg, bsel_reg, adr_reg, idata_reg, odata_reg,
                 bi_tag_reg, bankVars, bi_count, write_victim>>

\* Write the old line back to the bus.
StartWriteBack ==
  /\ bi_state = "wb_start"
  /\ Goto("writeback") /\ bi_count' = CACHE_BANKS
  /\ UNCHANGED <<opVars, idataVars, odata_reg, bi_tag_reg, bankVars,
                 write_victim>>

WriteBack(in) ==
  /\ bi_state = "writeback" /\ in.ack
  /\ bi_count' = bi_count - 1
  /\ IF bi_count = 1 THEN Acknowledge
     ELSE UNCHANGED <<bi_state, bi_op, idata_valid_reg>>
  /\ UNCHANGED <<nolinelock_reg, bsel_reg, adr_reg, idata_reg, odata_reg,
                 bi_tag_reg, bankVars, write_victim>>

Unlock(in) ==
  /\ bi_state = "ack"
  /\ AcceptNewOp(in)
  /\ UNCHANGED <<idata_reg, idata_valid_reg, bi_tag_reg, bankVars, bi_count,
                 write_victim>>

\* A wait for a grant or for the bus goes on.
Waiting(in) ==
  /\ \/ bi_state \in {"dread", "dwrite", "fetch", "writeback"} /\ ~in.ack
     \/ bi_state = "linelock" /\ ~in.gnt_linelock
     \/ bi_state = "tagr" /\ ~in.gnt_tagr
     \/ bi_state \in {"tagw_inv_req", "tagw_req"} /\ ~in.gnt_tagw
  /\ UNCHANGED busIfVars

BusIfEdge(in) ==
  \/ Idle(in) \/ Start \/ DirectRead(in) \/ DirectReadDone \/ DirectWrite(in)
  \/ GotLineLock(in) \/ GotTagR(in) \/ CaptureTag(in) \/ Dispatch \/ Fetch(in)
  \/ ReadBank(in) \/ GotTagWInv(in) \/ WriteInvalidTag \/ InvalidTagDone
  \/ WriteBank(in) \/ GotTagW(in) \/ WriteNewTag \/ NewTagDone
  \/ StartWriteBack \/ WriteBack(in) \/ Unlock(in) \/ Waiting(in)

=============================================================================
