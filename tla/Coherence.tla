----------------------------- MODULE Coherence ------------------------------
(***************************************************************************)
(* Correctness of the memory unit: the safety and liveness properties of   *)
(* MMemu, and the refinement that shows it to implement SharedMemory.      *)
(***************************************************************************)
EXTENDS MMemu

-----------------------------------------------------------------------------
(* Where the current word of an address is.                                *)

CachedWays(adr) == HitWays(tag_ram[GetIndexOfAdr(adr)], adr)

\* The bus interface holds the line of adr in odata_reg until it has written
\* it back.
VictimHeld(adr) ==
  /\ write_victim /\ bi_state \notin {"idle", "start", "ack"}
  /\ GetIndexOfAdr(adr) = GetIndexOfAdr(adr_reg)
  /\ GetTagOfAdr(adr) = bi_tag_reg.tadr

\* In the cache, else in the victim line, else in memory.
CachedWord(adr) ==
  LET b == GetBankOfAdr(adr)
  IN  IF CachedWays(adr) # {}
      THEN bank_ram[b][GetWayIndexOfAdr(adr, CHOOSE w \in CachedWays(adr) : TRUE)]
      ELSE IF VictimHeld(adr) THEN odata_reg[b]
      ELSE mem[adr]

\* In memory, unless the bus interface has taken over a direct write to it.
DirectWord(adr) ==
  IF bi_op = "direct_write" /\ adr_reg = adr
  THEN CombineData(bsel_reg, mem[adr], odata_reg[GetBankOfAdr(adr)])
  ELSE mem[adr]

Store(w) == [adr |-> wp_in[w].adr, data |-> wp_in[w].data,
             bsel |-> wp_in[w].bsel, cond |-> wp_in[w].op = "sc"]

Shared == INSTANCE SharedMemory WITH
  Reader <- RP, Writer <- WP, Address <- MemAdr, Data <- Word,
  Merge <- CombineData,
  memory <- [a \in MemAdr |-> IF a \in DirectAdr THEN DirectWord(a)
                              ELSE CachedWord(a)],
  loads <- [p \in rp_rd |-> rp_adr[p]],
  delivered <- [p \in rp_done |-> rp_data(p)],
  stores <- [w \in {v \in WP : WpWrites(v)} |-> Store(w)],
  performed <- {w \in WP : wp_state[w] \in {"direct", "write_tag1", "write_tag2"}}

\* All ports see one memory: whatever the caches, the write-back of victims,
\* the forwarding of bus data and the interleaving of the ports do, a load
\* returns the last word stored.
SharedMemorySpec == Shared!Spec

-----------------------------------------------------------------------------
\* The assertion "same data stored in two ways" of MTagRam::MainThread.
OneWayPerLine ==
  \A i \in Index : \A v, w \in Way :
    /\ tag_ram[i].way[v].valid /\ tag_ram[i].way[w].valid
    /\ tag_ram[i].way[v].tadr = tag_ram[i].way[w].tadr
    => v = w

\* A line that is valid and not dirty may be dropped at any time, so it must
\* be what memory holds, unless a write port that has written its bank is
\* about to mark it dirty or the bus interface is writing it back.
CleanLinesInMemory ==
  \A a \in MemAdr \ DirectAdr : \A w \in CachedWays(a) :
    \/ tag_ram[GetIndexOfAdr(a)].way[w].dirty
    \/ bank_ram[GetBankOfAdr(a)][GetWayIndexOfAdr(a, w)] = mem[a]
    \/ \E v \in WP : wp_state[v] = "write_tag1" /\ wp_in[v].adr = a
    \/ VictimHeld(a)

\* The assertion "multiple tag write signals asserted" of MTagRam::MainThread,
\* and no reader has the tag RAM in the clock in which it serves nobody.
TagRamUse ==
  LET tagw == gnt_tagw(gnt_tagr)
  IN  /\ Cardinality(tagram_wr(tagw)) <= 1
      /\ tag_busy => gnt_tagr = {}

\* "Writers are supposed to acquire a line lock" (memu.h): a write port works
\* on a tag or on a bank, and the bus interface on a line, only under a line
\* lock of its own or, for a write miss, of the write port it works for.
WpUsesLine == {"read_tag", "have_tag_request_bank", "read_bank",
               "write_tag1_and_bank", "write_tag2_and_bank", "write_tag1",
               "write_tag2", "write_bank", "recheck", "recheck_read_tag",
               "replace", "replace_wait_busif"}
BusIfUsesLine == {"tagr2", "tag_done", "fetch", "read_bank", "tagw_inv_req",
                  "tagw_inv1", "tagw_inv2", "write_bank", "tagw_req", "tagw1",
                  "tagw2", "wb_start", "writeback"}
WritersHoldLineLock ==
  /\ \A w \in WP : wp_state[w] \in WpUsesLine => w \in linelock_reg
  /\ bi_state \in BusIfUsesLine =>
       \/ LOCK_BUSIF \in linelock_reg
       \/ \E w \in WP \cap linelock_reg : IDX_WP(w) \in busif_reg

\* All registers hold what they may, and nobody works on a tag, a line or a bank
\* without the locks that are to keep the others off it (memu.h, MTagRam::MainThread).
AccessesLocked == TypeOK /\ TagRamUse /\ WritersHoldLineLock

-----------------------------------------------------------------------------
(* Load linked, store conditional.                                         *)

\* The store of w takes effect at the end of this cycle.
Performs(w, gb) == WpBankWr(w, w \in WpBanks(gb))

\* "set, if write-conditional was sucessful" (memu.h): when a store conditional
\* is acknowledged, port_wcond_ok tells whether it has stored.
CondOkReported ==
  LET gb == gnt_bank
  IN  \A w \in wp_ack(gb) :
        wp_in[w].op = "sc" => (WpCondOk(w) <=> ~FailedSC(w))

\* Nobody breaks the link of a port that works on its line: from the clock in which
\* a store conditional gets the line lock and is checked to the one in which it is
\* acknowledged it keeps the link, unless it misses and gives up the lock
\* (SnoopMethod, MWritePort::MainMethod).
LinkKeptUnderLock ==
  [][\A w \in WP : link_valid_reg[w] /\ wp_state'[w] \in WpUsesLine
                    => link_valid_reg'[w]]_vars

\* SnoopMethod is "to catch a writer to the cache": once a store has taken
\* effect, no other port has a valid link to its address, unless it was linked
\* at that very edge.
StoreBreaksLinks ==
  [][LET gb == gnt_bank
     IN  \A v \in WP : Performs(v, gb) =>
           \A w \in WP \ {v} :
             /\ link_valid_reg[w] /\ link_adr_reg[w] = wp_in[v].adr
             /\ ~NewLink(w)
             => ~link_valid_reg'[w]]_vars

-----------------------------------------------------------------------------
(* The arbiter.                                                            *)

Masked(f, S) == [n \in DOMAIN f |-> IF n \in S THEN f[n] ELSE 0]

req_linelock == LineLockRequests(WpBanks(gnt_bank))

Arbiter == INSTANCE MArbiter WITH
  Requested <- {{"linelock", "tag", "bank", "busif"}},
  asked <- {"linelock", "tag", "bank", "busif"},
  MaxRequests <- RPORTS + 2 * (WPORTS + 1),
  idx <- Masked(lock_idx, req_linelock),
  wiadr <- Masked(wiadr, UNION {req_bank[b] : b \in Bank})

\* The ports and the bus interface drive the arbiter by its rules: every
\* address "must be kept constant as long as 'req_*' lines are held" (memu.h).
ArbiterSpec == Arbiter!Spec

-----------------------------------------------------------------------------
(* Liveness.                                                               *)

ReadPending(p)  == p \in rp_rd /\ p \notin rp_ack(gnt_bank)
WritePending(w) == wp_in[w].op \notin {"none", "ll"} /\ w \notin wp_ack(gnt_bank)

\* Every read is acknowledged in the end.
ReadsServed == \A p \in RP : []<>~ReadPending(p)

\* Every request to a write port is acknowledged in the end, however the
\* ports compete for the line lock, the tag RAM and the bus interface.
WritesServed == \A w \in WP : []<>~WritePending(w)

\* No reader keeps the tag RAM for ever by reading hits back to back.
ReadersPause == \A p \in RP : []<>(p \notin tagr_reg)

\* If the readers pause, every request is acknowledged in the end: the locks
\* are taken in an order that cannot deadlock, and the round robin of the
\* arbiter passes over nobody for ever.
AllServed == ReadersPause => ReadsServed /\ WritesServed

=============================================================================
