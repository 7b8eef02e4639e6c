-------------------------- MODULE CoherenceProofs ---------------------------
(***************************************************************************)
(* Proofs about the memory unit, for every configuration: registers, RAMs  *)
(* and lines keep their types, and nobody works on a tag, a line or a bank *)
(* without the locks that are to keep the others off it; what caches,      *)
(* victim line, bus interface and memory hold of a word, that the ports    *)
(* see one shared memory, and that they and the bus interface drive the    *)
(* arbiter by its rules.                                                   *)
(***************************************************************************)
EXTENDS Coherence, ArbiterLogicProofs, FiniteSetTheorems, TLAPS

-----------------------------------------------------------------------------
(* Addresses.                                                              *)

\* Quotient and remainder.
LEMMA DivMod ==
  ASSUME NEW n \in Nat, NEW d \in Nat, d # 0
  PROVE  /\ n \div d \in Nat
         /\ n % d \in 0 .. d - 1
         /\ n = (n % d) + d * (n \div d)
<1>1. n \div d \in Nat
  OBVIOUS
<1>2. n % d \in 0 .. d - 1
  OBVIOUS
<1>3. n = (n % d) + d * (n \div d)
  OBVIOUS
<1> QED BY <1>1, <1>2, <1>3

\* The parts of an address have the width of bank, index and tag.
LEMMA AdrParts ==
  ASSUME NEW a \in Nat
  PROVE  /\ GetBankOfAdr(a) \in Bank
         /\ GetIndexOfAdr(a) \in Index
         /\ GetTagOfAdr(a) \in Nat
<1>1. 4 * CACHE_BANKS \in Nat \ {0} /\ 4 * CACHE_BANKS * CACHE_SETS \in Nat \ {0}
  BY ConfigAssumption
<1> QED BY <1>1, ConfigAssumption
         DEF GetBankOfAdr, GetIndexOfAdr, GetTagOfAdr, Bank, Index

\* ComposeAdress is the inverse of taking an address apart.
LEMMA ComposeParts ==
  ASSUME NEW t \in Nat, NEW i \in Index, NEW b \in Bank
  PROVE  LET a == ComposeAdress(t, i, b)
         IN  /\ a \in Nat /\ a % 4 = 0
             /\ GetTagOfAdr(a) = t
             /\ GetIndexOfAdr(a) = i
             /\ GetBankOfAdr(a) = b
<1> DEFINE a == ComposeAdress(t, i, b)
           l == i + CACHE_SETS * t
<1>1. /\ b \in Nat /\ i \in Nat /\ l \in Nat
      /\ CACHE_BANKS \in Nat \ {0} /\ CACHE_SETS \in Nat \ {0}
  BY ConfigAssumption DEF Bank, Index
<1>2. a = 4 * (b + CACHE_BANKS * l)
  BY DEF ComposeAdress
<1> HIDE DEF l
<1>3. a \in Nat /\ a % 4 = 0 /\ a \div 4 = b + CACHE_BANKS * l
  BY <1>1, <1>2
<1>4. (a \div 4) % CACHE_BANKS = b /\ (a \div 4) \div CACHE_BANKS = l
  BY <1>1, <1>3 DEF Bank
<1> HIDE DEF a
<1>5. a \div (4 * CACHE_BANKS) = l
  BY <1>1, <1>3, <1>4
<1>6. l % CACHE_SETS = i /\ l \div CACHE_SETS = t
  BY <1>1 DEF l, Index
<1>7. a \div (4 * CACHE_BANKS * CACHE_SETS) = t
  <2>1. 4 * CACHE_BANKS \in Nat \ {0}
    BY <1>1
  <2> QED BY <1>1, <1>3, <1>5, <1>6, <2>1
<1> QED BY <1>3, <1>4, <1>5, <1>6, <1>7
         DEF GetTagOfAdr, GetIndexOfAdr, GetBankOfAdr, a

\* A word address is composed of its parts.
LEMMA ComposeOfParts ==
  ASSUME NEW a \in Nat, a % 4 = 0
  PROVE  a = ComposeAdress(GetTagOfAdr(a), GetIndexOfAdr(a), GetBankOfAdr(a))
<1> DEFINE w == a \div 4
           l == w \div CACHE_BANKS
<1>1. CACHE_BANKS \in Nat \ {0} /\ CACHE_SETS \in Nat \ {0}
  BY ConfigAssumption
<1>2. w \in Nat /\ a = 4 * w
  BY DivMod
<1> HIDE DEF w
<1>3. l \in Nat /\ w = (w % CACHE_BANKS) + CACHE_BANKS * l
  BY <1>1, <1>2, DivMod
<1> HIDE DEF l
<1>4. l = (l % CACHE_SETS) + CACHE_SETS * (l \div CACHE_SETS)
  BY <1>1, <1>3, DivMod
<1>5. a \div (4 * CACHE_BANKS) = l
  BY <1>1, <1>2, <1>3 DEF l, w
<1>6. a \div (4 * CACHE_BANKS * CACHE_SETS) = l \div CACHE_SETS
  <2>1. 4 * CACHE_BANKS \in Nat \ {0}
    BY <1>1
  <2> QED BY <1>1, <1>5, <2>1
<1>7. a = 4 * ((w % CACHE_BANKS) + CACHE_BANKS * ((l % CACHE_SETS)
                                    + CACHE_SETS * (l \div CACHE_SETS)))
  BY <1>1, <1>2, <1>3, <1>4
<1> QED BY <1>5, <1>6, <1>7
         DEF ComposeAdress, GetTagOfAdr, GetIndexOfAdr, GetBankOfAdr, w

\* The words that go through the cache: all words of their lines.
LineAdr == UNION {LineOf(a) : a \in CachedAdr}

\* All words of a line have its tag and its index, and are words of the cache
\* or of no line of it; the tag of a line is one the tag RAM can hold.
LEMMA LineParts ==
  ASSUME NEW a \in LineAdr
  PROVE  /\ a \in Nat /\ a \in MemAdr /\ a \notin DirectAdr
         /\ GetTagOfAdr(a) \in TagAdr
         /\ \A b \in Bank :
              /\ ComposeAdress(GetTagOfAdr(a), GetIndexOfAdr(a), b) \in LineAdr
              /\ LET c == ComposeAdress(GetTagOfAdr(a), GetIndexOfAdr(a), b)
                 IN  /\ GetTagOfAdr(c) = GetTagOfAdr(a)
                     /\ GetIndexOfAdr(c) = GetIndexOfAdr(a)
                     /\ GetBankOfAdr(c) = b
<1>1. PICK d \in CachedAdr : a \in LineOf(d)
  BY DEF LineAdr
<1>2. PICK b \in Bank : a = ComposeAdress(GetTagOfAdr(d), GetIndexOfAdr(d), b)
  BY <1>1 DEF LineOf
<1>3. d \in Nat
  BY DataAssumption
<1>4. GetTagOfAdr(d) \in Nat /\ GetIndexOfAdr(d) \in Index
  BY <1>3, AdrParts
<1>5. a \in Nat /\ GetTagOfAdr(a) = GetTagOfAdr(d)
        /\ GetIndexOfAdr(a) = GetIndexOfAdr(d)
  BY <1>2, <1>4, ComposeParts
<1>6. a \in MemAdr /\ a \notin DirectAdr
  BY DataAssumption DEF LineAdr, MemAdr
<1>7. GetTagOfAdr(a) \in TagAdr
  BY <1>5 DEF TagAdr
<1>8. ASSUME NEW e \in Bank
      PROVE  ComposeAdress(GetTagOfAdr(a), GetIndexOfAdr(a), e) \in LineAdr
  <2>1. ComposeAdress(GetTagOfAdr(a), GetIndexOfAdr(a), e) \in LineOf(d)
    BY <1>5 DEF LineOf
  <2> QED BY <2>1 DEF LineAdr
<1> QED BY <1>4, <1>5, <1>6, <1>7, <1>8, ComposeParts

\* A cached address is a word of its line.
LEMMA CachedInLine ==
  CachedAdr \subseteq LineAdr
<1> SUFFICES ASSUME NEW a \in CachedAdr PROVE a \in LineOf(a)
  BY DEF LineAdr
<1>1. a \in Nat /\ a % 4 = 0
  BY DataAssumption
<1>2. a = ComposeAdress(GetTagOfAdr(a), GetIndexOfAdr(a), GetBankOfAdr(a))
  BY <1>1, ComposeOfParts
<1>3. GetBankOfAdr(a) \in Bank
  BY <1>1, AdrParts
<1> QED BY <1>2, <1>3 DEF LineOf

\* Memory addresses are the words of cached lines and the direct ones.
LEMMA MemAdrParts ==
  /\ MemAdr = LineAdr \cup DirectAdr
  /\ LineAdr \cap DirectAdr = {}
  /\ MemAdr \subseteq Nat
<1>1. MemAdr = LineAdr \cup DirectAdr
  BY DEF MemAdr, LineAdr
<1>3. LineAdr \cap DirectAdr = {}
  <2>1. DirectAdr \cap LineAdr = {}
    BY DataAssumption DEF LineAdr
  <2> QED BY <2>1
<1>2. DirectAdr \subseteq Nat
  BY DataAssumption
<1> QED BY <1>1, <1>2, <1>3, LineParts

-----------------------------------------------------------------------------
(* The tag RAM.                                                            *)

Entry == [way : [Way -> [valid : BOOLEAN, dirty : BOOLEAN, tadr : TagAdr]],
          use : 0 .. 63]

\* The 'use' word has six bits.
LEMMA GetNewUseType ==
  ASSUME NEW use \in 0 .. 63, NEW way \in Way
  PROVE  GetNewUse(use, way) \in 0 .. 63
<1>1. CASE CACHE_WAYS = 1
  BY <1>1 DEF GetNewUse
<1>2. CASE CACHE_WAYS = 2
  BY <1>2 DEF GetNewUse, Way
<1>3. CASE CACHE_WAYS = 4
  <2> DEFINE missing == Xor2(Xor2(Field(use, 2), Field(use, 1)), Field(use, 0))
             full    == use + missing * 64
             found   == {n \in 0 .. 2 : Field(full, n) = way}
             new     == IF found = {} THEN full
                        ELSE DropField(full, CHOOSE n \in found : TRUE)
  <2>1. Field(use, 0) \in Int /\ Field(use, 1) \in Int /\ Field(use, 2) \in Int
    BY DEF Field
  <2>2. \A a, b \in Int : Xor2(a, b) \in Int
    BY DEF Xor2
  <2>a. missing \in Int
    BY <2>1, <2>2
  <2> HIDE DEF missing
  <2>3. full \in Int
    BY <2>a
  <2> HIDE DEF full
  <2>4. \A n \in 0 .. 2 : DropField(full, n) \in Int
    <3>1. DropField(full, 0) \in Int
      BY <2>3 DEF DropField
    <3>2. DropField(full, 1) \in Int
      BY <2>3 DEF DropField
    <3>3. DropField(full, 2) \in Int
      BY <2>3 DEF DropField
    <3> QED BY <3>1, <3>2, <3>3
  <2>5. found # {} => (CHOOSE n \in found : TRUE) \in 0 .. 2
    OBVIOUS
  <2>6. new \in Int
    BY <2>3, <2>4, <2>5
  <2> HIDE DEF new
  <2>7. new % 64 \in 0 .. 63
    BY <2>6
  <2>8. GetNewUse(use, way) = new % 64
    BY <1>3 DEF GetNewUse, new, full, missing
  <2> QED BY <2>7, <2>8
<1> QED BY <1>1, <1>2, <1>3, WaysAssumption

\* A read reports a way, a tag and a 'use' word of their types, whatever the
\* address lines are.
LEMMA TagReadType ==
  ASSUME NEW e \in Entry, NEW adr
  PROVE  /\ ReadWay(e, adr) \in Way
         /\ ReadTag(e, adr) \in Tag
<1>a. e.use \in Nat
  BY DEF Entry
<1>1. e.use % CACHE_WAYS \in Way
  BY <1>a, WaysAssumption DEF Way
<1>2. HitWays(e, adr) # {} =>
        (CHOOSE w \in HitWays(e, adr) : TRUE) \in Way
  BY DEF HitWays
<1>3. ReadWay(e, adr) \in Way
  BY <1>1, <1>2 DEF ReadWay
<1>4. ReadTag(e, adr) \in Tag
  BY <1>3 DEF ReadTag, Tag, Entry
<1> QED BY <1>3, <1>4

UseReg == [wr : BOOLEAN, iadr : Index, use : 0 .. 63]

LEMMA UseReadType ==
  ASSUME NEW e \in Entry, NEW adr, IndexOf(adr) \in Index, NEW old \in UseReg
  PROVE  ReadUse(e, adr, old) \in UseReg
<1>1. ReadWay(e, adr) \in Way /\ e.use \in 0 .. 63
  BY TagReadType DEF Entry
<1>2. GetNewUse(e.use, ReadWay(e, adr)) \in 0 .. 63
  BY <1>1, GetNewUseType
<1>3. NoUse \in UseReg
  BY ConfigAssumption DEF NoUse, UseReg, Index
<1> QED BY <1>2, <1>3 DEF ReadUse, UseReg

LEMMA WriteEntryType ==
  ASSUME NEW e \in Entry, NEW tag \in Tag
  PROVE  WriteEntry(e, tag) \in Entry
<1>1. tag.way \in Way /\ e.use \in 0 .. 63
  BY DEF Tag, Entry
<1>2. GetNewUse(e.use, tag.way) \in 0 .. 63
  BY <1>1, GetNewUseType
<1> QED BY <1>1, <1>2 DEF WriteEntry, Entry, Tag

-----------------------------------------------------------------------------
(* The invariant.  A port that waits keeps its request, and what the bus   *)
(* interface works on is what its operation is for.                        *)

NextLocks == gnt_linelock(gnt_bank)
NextTagW  == gnt_tagw(gnt_tagr)

\* Operations of the bus interface on cache lines, and its states in them.
LineOp    == {"replace", "writeback", "invalidate", "flush"}
LineState == BusIfState \ {"idle", "start", "ack", "dread", "dread_ack", "dwrite"}

BusIfJob ==
  /\ bi_op = "nothing" <=> bi_state \in {"idle", "ack"}
  /\ bi_state \in {"dread", "dread_ack"} => bi_op = "direct_read"
  /\ bi_state = "dwrite" => bi_op = "direct_write"
  /\ bi_state \in LineState => bi_op \in LineOp
  /\ bi_op \in LineOp => adr_reg \in LineAdr
  /\ bi_op \in {"direct_read", "direct_write"} => adr_reg \in DirectAdr
  /\ bi_state \in {"fetch", "writeback"} => bi_count # 0

CachedRead == {"read_tag", "miss_wait_busif", "miss_request_tag",
               "miss_read_tag", "miss_replace"}

ReadsHeld ==
  \A p \in RP :
    /\ rp_state[p] \notin {"init", "read_bank"} => p \in rp_rd
    /\ rp_state[p] \in CachedRead => ~RpDirect(p)
    /\ rp_state[p] = "direct_wait_busif" => RpDirect(p)
    /\ p \in rp_rd => rp_adr[p] \in workload.readAdr

SpecialState == {"special_request_busif_only", "special", "special_wait_complete"}
CachedWrite  == WritePortState \ ({"init", "direct"} \cup SpecialState)

WritesHeld ==
  \A w \in WP :
    /\ wp_state[w] \in CachedWrite => WpWrites(w) /\ ~WpDirect(w)
    /\ wp_state[w] = "direct" => WpWrites(w) /\ WpDirect(w)
    /\ wp_state[w] \in SpecialState => wp_in[w].op \in SpecialOp

TypeInv ==
  /\ TypeOK /\ workload \in Workloads
  /\ BusIfJob /\ ReadsHeld /\ WritesHeld

\* What an edge does to each part of the memory unit.
LEMMA NextParts ==
  ASSUME Next
  PROVE  /\ Tick
         /\ linelock_reg' = NextLocks /\ tagr_reg' = gnt_tagr
         /\ tagw_reg' = NextTagW /\ bank_reg' = gnt_bank /\ busif_reg' = gnt_busif
         /\ TagRamEdge(tagram_rd, tagram_wr(NextTagW),
                       tagram_adr(gnt_tagr, NextTagW), tagram_tag_in(NextTagW))
         /\ BankEdge(gnt_bank)
         /\ BusIfEdge(BusIfInputs(gnt_bank, NextLocks, gnt_tagr, NextTagW, gnt_busif))
         /\ ReadPortEdge(busif_hit, tag_out, gnt_tagr, RpBanks(gnt_bank),
                         gnt_busif, busif_busy)
         /\ WritePortEdge(tag_out, WpGrants(gnt_bank, NextLocks, gnt_tagr,
                                            NextTagW, gnt_busif),
                          wp_bank_data_in, SnoopStrobe(NextLocks),
                          SnoopAdr(NextLocks))
         /\ rp_busif_data_reg' = idata_reg[GetBankOfAdr(busif_adr_out)]
         /\ MemoryEdge
         /\ CpuEdge(rp_ack(gnt_bank), wp_ack(gnt_bank))
BY DEF Next, ArbiterEdge, NextLocks, NextTagW

LEMMA WordType == AnyWord \in Word /\ Word # {}
<1>1. PICK b \in Byte : TRUE
  BY DataAssumption
<1>2. [l \in Lane |-> b] \in Word
  BY DEF Word
<1> QED BY <1>2 DEF AnyWord

\* What the CPUs ask of a write port.
LEMMA RequestType ==
  ASSUME workload \in Workloads, NEW r \in WriteRequest
  PROVE  /\ r.op \in {"none", "write", "sc", "ll"} \cup SpecialOp
         /\ r.op # "none" => r.op \in workload.ops
         /\ r.adr \in workload.writeAdr \cup {0} /\ r.adr \in Nat
         /\ r.op # "none" => r.adr \in LineAdr \cup DirectAdr
         /\ r.op \notin {"none", "write"} => r.adr \notin DirectAdr
         /\ r.bsel \subseteq Lane /\ r.data \in Word
<1>0. /\ workload.writes \subseteq workload.writeAdr \X Byte
      /\ workload.bytesels \subseteq SUBSET Lane
      /\ workload.ops \subseteq {"write", "sc", "ll", "writeback", "invalidate", "flush"}
      /\ workload.writeAdr \subseteq LineAdr \cup DirectAdr
      /\ workload.writeAdr \subseteq Nat
  BY MemuAssumption, CachedInLine, MemAdrParts
<1>1. CASE r = NoWrite
  BY <1>1, WordType DEF NoWrite
<1>2. ASSUME NEW op \in workload.ops \cap {"write"}, NEW wr \in workload.writes,
             NEW bsel \in workload.bytesels,
             r = [op |-> op, adr |-> wr[1], bsel |-> bsel,
                  data |-> [l \in Lane |-> IF l \in bsel THEN wr[2] ELSE AnyWord[l]]]
      PROVE  /\ r.op = "write" /\ r.op \in workload.ops
             /\ r.adr \in workload.writeAdr
             /\ r.bsel \subseteq Lane /\ r.data \in Word
  BY <1>0, <1>2, WordType DEF Word
<1>3. ASSUME NEW wr \in workload.writes, "sc" \in workload.ops, wr[1] \notin DirectAdr,
             r = [op |-> "sc", adr |-> wr[1], bsel |-> Lane,
                  data |-> [l \in Lane |-> wr[2]]]
      PROVE  /\ r.op = "sc" /\ r.op \in workload.ops
             /\ r.adr \in workload.writeAdr /\ r.adr \notin DirectAdr
             /\ r.bsel \subseteq Lane /\ r.data \in Word
  BY <1>0, <1>3 DEF Word
<1>4. ASSUME NEW op \in workload.ops \ {"write", "sc"},
             NEW a \in workload.writeAdr \ DirectAdr,
             r = [op |-> op, adr |-> a, data |-> AnyWord, bsel |-> Lane]
      PROVE  /\ r.op \in {"ll"} \cup SpecialOp /\ r.op \in workload.ops
             /\ r.adr \in workload.writeAdr /\ r.adr \notin DirectAdr
             /\ r.bsel \subseteq Lane /\ r.data \in Word
  BY <1>0, <1>4, WordType DEF NoWrite, SpecialOp
<1>5. \/ r = NoWrite
      \/ \E op \in workload.ops \cap {"write"}, wr \in workload.writes,
            bsel \in workload.bytesels :
           r = [op |-> op, adr |-> wr[1], bsel |-> bsel,
                data |-> [l \in Lane |-> IF l \in bsel THEN wr[2] ELSE AnyWord[l]]]
      \/ \E wr \in workload.writes :
           /\ "sc" \in workload.ops /\ wr[1] \notin DirectAdr
           /\ r = [op |-> "sc", adr |-> wr[1], bsel |-> Lane,
                   data |-> [l \in Lane |-> wr[2]]]
      \/ \E op \in workload.ops \ {"write", "sc"}, a \in workload.writeAdr \ DirectAdr :
           r = [op |-> op, adr |-> a, data |-> AnyWord, bsel |-> Lane]
  <2> DEFINE A == {[op |-> op, adr |-> wr[1], bsel |-> bsel,
                    data |-> [l \in Lane |-> IF l \in bsel THEN wr[2] ELSE AnyWord[l]]] :
                     op \in workload.ops \cap {"write"}, wr \in workload.writes,
                     bsel \in workload.bytesels}
             B == {[op |-> "sc", adr |-> wr[1], bsel |-> Lane,
                    data |-> [l \in Lane |-> wr[2]]] :
                     wr \in {x \in workload.writes : "sc" \in workload.ops
                                                      /\ x[1] \notin DirectAdr}}
             C == {[op |-> op, adr |-> a, data |-> AnyWord, bsel |-> Lane] :
                     op \in workload.ops \ {"write", "sc"},
                     a \in workload.writeAdr \ DirectAdr}
  <2>1. r \in {NoWrite} \cup A \cup B \cup C
    BY DEF WriteRequest
  <2>2. r \in A => \E op \in workload.ops \cap {"write"}, wr \in workload.writes,
                       bsel \in workload.bytesels :
           r = [op |-> op, adr |-> wr[1], bsel |-> bsel,
                data |-> [l \in Lane |-> IF l \in bsel THEN wr[2] ELSE AnyWord[l]]]
    OBVIOUS
  <2>3. r \in B => \E wr \in workload.writes :
           /\ "sc" \in workload.ops /\ wr[1] \notin DirectAdr
           /\ r = [op |-> "sc", adr |-> wr[1], bsel |-> Lane,
                   data |-> [l \in Lane |-> wr[2]]]
    OBVIOUS
  <2>4. r \in C => \E op \in workload.ops \ {"write", "sc"},
                       a \in workload.writeAdr \ DirectAdr :
                      r = [op |-> op, adr |-> a, data |-> AnyWord, bsel |-> Lane]
    OBVIOUS
  <2> HIDE DEF A, B, C
  <2> QED BY <2>1, <2>2, <2>3, <2>4
<1>6. r # NoWrite =>
        /\ r.op \in {"write", "sc", "ll"} \cup SpecialOp /\ r.op \in workload.ops
        /\ r.adr \in workload.writeAdr
        /\ r.op # "write" => r.adr \notin DirectAdr
        /\ r.bsel \subseteq Lane /\ r.data \in Word
  BY <1>2, <1>3, <1>4, <1>5
<1>7. CASE r # NoWrite
  BY <1>0, <1>6, <1>7
<1> QED BY <1>1, <1>7

-----------------------------------------------------------------------------
(* The arbiter in the memory unit.                                         *)

LEMMA PrioType == TypeOK => GetPrioCpu \in CPU
<1>1. ASSUME TypeOK PROVE counter_reg \in Nat
  <2>1. CPU_CORES * PRIO_CLOCKS \in Nat
    BY ConfigAssumption, MemuAssumption
  <2> QED BY <1>1, <2>1 DEF TypeOK
<1>2. ASSUME TypeOK PROVE (counter_reg \div PRIO_CLOCKS) \in Nat
  BY <1>1, <1>2, MemuAssumption
<1> QED BY <1>2, ConfigAssumption DEF GetPrioCpu, CPU

\* Where the ports are on the vectors that hold all ports.
LEMMA PortNumbers ==
  /\ CPU_CORES \in Nat \ {0} /\ WPORTS = CPU_CORES /\ RPORTS = 2 * CPU_CORES
  /\ RP \subseteq Port /\ IDX_BUSIF \in Port /\ IDX_BUSIF \notin RP
  /\ \A w \in WP : /\ IDX_WP(w) \in Port /\ IDX_WP(w) # IDX_BUSIF
                   /\ IDX_WP(w) \notin RP /\ IDX_WP(w) - RPORTS = w
  /\ WP = CPU /\ WP \subseteq Locker
  /\ LOCK_BUSIF \in Locker /\ LOCK_BUSIF \notin WP
  /\ Locker = WP \cup {LOCK_BUSIF}
  /\ Port = RP \cup {IDX_WP(w) : w \in WP} \cup {IDX_BUSIF}
<1>1. CPU_CORES \in Nat \ {0} /\ WPORTS = CPU_CORES /\ RPORTS = 2 * CPU_CORES
  BY ConfigAssumption DEF WPORTS, RPORTS
<1>2. /\ RP \subseteq Port /\ IDX_BUSIF \in Port /\ IDX_BUSIF \notin RP
      /\ \A w \in WP : /\ IDX_WP(w) \in Port /\ IDX_WP(w) # IDX_BUSIF
                       /\ IDX_WP(w) \notin RP /\ IDX_WP(w) - RPORTS = w
  BY <1>1 DEF RP, Port, WP, IDX_WP, IDX_BUSIF
<1>3. /\ WP = CPU /\ WP \subseteq Locker
      /\ LOCK_BUSIF \in Locker /\ LOCK_BUSIF \notin WP
  BY <1>1 DEF WP, CPU, Locker, LOCK_BUSIF
<1>4. Locker = WP \cup {LOCK_BUSIF}
  BY <1>1 DEF WP, Locker, LOCK_BUSIF
<1>5. ASSUME NEW n \in Port, n \notin RP, n # IDX_BUSIF
      PROVE  \E w \in WP : n = IDX_WP(w)
  <2>1. n - RPORTS \in WP /\ n = IDX_WP(n - RPORTS)
    BY <1>1, <1>5 DEF Port, RP, WP, IDX_WP, IDX_BUSIF
  <2> QED BY <2>1
<1>6. Port = RP \cup {IDX_WP(w) : w \in WP} \cup {IDX_BUSIF}
  BY <1>2, <1>5
<1> QED BY <1>1, <1>2, <1>3, <1>4, <1>6

LEMMA RequestsType ==
  /\ LineLockRequests(WpBanks(gnt_bank)) \subseteq Locker
  /\ req_tagr \subseteq Port /\ req_tagw \subseteq Locker
  /\ req_busif \subseteq Port \ {IDX_BUSIF}
  /\ \A b \in Bank : req_bank[b] \subseteq Port
<1>1. /\ LineLockRequests(WpBanks(gnt_bank)) \subseteq Locker
      /\ req_tagw \subseteq Locker
  BY PortNumbers DEF LineLockRequests, req_tagw
<1>2. req_tagr \subseteq Port
  BY PortNumbers DEF req_tagr
<1>3. req_busif \subseteq Port \ {IDX_BUSIF}
  BY PortNumbers DEF req_busif
<1>4. ASSUME NEW b \in Bank PROVE req_bank[b] \subseteq Port
  BY PortNumbers DEF req_bank
<1> QED BY <1>1, <1>2, <1>3, <1>4

\* Only what is requested is granted.
LEMMA GrantsType ==
  ASSUME TypeOK
  PROVE  /\ NextLocks \subseteq LineLockRequests(WpBanks(gnt_bank))
         /\ gnt_tagr \subseteq req_tagr
         /\ NextTagW \subseteq req_tagw
         /\ gnt_busif \subseteq req_busif
         /\ \A b \in Bank : gnt_bank[b] \subseteq req_bank[b]
         /\ gnt_bank = [b \in Bank |-> gnt_bank[b]]
<1>p. GetPrioCpu \in CPU
  BY PrioType
<1>1. NextLocks \subseteq LineLockRequests(WpBanks(gnt_bank))
  BY <1>p, RequestsType, LineLockShape DEF NextLocks, gnt_linelock
<1>2. gnt_tagr \subseteq req_tagr
  <2>1. CASE tagram_ready = TRUE
    BY <2>1, TagReadersShape DEF gnt_tagr
  <2>2. CASE tagram_ready = FALSE
    BY <2>2 DEF gnt_tagr, TagReaders
  <2> QED BY <2>1, <2>2 DEF TypeOK
<1>3. NextTagW \subseteq req_tagw
  <2>1. CASE tagram_ready = TRUE
    <3>1. NextTagW = TagWriters(TRUE, gnt_tagr, tagw_reg, req_tagw, GetPrioCpu)
      BY <2>1 DEF NextTagW, gnt_tagw
    <3>2. req_tagw \subseteq Locker
      BY RequestsType
    <3> QED BY <1>p, <3>1, <3>2, TagWritersShape
  <2>2. CASE tagram_ready = FALSE
    BY <2>2 DEF NextTagW, gnt_tagw, TagWriters
  <2> QED BY <2>1, <2>2 DEF TypeOK
<1>4. gnt_busif \subseteq req_busif
  BY <1>p, BusIfGrantShape DEF gnt_busif
<1>5. \A b \in Bank : gnt_bank[b] \subseteq req_bank[b]
  BY DEF gnt_bank, BankGrant, PreGranted
<1>6. gnt_bank = [b \in Bank |-> gnt_bank[b]]
  BY DEF gnt_bank
<1> QED BY <1>1, <1>2, <1>3, <1>4, <1>5, <1>6

LEMMA ArbiterTypes ==
  ASSUME TypeInv, Next
  PROVE  /\ counter_reg' \in 0 .. CPU_CORES * PRIO_CLOCKS - 1
         /\ linelock_reg' \subseteq Locker /\ tagw_reg' \subseteq Locker
         /\ tagr_reg' \subseteq Port /\ busif_reg' \subseteq Port
         /\ bank_reg' \in [Bank -> SUBSET Port]
<1>1. TypeOK
  BY DEF TypeInv
<1>2. CPU_CORES * PRIO_CLOCKS \in Nat \ {0}
  BY ConfigAssumption, MemuAssumption
<1>3. counter_reg' \in 0 .. CPU_CORES * PRIO_CLOCKS - 1
  BY <1>1, <1>2, NextParts DEF TypeOK, Tick
<1>4. /\ linelock_reg' \subseteq Locker /\ tagw_reg' \subseteq Locker
      /\ tagr_reg' \subseteq Port /\ busif_reg' \subseteq Port
  BY <1>1, NextParts, GrantsType, RequestsType
<1>5. bank_reg' \in [Bank -> SUBSET Port]
  <2>1. \A b \in Bank : gnt_bank[b] \in SUBSET Port
    BY <1>1, GrantsType, RequestsType
  <2>2. gnt_bank = [b \in Bank |-> gnt_bank[b]]
    BY <1>1, GrantsType
  <2>3. bank_reg' = gnt_bank
    BY NextParts
  <2> HIDE DEF gnt_bank
  <2> QED BY <2>1, <2>2, <2>3
<1> QED BY <1>3, <1>4, <1>5

-----------------------------------------------------------------------------
(* The bus interface.                                                      *)

BusIfType ==
  /\ bi_state \in BusIfState /\ bi_op \in BusIfOp
  /\ nolinelock_reg \in BOOLEAN /\ bsel_reg \subseteq Lane
  /\ adr_reg \in MemAdr \cup {0} /\ bi_tag_reg \in Tag
  /\ idata_reg \in [Bank -> Word] /\ idata_valid_reg \subseteq Bank
  /\ odata_reg \in [Bank -> Word] /\ write_victim \in BOOLEAN
  /\ bi_req_bank \subseteq Bank /\ banksLeft \subseteq Bank
  /\ bi_count \in 0 .. CACHE_BANKS

\* The input lines of a cycle: an operation on a line comes with the address of
\* a cached word, a direct one with a direct address.
BusIfInput(in) ==
  /\ in.op \in BusIfOp /\ in.nolinelock \in BOOLEAN /\ in.bsel \subseteq Lane
  /\ in.adr \in MemAdr \cup {0}
  /\ in.op \in LineOp => in.adr \in LineAdr
  /\ in.op \in {"direct_read", "direct_write"} => in.adr \in DirectAdr
  /\ in.data \in [Bank -> Word] /\ in.bank_data \in [Bank -> Word]
  /\ in.tag \in Tag
  /\ bi_state \in {"dread", "fetch"} => in.dat \in Word

\* The word on the bus has a bank and, in a fetch, an address of the line.
LEMMA BusAddress ==
  ASSUME BusIfType, BusIfJob
  PROVE  /\ adr_reg \in Nat /\ adrOfs \in Bank
         /\ wb_bank \in Bank
         /\ bi_state = "fetch" => /\ wb_adr_o \in LineAdr
                                  /\ GetTagOfAdr(wb_adr_o) = GetTagOfAdr(adr_reg)
                                  /\ GetIndexOfAdr(wb_adr_o) = GetIndexOfAdr(adr_reg)
                                  /\ GetBankOfAdr(wb_adr_o) = wb_bank
         /\ bi_state \in {"dread", "dwrite"} => wb_adr_o = adr_reg
<1>1. adr_reg \in Nat
  BY MemAdrParts DEF BusIfType
<1>2. adrOfs \in Bank
  BY <1>1, AdrParts DEF adrOfs
<1>3. wb_bank \in Bank
  <2>1. CACHE_BANKS \in Nat \ {0} /\ bi_count \in 0 .. CACHE_BANKS /\ adrOfs \in Nat
    BY <1>2, ConfigAssumption DEF BusIfType, Bank
  <2>2. \A n \in Nat : n % CACHE_BANKS \in Bank
    BY <2>1 DEF Bank
  <2>3. bi_state = "writeback" => CACHE_BANKS - bi_count \in Bank
    BY <2>1 DEF BusIfJob, Bank
  <2> QED BY <1>2, <2>1, <2>2, <2>3 DEF wb_bank
<1>4. bi_state = "fetch" => adr_reg \in LineAdr
  BY DEF BusIfJob, LineState, BusIfState
<1>5. bi_state = "fetch" =>
        wb_adr_o = ComposeAdress(GetTagOfAdr(adr_reg), GetIndexOfAdr(adr_reg), wb_bank)
  BY DEF wb_adr_o
<1>6. bi_state \in {"dread", "dwrite"} => wb_adr_o = adr_reg
  BY DEF wb_adr_o
<1> QED BY <1>1, <1>2, <1>3, <1>4, <1>5, <1>6, LineParts

\* One edge of the bus interface.
LEMMA BusIfStep ==
  ASSUME BusIfType, BusIfJob, NEW in, BusIfInput(in), BusIfEdge(in)
  PROVE  BusIfType' /\ BusIfJob'
<1> USE DEF BusIfType, BusIfJob, Goto, opVars, idataVars, bankVars
<1>a. /\ adr_reg \in Nat /\ GetBankOfAdr(adr_reg) \in Bank /\ wb_bank \in Bank
      /\ bi_state = "fetch" => wb_adr_o \in LineAdr
  BY BusAddress DEF adrOfs
<1>b. LineAdr \subseteq MemAdr /\ DirectAdr \subseteq MemAdr
  BY MemAdrParts
<1>c. CACHE_BANKS \in Nat \ {0}
  BY ConfigAssumption
<1>1. CASE Idle(in)
  BY <1>a, <1>b, <1>c, <1>1
     DEF Idle, AcceptNewOp, BusIfInput, BusIfState, BusIfOp, LineOp, LineState
<1>2. CASE Start
  BY <1>a, <1>b, <1>c, <1>2
     DEF Start, BusIfInput, BusIfState, BusIfOp, LineOp, LineState
<1>3. CASE DirectRead(in)
  BY <1>a, <1>b, <1>c, <1>3
     DEF DirectRead, BusIfInput, BusIfState, BusIfOp, LineOp, LineState
<1>4. CASE DirectReadDone
  BY <1>a, <1>b, <1>c, <1>4
     DEF DirectReadDone, BusIfInput, BusIfState, BusIfOp, LineOp, LineState
<1>5. CASE DirectWrite(in)
  BY <1>a, <1>b, <1>c, <1>5
     DEF DirectWrite, BusIfInput, BusIfState, BusIfOp, LineOp, LineState
<1>6. CASE GotLineLock(in)
  BY <1>a, <1>b, <1>c, <1>6
     DEF GotLineLock, BusIfInput, BusIfState, BusIfOp, LineOp, LineState
<1>7. CASE GotTagR(in)
  BY <1>a, <1>b, <1>c, <1>7
     DEF GotTagR, BusIfInput, BusIfState, BusIfOp, LineOp, LineState
<1>8. CASE CaptureTag(in)
  BY <1>a, <1>b, <1>c, <1>8
     DEF CaptureTag, BusIfInput, BusIfState, BusIfOp, LineOp, LineState
<1>9. CASE Dispatch
  BY <1>a, <1>b, <1>c, <1>9
     DEF Dispatch, GotoAfterFetch, SaveOldLine, AfterSave, BusIfInput, BusIfState, BusIfOp, LineOp, LineState
<1>10. CASE Fetch(in)
  <2>1. /\ bi_state = "fetch" /\ bi_count \in 1 .. CACHE_BANKS /\ bi_op \in LineOp
        /\ wb_adr_o \in LineAdr /\ wb_adr_o \in MemAdr /\ in.dat \in Word
    <3>1. bi_state = "fetch"
      BY <1>10 DEF Fetch
    <3>2. bi_state \in LineState
      BY <3>1 DEF LineState, BusIfState
    <3>3. bi_count \in 1 .. CACHE_BANKS
      BY <1>c, <3>1
    <3> QED BY <1>a, <1>b, <3>1, <3>2, <3>3 DEF BusIfInput
  <2>2. /\ idata_reg' \in [Bank -> Word] /\ idata_valid_reg' \subseteq Bank
        /\ adr_reg' \in MemAdr \cup {0} /\ adr_reg' \in LineAdr
        /\ bi_count' \in 0 .. CACHE_BANKS
        /\ bi_count # 1 => bi_count' # 0
    BY <1>a, <1>c, <1>10, <2>1 DEF Fetch
  <2>3. /\ bi_req_bank' \subseteq Bank /\ banksLeft' \subseteq Bank
        /\ bi_count = 1 => bi_state' \in {"read_bank", "tagw_inv_req", "tagw_req"}
        /\ bi_count # 1 => bi_state' = "fetch"
    BY <1>10, <2>1 DEF Fetch, GotoAfterFetch, SaveOldLine, AfterSave
  <2>4. UNCHANGED <<bi_op, nolinelock_reg, bsel_reg, odata_reg, bi_tag_reg, write_victim>>
    BY <1>10 DEF Fetch
  <2> QED BY <2>1, <2>2, <2>3, <2>4 DEF LineState, BusIfState, LineOp
<1>11. CASE ReadBank(in)
  BY <1>a, <1>b, <1>c, <1>11
     DEF ReadBank, AfterSave, BusIfInput, BusIfState, BusIfOp, LineOp, LineState
<1>12. CASE GotTagWInv(in)
  BY <1>a, <1>b, <1>c, <1>12
     DEF GotTagWInv, BusIfInput, BusIfState, BusIfOp, LineOp, LineState
<1>13. CASE WriteInvalidTag
  BY <1>a, <1>b, <1>c, <1>13
     DEF WriteInvalidTag, BusIfInput, BusIfState, BusIfOp, LineOp, LineState
<1>14. CASE InvalidTagDone
  BY <1>a, <1>b, <1>c, <1>14
     DEF InvalidTagDone, BusIfInput, BusIfState, BusIfOp, LineOp, LineState
<1>15. CASE WriteBank(in)
  BY <1>a, <1>b, <1>c, <1>15
     DEF WriteBank, BusIfInput, BusIfState, BusIfOp, LineOp, LineState
<1>16. CASE GotTagW(in)
  BY <1>a, <1>b, <1>c, <1>16
     DEF GotTagW, BusIfInput, BusIfState, BusIfOp, LineOp, LineState
<1>17. CASE WriteNewTag
  BY <1>a, <1>b, <1>c, <1>17
     DEF WriteNewTag, BusIfInput, BusIfState, BusIfOp, LineOp, LineState
<1>18. CASE NewTagDone
  BY <1>a, <1>b, <1>c, <1>18
     DEF NewTagDone, Acknowledge, BusIfInput, BusIfState, BusIfOp, LineOp, LineState
<1>19. CASE StartWriteBack
  BY <1>a, <1>b, <1>c, <1>19
     DEF StartWriteBack, BusIfInput, BusIfState, BusIfOp, LineOp, LineState
<1>20. CASE WriteBack(in)
  BY <1>a, <1>b, <1>c, <1>20
     DEF WriteBack, Acknowledge, BusIfInput, BusIfState, BusIfOp, LineOp, LineState
<1>21. CASE Unlock(in)
  BY <1>a, <1>b, <1>c, <1>21
     DEF Unlock, AcceptNewOp, BusIfInput, BusIfState, BusIfOp, LineOp, LineState
<1>22. CASE Waiting(in)
  BY <1>a, <1>b, <1>c, <1>22
     DEF Waiting, busIfVars, BusIfInput, BusIfState, BusIfOp, LineOp, LineState
<1> QED BY BusIfEdge(in), <1>1, <1>2, <1>3, <1>4, <1>5, <1>6, <1>7, <1>8, <1>9, <1>10, <1>11, <1>12, <1>13, <1>14, <1>15, <1>16, <1>17, <1>18, <1>19, <1>20, <1>21, <1>22
         DEF BusIfEdge

LEMMA BusIfOfType == TypeOK => BusIfType
BY DEF TypeOK, BusIfType

\* Who may have the bus interface, and what it asks for then.
LEMMA ReadAddresses ==
  ASSUME TypeInv, NEW p \in RP
  PROVE  /\ rp_adr[p] \in MemAdr \cup {0} /\ rp_adr[p] \in Nat
         /\ p \in rp_rd => rp_adr[p] \in LineAdr \cup DirectAdr
<1>1. workload.readAdr \subseteq LineAdr \cup DirectAdr
  BY MemuAssumption, CachedInLine DEF TypeInv
<1>2. rp_adr[p] \in workload.readAdr \cup {0}
  BY DEF TypeInv, TypeOK
<1>3. p \in rp_rd => rp_adr[p] \in workload.readAdr
  BY DEF TypeInv, ReadsHeld
<1> QED BY <1>1, <1>2, <1>3, MemAdrParts

LEMMA WriteRequests ==
  ASSUME TypeInv, NEW w \in WP
  PROVE  /\ wp_in[w].op \in {"none", "write", "sc", "ll"} \cup SpecialOp
         /\ wp_in[w].op # "none" => wp_in[w].op \in workload.ops
         /\ wp_in[w].adr \in workload.writeAdr \cup {0} /\ wp_in[w].adr \in Nat
         /\ wp_in[w].adr \in MemAdr \cup {0}
         /\ wp_in[w].op # "none" => wp_in[w].adr \in LineAdr \cup DirectAdr
         /\ wp_in[w].op \notin {"none", "write"} => wp_in[w].adr \notin DirectAdr
         /\ wp_in[w].bsel \subseteq Lane /\ wp_in[w].data \in Word
<1>1. workload \in Workloads /\ wp_in[w] \in WriteRequest
  BY DEF TypeInv, TypeOK
<1>2. workload.writeAdr \subseteq LineAdr \cup DirectAdr
  BY <1>1, MemuAssumption, CachedInLine
<1> HIDE DEF WriteRequest
<1> QED BY <1>1, <1>2, RequestType, MemAdrParts

LEMMA ReadOperation ==
  ASSUME TypeInv, NEW p \in RP
  PROVE  /\ RpBusIfOp(p) \in {"nothing", "direct_read", "replace"}
         /\ RpBusIfOp(p) = "replace" =>
              rp_state[p] = "miss_replace" /\ rp_adr[p] \in LineAdr
         /\ RpBusIfOp(p) = "direct_read" => rp_adr[p] \in DirectAdr
<1>1. rp_state[p] = "miss_replace" => p \in rp_rd /\ ~RpDirect(p)
  BY DEF TypeInv, ReadsHeld, CachedRead
<1>2. rp_state[p] = "direct_wait_busif" => RpDirect(p)
  BY DEF TypeInv, ReadsHeld
<1> QED BY <1>1, <1>2, ReadAddresses DEF RpBusIfOp, NewRead, RpDirect

LEMMA WriteOperation ==
  ASSUME TypeInv, NEW w \in WP
  PROVE  /\ WpBusIfOp(w) \in {"nothing", "direct_write", "replace"} \cup SpecialOp
         /\ WpBusIfOp(w) = "replace" => wp_state[w] = "replace"
         /\ WpBusIfOp(w) \in SpecialOp => wp_state[w] = "special"
         /\ WpBusIfOp(w) \in LineOp => wp_in[w].adr \in LineAdr
         /\ WpBusIfOp(w) = "direct_write" => wp_in[w].adr \in DirectAdr
<1>1. wp_state[w] = "replace" => WpWrites(w) /\ ~WpDirect(w)
  BY DEF TypeInv, WritesHeld, CachedWrite, WritePortState, SpecialState
<1>2. wp_state[w] = "direct" => WpDirect(w)
  BY DEF TypeInv, WritesHeld
<1>3. wp_state[w] = "special" => wp_in[w].op \in SpecialOp
  BY DEF TypeInv, WritesHeld, SpecialState
<1>4. wp_state[w] = "special" => wp_in[w].adr \notin DirectAdr
  BY <1>3, WriteRequests DEF SpecialOp
<1> QED BY <1>1, <1>2, <1>3, <1>4, WriteRequests
        DEF WpBusIfOp, NewDirect, WpDirect, WpWrites, SpecialOp, LineOp

LEMMA RequesterType ==
  ASSUME TypeInv
  PROVE  LET r == Requester(gnt_busif)
         IN  /\ r.op \in BusIfOp /\ r.nolinelock \in BOOLEAN /\ r.bsel \subseteq Lane
             /\ r.adr \in MemAdr \cup {0}
             /\ r.op \in LineOp => r.adr \in LineAdr
             /\ r.op \in {"direct_read", "direct_write"} => r.adr \in DirectAdr
             /\ r.data \in [Bank -> Word]
<1> DEFINE r == Requester(gnt_busif)
           p == CHOOSE n \in gnt_busif : TRUE
           bank == [b \in Bank |-> bankram_rdata[b][RAMPORT_BUSIF]]
<1>1. bank \in [Bank -> Word]
  <2>1. RAMPORT_BUSIF \in RamPort
    BY ConfigAssumption DEF RAMPORT_BUSIF, RamPort
  <2> QED BY <2>1 DEF TypeInv, TypeOK
<1>2. gnt_busif \subseteq Port \ {IDX_BUSIF}
  BY GrantsType, RequestsType DEF TypeInv
<1> HIDE DEF bank
<1>3. CASE gnt_busif = {}
  <2>1. r = [op |-> "nothing", nolinelock |-> FALSE, bsel |-> {}, adr |-> 0, data |-> bank]
    BY <1>3 DEF Requester, bank
  <2> QED BY <1>1, <2>1 DEF BusIfOp, LineOp
<1>4. CASE gnt_busif # {}
  <2>1. p \in Port /\ p # IDX_BUSIF
    BY <1>2, <1>4
  <2> HIDE DEF p
  <2>2. CASE p \in RP
    <3>1. p < RPORTS
      BY <2>2, PortNumbers DEF RP
    <3>2. r = [op |-> RpBusIfOp(p), nolinelock |-> FALSE, bsel |-> Lane,
               adr |-> rp_adr[p], data |-> bank]
      BY <1>4, <3>1 DEF Requester, bank, p
    <3> QED BY <1>1, <2>2, <3>2, ReadOperation, ReadAddresses DEF BusIfOp, LineOp
  <2>3. CASE p \notin RP
    <3>1. PICK w \in WP : p = IDX_WP(w)
      BY <2>1, <2>3, PortNumbers
    <3>2. p - RPORTS = w /\ ~(p < RPORTS)
      BY <3>1, PortNumbers DEF IDX_WP, WP
    <3>3. r = [op |-> WpBusIfOp(w), nolinelock |-> TRUE, bsel |-> wp_in[w].bsel,
               adr |-> wp_in[w].adr, data |-> [b \in Bank |-> wp_in[w].data]]
      BY <1>4, <3>2 DEF Requester, p
    <3>4. [b \in Bank |-> wp_in[w].data] \in [Bank -> Word]
      BY WriteRequests
    <3> QED BY <3>3, <3>4, WriteOperation, WriteRequests DEF BusIfOp, LineOp, SpecialOp
  <2> QED BY <2>2, <2>3
<1> QED BY <1>3, <1>4

LEMMA BusIfTypes ==
  ASSUME TypeInv, Next
  PROVE  BusIfType' /\ BusIfJob'
<1> DEFINE in == BusIfInputs(gnt_bank, NextLocks, gnt_tagr, NextTagW, gnt_busif)
<1>1. BusIfType /\ BusIfJob /\ BusIfEdge(in)
  BY NextParts, BusIfOfType DEF TypeInv
<1>2. RAMPORT_BUSIF \in RamPort /\ CPU_CORES - 1 \in CPU
  BY ConfigAssumption DEF RAMPORT_BUSIF, RamPort, CPU
<1>3. in.bank_data \in [Bank -> Word] /\ in.tag \in Tag
  BY <1>2 DEF BusIfInputs, TypeInv, TypeOK
<1>4. bi_state \in {"dread", "fetch"} => in.dat \in Word
  <2>1. bi_state = "dread" => adr_reg \in DirectAdr
    BY <1>1 DEF BusIfJob
  <2>2. bi_state \in {"dread", "fetch"} => wb_adr_o \in MemAdr
    BY <1>1, <2>1, BusAddress, MemAdrParts
  <2>3. mem \in [MemAdr -> Word]
    BY DEF TypeInv, TypeOK
  <2>4. in.dat = IF wb_stb_o THEN mem[wb_adr_o] ELSE AnyWord
    BY DEF BusIfInputs
  <2> QED BY <2>2, <2>3, <2>4 DEF wb_stb_o
<1>5. /\ in.op = Requester(gnt_busif).op /\ in.nolinelock = Requester(gnt_busif).nolinelock
      /\ in.bsel = Requester(gnt_busif).bsel /\ in.adr = Requester(gnt_busif).adr
      /\ in.data = Requester(gnt_busif).data
  BY DEF BusIfInputs
<1> HIDE DEF in
<1>6. BusIfInput(in)
  BY <1>3, <1>4, <1>5, RequesterType DEF BusIfInput
<1> QED BY <1>1, <1>6, BusIfStep

-----------------------------------------------------------------------------
(* The tag RAM in the memory unit.                                         *)

\* A port of the tag RAM that nobody has been granted may see no address.
LEMMA TagAddresses ==
  ASSUME TypeInv, NEW tagr, NEW tagw, NEW n \in CPU
  PROVE  IndexOf(tagram_adr(tagr, tagw)[n]) \in Index
<1> DEFINE a == tagram_adr(tagr, tagw)[n]
<1>1. busif_adr_out \in Nat
  BY MemAdrParts DEF TypeInv, TypeOK, busif_adr_out
<1>2. /\ n \in WP /\ IDX_RP(n) \in RP /\ IDX_IP(n) \in RP
  BY ConfigAssumption DEF CPU, WP, RP, IDX_RP, IDX_IP, RPORTS, WPORTS
<1>3. wp_in[n].adr \in Nat /\ rp_adr[IDX_RP(n)] \in Nat /\ rp_adr[IDX_IP(n)] \in Nat
  BY <1>2, ReadAddresses, WriteRequests
<1>4. a \in {busif_adr_out, wp_in[n].adr, rp_adr[IDX_RP(n)], rp_adr[IDX_IP(n)], DontCare}
  BY DEF tagram_adr
<1> HIDE DEF a
<1>5. a \in Nat \/ a = DontCare
  BY <1>1, <1>3, <1>4
<1>6. a = DontCare => IndexOf(a) \in Index
  BY ConfigAssumption DEF IndexOf, Index
<1>7. a \in Nat => IndexOf(a) \in Index
  BY AdrParts DEF IndexOf, DontCare
<1> QED BY <1>5, <1>6, <1>7 DEF a

LEMMA TagInputs ==
  ASSUME TypeInv
  PROVE  /\ \A w \in WP : WpTagOut(w, tag_out[w]) \in Tag
         /\ bi_tag_out \in Tag
         /\ \A tagw : \A n \in CPU : tagram_tag_in(tagw)[n] \in Tag
<1>1. ASSUME NEW w \in WP PROVE WpTagOut(w, tag_out[w]) \in Tag
  <2>1. w \in CPU
    BY PortNumbers
  <2>2. tag_out[w] \in Tag /\ wp_tag_reg[w] \in Tag
    BY <2>1 DEF TypeInv, TypeOK
  <2>3. [wp_tag_reg[w] EXCEPT !.dirty = TRUE] \in Tag
    BY <2>2 DEF Tag
  <2> QED BY <2>2, <2>3 DEF WpTagOut
<1>2. bi_tag_reg \in Tag
  BY DEF TypeInv, TypeOK
<1>3. [bi_tag_reg EXCEPT !.valid = FALSE] \in Tag
  BY <1>2 DEF Tag
<1>4. bi_state \in {"tagw_req", "tagw1", "tagw2"} => new_tag \in Tag
  <2> SUFFICES ASSUME bi_state \in {"tagw_req", "tagw1", "tagw2"}
               PROVE  new_tag \in Tag
    OBVIOUS
  <2>1. adr_reg \in LineAdr
    BY DEF TypeInv, BusIfJob, LineState, BusIfState
  <2>2. GetTagOfAdr(adr_reg) \in TagAdr
    BY <2>1, LineParts
  <2> QED BY <1>2, <2>2 DEF new_tag, Tag
<1>5. bi_tag_out \in Tag
  BY <1>2, <1>3, <1>4 DEF bi_tag_out
<1>6. ASSUME NEW tagw, NEW n \in CPU PROVE tagram_tag_in(tagw)[n] \in Tag
  BY <1>1, <1>5, PortNumbers DEF tagram_tag_in
<1> QED BY <1>1, <1>5, <1>6

LEMMA TagRamTypes ==
  ASSUME TypeInv, Next
  PROVE  /\ tagram_ready' \in BOOLEAN /\ tag_busy' \in BOOLEAN
         /\ tag_ram' \in [Index -> Entry]
         /\ use_reg' \in [CPU -> UseReg]
         /\ tag_out' \in [CPU -> Tag]
<1> DEFINE rd  == tagram_rd
           wr  == tagram_wr(NextTagW)
           adr == tagram_adr(gnt_tagr, NextTagW)
           in  == tagram_tag_in(NextTagW)
<1>1. /\ tag_busy \in BOOLEAN /\ tag_ram \in [Index -> Entry]
      /\ use_reg \in [CPU -> UseReg] /\ tag_out \in [CPU -> Tag]
  BY DEF TypeInv, TypeOK, Entry, UseReg
<1>2. /\ \A n \in CPU : IndexOf(adr[n]) \in Index /\ in[n] \in Tag
      /\ wr \subseteq CPU
  BY TagAddresses, TagInputs DEF tagram_wr
<1>3. TagRamEdge(rd, wr, adr, in)
  BY NextParts
<1> HIDE DEF rd, wr, adr, in
<1>4. CASE TagRamPause
  BY <1>1, <1>3, <1>4 DEF TagRamPause, TagRamEdge
<1>5. CASE TagRamServe(rd, wr, adr, in)
  <2> DEFINE E(n) == tag_ram[IndexOf(adr[n])]
             use  == [n \in CPU |-> IF n \in rd
                                    THEN ReadUse(E(n), adr[n], use_reg[n])
                                    ELSE use_reg[n]]
             pending == {n \in CPU : use_reg[n].wr}
             first   == CHOOSE n \in pending : \A m \in pending : n <= m
             writer  == CHOOSE n \in wr : \A m \in wr : m <= n
  <2>1. \A n \in CPU : E(n) \in Entry
    BY <1>1, <1>2
  <2>2. use \in [CPU -> UseReg]
    BY <1>1, <1>2, <2>1, UseReadType
  <2>3. tag_out' = [n \in CPU |-> IF n \in rd THEN ReadTag(E(n), adr[n]) ELSE tag_out[n]]
    BY <1>5 DEF TagRamServe
  <2>4. tag_out' \in [CPU -> Tag]
    <3> HIDE DEF E
    <3>1. \A n \in CPU : ReadTag(E(n), adr[n]) \in Tag
      BY <2>1, TagReadType
    <3> QED BY <1>1, <2>3, <3>1
  <2>5. tagram_ready' = TRUE
    BY <1>3 DEF TagRamEdge
  <2>6. CASE wr # {}
    <3>1. /\ tag_ram' = [tag_ram EXCEPT ![IndexOf(adr[writer])] = WriteEntry(@, in[writer])]
          /\ use_reg' = use /\ tag_busy' = TRUE
      BY <1>5, <2>6 DEF TagRamServe
    <3>2. writer \in wr
      <4>1. wr \subseteq Port
        BY <1>2, ConfigAssumption DEF CPU, Port, RPORTS, WPORTS
      <4> QED BY <2>6, <4>1, LargestPort
    <3>3. WriteEntry(tag_ram[IndexOf(adr[writer])], in[writer]) \in Entry
      BY <1>1, <1>2, <3>2, WriteEntryType
    <3> HIDE DEF writer, use
    <3>4. tag_ram' \in [Index -> Entry]
      BY <1>1, <3>1, <3>3
    <3> QED BY <2>2, <2>4, <2>5, <3>1, <3>4
  <2>7. CASE wr = {} /\ pending # {}
    <3>1. /\ tag_ram' = [tag_ram EXCEPT ![use_reg[first].iadr].use = use_reg[first].use]
          /\ use_reg' = [use EXCEPT ![first] = NoUse] /\ tag_busy' = FALSE
      BY <1>5, <2>7 DEF TagRamServe
    <3>2. first \in pending
      <4>1. pending \subseteq Nat
        BY DEF CPU
      <4> HIDE DEF pending
      <4> QED BY <2>7, <4>1, LeastNatural
    <3>3. use_reg[first] \in UseReg
      BY <1>1, <3>2
    <3> HIDE DEF first, use
    <3>4. tag_ram' \in [Index -> Entry]
      BY <1>1, <3>1, <3>3 DEF UseReg, Entry
    <3>5. NoUse \in UseReg
      BY ConfigAssumption DEF NoUse, UseReg, Index
    <3> QED BY <2>2, <2>4, <2>5, <3>1, <3>4, <3>5
  <2>8. CASE wr = {} /\ pending = {}
    <3>1. tag_ram' = tag_ram /\ use_reg' = use /\ tag_busy' = FALSE
      BY <1>5, <2>8 DEF TagRamServe
    <3> QED BY <1>1, <2>2, <2>4, <2>5, <3>1
  <2> QED BY <2>6, <2>7, <2>8
<1> QED BY <1>3, <1>4, <1>5 DEF TagRamEdge

-----------------------------------------------------------------------------
(* The read ports in the memory unit.                                      *)

\* A request that is not acknowledged is held, with its address.
LEMMA ReadRequestsHeld ==
  ASSUME TypeInv, Next
  PROVE  /\ workload' = workload
         /\ rp_done' = rp_ack(gnt_bank)
         /\ rp_rd' \subseteq workload.readPorts
         /\ rp_adr' \in [RP -> workload.readAdr \cup {0}]
         /\ \A p \in RP : p \in rp_rd /\ p \notin rp_ack(gnt_bank) =>
              p \in rp_rd' /\ rp_adr'[p] = rp_adr[p]
         /\ \A p \in RP : p \in rp_rd' => rp_adr'[p] \in workload.readAdr
<1> DEFINE racks == rp_ack(gnt_bank)
<1>1. workload' = workload /\ rp_done' = racks
  BY NextParts DEF CpuEdge
<1>a. PICK new \in SUBSET (workload.readPorts \ (rp_rd \ racks)) :
         \E a \in [new -> workload.readAdr] :
           /\ rp_rd' = (rp_rd \ racks) \cup new
           /\ rp_adr' = [p \in RP |-> IF p \in new THEN a[p]
                                      ELSE IF p \in rp_rd \ racks THEN rp_adr[p]
                                      ELSE 0]
  BY NextParts DEF CpuEdge
<1>2. PICK a \in [new -> workload.readAdr] :
         /\ rp_rd' = (rp_rd \ racks) \cup new
         /\ rp_adr' = [p \in RP |-> IF p \in new THEN a[p]
                                    ELSE IF p \in rp_rd \ racks THEN rp_adr[p]
                                    ELSE 0]
  BY <1>a
<1>3. /\ rp_rd \subseteq workload.readPorts
      /\ rp_adr \in [RP -> workload.readAdr \cup {0}]
      /\ \A p \in RP : p \in rp_rd => rp_adr[p] \in workload.readAdr
  BY DEF TypeInv, TypeOK, ReadsHeld
<1> HIDE DEF racks
<1>4. rp_rd' \subseteq workload.readPorts
  BY <1>2, <1>3
<1>5. rp_adr' \in [RP -> workload.readAdr \cup {0}]
  BY <1>2, <1>3
<1>6. \A p \in RP : p \in rp_rd /\ p \notin racks => p \in rp_rd' /\ rp_adr'[p] = rp_adr[p]
  BY <1>2, <1>3
<1>7. \A p \in RP : p \in rp_rd' => rp_adr'[p] \in workload.readAdr
  BY <1>2, <1>3
<1> QED BY <1>1, <1>4, <1>5, <1>6, <1>7 DEF racks

\* Only a request is acknowledged, and the port is back in its initial state then.
LEMMA ReadAcknowledged ==
  ASSUME TypeInv, Next, NEW p \in RP
  PROVE  /\ rp_state'[p] \in ReadPortState
         /\ p \in rp_ack(gnt_bank) => p \in rp_rd /\ rp_state'[p] \in {"init", "read_bank"}
         /\ rp_state'[p] \notin {"init", "read_bank"} => p \in rp_rd
         /\ rp_state'[p] \in CachedRead => ~RpDirect(p)
         /\ rp_state'[p] = "direct_wait_busif" => RpDirect(p)
<1> DEFINE bank == p \in RpBanks(gnt_bank)
           tag  == rp_tag_in(p)
<1>1. rp_state'[p] = RpNextState(p, busif_hit, tag, p \in gnt_tagr, bank,
                                 p \in gnt_busif, busif_busy)
  BY NextParts DEF ReadPortEdge, rp_tag_in
<1>2. p \in rp_ack(gnt_bank) <=> RpAck(p, busif_hit, tag, bank)
  BY DEF rp_ack
<1>3. /\ rp_state[p] \in ReadPortState
      /\ rp_state[p] \notin {"init", "read_bank"} => p \in rp_rd
      /\ rp_state[p] \in CachedRead => ~RpDirect(p)
      /\ rp_state[p] = "direct_wait_busif" => RpDirect(p)
  BY DEF TypeInv, TypeOK, ReadsHeld
<1> HIDE DEF bank, tag
<1> USE DEF RpNextState, RpAck, RpReqBank, NewRead, NextInit, NextReadTag,
            NextMissWait, ReadPortState, CachedRead
<1>4. CASE rp_state[p] \in {"init", "read_bank"}
  BY <1>1, <1>2, <1>3, <1>4
<1>5. CASE rp_state[p] \in {"read_tag", "miss_read_tag"}
  BY <1>1, <1>2, <1>3, <1>5
<1>6. CASE rp_state[p] \in {"miss_wait_busif", "miss_request_tag"}
  BY <1>1, <1>2, <1>3, <1>6
<1>7. CASE rp_state[p] \in {"direct_wait_busif", "miss_replace"}
  BY <1>1, <1>2, <1>3, <1>7
<1> QED BY <1>3, <1>4, <1>5, <1>6, <1>7

LEMMA ReadPortTypes ==
  ASSUME TypeInv, Next
  PROVE  /\ rp_state' \in [RP -> ReadPortState] /\ rp_bank_sel' \in [RP -> Bank]
         /\ rp_done' \subseteq workload'.readPorts
         /\ rp_rd' \subseteq workload'.readPorts
         /\ rp_adr' \in [RP -> workload'.readAdr \cup {0}]
         /\ workload' \in Workloads
         /\ ReadsHeld'
<1>1. workload' \in Workloads
  BY ReadRequestsHeld DEF TypeInv
<1>2. rp_state' \in [RP -> ReadPortState]
  <2>1. rp_state' = [p \in RP |-> rp_state'[p]]
    BY NextParts DEF ReadPortEdge
  <2> QED BY <2>1, ReadAcknowledged
<1>3. rp_bank_sel' \in [RP -> Bank]
  <2>1. \A p \in RP : GetBankOfAdr(rp_adr[p]) \in Bank
    BY ReadAddresses, AdrParts
  <2>2. rp_bank_sel \in [RP -> Bank]
    BY DEF TypeInv, TypeOK
  <2> QED BY <2>1, <2>2, NextParts DEF ReadPortEdge
<1>4. rp_done' \subseteq workload.readPorts
  <2>1. rp_ack(gnt_bank) \subseteq rp_rd
    BY ReadAcknowledged DEF rp_ack
  <2> QED BY <2>1, ReadRequestsHeld DEF TypeInv, TypeOK
<1>5. ReadsHeld'
  <2> SUFFICES ASSUME NEW p \in RP
               PROVE  /\ rp_state'[p] \notin {"init", "read_bank"} => p \in rp_rd'
                      /\ rp_state'[p] \in CachedRead => ~RpDirect(p)'
                      /\ rp_state'[p] = "direct_wait_busif" => RpDirect(p)'
                      /\ p \in rp_rd' => rp_adr'[p] \in workload'.readAdr
    BY DEF ReadsHeld
  <2>1. rp_state'[p] \notin {"init", "read_bank"} =>
          p \in rp_rd' /\ rp_adr'[p] = rp_adr[p]
    BY ReadAcknowledged, ReadRequestsHeld
  <2>2. p \in rp_rd' => rp_adr'[p] \in workload'.readAdr
    BY ReadRequestsHeld
  <2> QED BY <2>1, <2>2, ReadAcknowledged DEF RpDirect, CachedRead
<1> QED BY <1>1, <1>2, <1>3, <1>4, <1>5, ReadRequestsHeld

-----------------------------------------------------------------------------
(* The write ports in the memory unit.                                     *)

\* A request that is not acknowledged is held; a load linked takes one clock.
LEMMA WriteRequestsHeld ==
  ASSUME TypeInv, Next, NEW w \in WP
  PROVE  /\ wp_in'[w] \in WriteRequest'
         /\ w \notin wp_ack(gnt_bank) /\ wp_in[w].op \notin {"none", "ll"} =>
              wp_in'[w] = wp_in[w]
<1> DEFINE wacks == wp_ack(gnt_bank)
           free  == {v \in workload.writePorts : wp_in[v].op \in {"none", "ll"}}
                      \cup wacks
<1>1. WriteRequest' = WriteRequest
  BY ReadRequestsHeld DEF WriteRequest, NoWrite
<1>2. PICK new \in [free -> WriteRequest] :
         wp_in' = [v \in WP |-> IF v \in free THEN new[v] ELSE wp_in[v]]
  BY NextParts DEF CpuEdge
<1>3. wp_in[w] \in WriteRequest
  BY DEF TypeInv, TypeOK
<1>4. w \in free => w \in wacks \/ wp_in[w].op \in {"none", "ll"}
  OBVIOUS
<1> HIDE DEF free, wacks, WriteRequest
<1> QED BY <1>1, <1>2, <1>3, <1>4 DEF wacks

\* The grants of write port w.
WpGrant(w) == WpGrants(gnt_bank, NextLocks, gnt_tagr, NextTagW, gnt_busif)[w]

\* The port is back in its initial state when its request is acknowledged, and
\* works on requests of the kind the state is for.
LEMMA WriteAcknowledged ==
  ASSUME TypeInv, Next, NEW w \in WP
  PROVE  /\ wp_state'[w] = WpNextState(w, tag_out[w], WpGrant(w))
         /\ wp_state'[w] \in WritePortState
         /\ w \in wp_ack(gnt_bank) => wp_state'[w] = "init"
         /\ wp_state'[w] \in CachedWrite => WpWrites(w) /\ ~WpDirect(w)
         /\ wp_state'[w] = "direct" => WpWrites(w) /\ WpDirect(w)
         /\ wp_state'[w] \in SpecialState => wp_in[w].op \in SpecialOp
<1> DEFINE g == WpGrant(w)
           tag == tag_out[w]
<1>1. wp_state'[w] = WpNextState(w, tag, g)
  BY NextParts DEF WritePortEdge, WpGrant
<1>2. w \in wp_ack(gnt_bank) <=> WpAck(w, g.bank, g.busy)
  BY DEF wp_ack, WpGrant, WpGrants
<1>3. /\ wp_state[w] \in WritePortState
      /\ wp_state[w] \in CachedWrite => WpWrites(w) /\ ~WpDirect(w)
      /\ wp_state[w] = "direct" => WpWrites(w) /\ WpDirect(w)
      /\ wp_state[w] \in SpecialState => wp_in[w].op \in SpecialOp
  BY DEF TypeInv, TypeOK, WritesHeld
<1> HIDE DEF g, tag
<1> USE DEF WpAck, LastAccess, WritePortState, CachedWrite, SpecialState
<1>4. CASE wp_state[w] = "init"
  <2>1. wp_state'[w] = NextFromInit(w, g)
    BY <1>1, <1>4 DEF WpNextState
  <2>2. w \in wp_ack(gnt_bank) <=> FailedSC(w)
    BY <1>2, <1>4
  <2> QED BY <1>1, <1>4, <2>1, <2>2
       DEF NextFromInit, NextDirect, NewDirect, NewCached, NewSpecial, FailedSC,
           Initial, WpWrites, SpecialOp, g, tag
<1>5. CASE wp_state[w] \in {"direct", "special_request_busif_only", "special",
                            "special_wait_complete"}
  BY <1>1, <1>2, <1>3, <1>5 DEF WpNextState, FailedSC, Initial, g, tag
<1>6. CASE wp_state[w] \in {"request_linelock_only", "read_tag",
                            "have_tag_request_bank", "read_bank"}
  BY <1>1, <1>2, <1>3, <1>6
     DEF WpNextState, NextAfterTag, NextWrite, FailedSC, Initial, g, tag
<1>7. CASE wp_state[w] \in {"write_tag1_and_bank", "write_tag2_and_bank",
                            "write_tag1", "write_tag2", "write_bank"}
  BY <1>1, <1>2, <1>3, <1>7 DEF WpNextState, FailedSC, Initial, g, tag
<1>8. CASE wp_state[w] \in {"miss", "request_busif_only", "recheck",
                            "recheck_read_tag", "replace", "replace_wait_busif"}
  BY <1>1, <1>2, <1>3, <1>8
     DEF WpNextState, NextMiss, NextAfterTag, NextWrite, FailedSC, Initial, g, tag
<1> QED BY <1>3, <1>4, <1>5, <1>6, <1>7, <1>8

LEMMA WritePortTypes ==
  ASSUME TypeInv, Next
  PROVE  /\ wp_state' \in [WP -> WritePortState] /\ wp_tag_reg' \in [WP -> Tag]
         /\ data_reg' \in [WP -> Word] /\ link_valid_reg' \in [WP -> BOOLEAN]
         /\ link_adr_reg' \in [WP -> workload'.writeAdr \cup {0}]
         /\ \A w \in WP : wp_in'[w] \in WriteRequest'
         /\ WritesHeld'
<1>0. /\ wp_tag_reg \in [WP -> Tag] /\ tag_out \in [CPU -> Tag]
      /\ data_reg \in [WP -> Word] /\ bankram_rdata \in [Bank -> [RamPort -> Word]]
      /\ link_valid_reg \in [WP -> BOOLEAN]
      /\ link_adr_reg \in [WP -> workload.writeAdr \cup {0}]
      /\ workload' = workload
  BY ReadRequestsHeld DEF TypeInv, TypeOK
<1>1. wp_state' \in [WP -> WritePortState]
  <2>1. wp_state' = [w \in WP |-> wp_state'[w]]
    BY NextParts DEF WritePortEdge
  <2> QED BY <2>1, WriteAcknowledged
<1>2. wp_tag_reg' \in [WP -> Tag]
  BY <1>0, NextParts, PortNumbers DEF WritePortEdge
<1>3. data_reg' \in [WP -> Word]
  <2>1. ASSUME NEW w \in WP PROVE wp_bank_data_in[w] \in Word
    <3>1. GetBankOfAdr(wp_in[w].adr) \in Bank
      BY WriteRequests, AdrParts
    <3>2. RAMPORT(w) \in RamPort
      <4>1. w \in Port
        BY ConfigAssumption DEF WP, Port, RPORTS, WPORTS
      <4> QED BY <4>1, RamPortType
    <3> QED BY <1>0, <3>1, <3>2 DEF wp_bank_data_in
  <2> QED BY <1>0, <2>1, NextParts DEF WritePortEdge
<1>4. link_valid_reg' \in [WP -> BOOLEAN]
  BY <1>0, NextParts DEF WritePortEdge, NextLink
<1>5. link_adr_reg' \in [WP -> workload.writeAdr \cup {0}]
  BY <1>0, NextParts, WriteRequests DEF WritePortEdge, NextLink
<1>6. WritesHeld'
  <2> SUFFICES ASSUME NEW w \in WP
               PROVE  /\ wp_state'[w] \in CachedWrite => WpWrites(w)' /\ ~WpDirect(w)'
                      /\ wp_state'[w] = "direct" => WpWrites(w)' /\ WpDirect(w)'
                      /\ wp_state'[w] \in SpecialState => wp_in'[w].op \in SpecialOp
    BY DEF WritesHeld
  <2>1. wp_state'[w] # "init" => wp_in'[w] = wp_in[w]
    <3>1. wp_state'[w] # "init" => wp_in[w].op \notin {"none", "ll"}
      BY WriteAcknowledged DEF CachedWrite, WpWrites, SpecialOp
    <3> QED BY <3>1, WriteAcknowledged, WriteRequestsHeld
  <2>2. wp_state'[w] = "init" => wp_state'[w] \notin CachedWrite \cup SpecialState
    BY DEF CachedWrite, SpecialState
  <2> QED BY <2>1, <2>2, WriteAcknowledged DEF WpWrites, WpDirect
<1> QED BY <1>0, <1>1, <1>2, <1>3, <1>4, <1>5, <1>6, WriteRequestsHeld

-----------------------------------------------------------------------------
(* The bank RAMs in the memory unit.                                       *)

\* The address lines of a port select an entry of the bank RAMs.
LEMMA WayIndexType ==
  ASSUME TypeInv, NEW n \in Port
  PROVE  wiadr[n] \in WayIndex
<1>1. ASSUME NEW i \in Index, NEW w \in Way PROVE i + w * CACHE_SETS \in WayIndex
  <2>1. CACHE_SETS \in Nat \ {0}
    BY ConfigAssumption
  <2>2. CASE CACHE_WAYS = 1
    BY <2>1, <2>2 DEF Index, Way, WayIndex
  <2>3. CASE CACHE_WAYS = 2
    BY <2>1, <2>3 DEF Index, Way, WayIndex
  <2>4. CASE CACHE_WAYS = 4
    BY <2>1, <2>4 DEF Index, Way, WayIndex
  <2> QED BY <2>2, <2>3, <2>4, WaysAssumption
<1>2. ASSUME NEW a \in Nat, NEW t \in Tag PROVE GetWayIndexOfAdr(a, t.way) \in WayIndex
  BY <1>1, AdrParts DEF GetWayIndexOfAdr, Tag
<1>3. CASE n \in RP
  <2>1. n < RPORTS
    BY <1>3, PortNumbers DEF RP
  <2>2. n % CPU_CORES \in CPU
    BY <1>3, PortNumbers DEF RP, CPU
  <2>3. rp_tag_in(n) \in Tag /\ rp_adr[n] \in Nat
    BY <1>3, <2>2, ReadAddresses DEF rp_tag_in, TypeInv, TypeOK
  <2> QED BY <1>2, <2>1, <2>3 DEF wiadr
<1>4. CASE n = IDX_BUSIF
  <2>1. ~(n < RPORTS) /\ ~(n < IDX_BUSIF)
    BY <1>4, PortNumbers DEF IDX_BUSIF
  <2>2. bi_tag_out \in Tag /\ busif_adr_out \in Nat
    BY TagInputs, MemAdrParts DEF TypeInv, TypeOK, busif_adr_out
  <2> QED BY <1>2, <2>1, <2>2 DEF wiadr
<1>5. CASE n \notin RP /\ n # IDX_BUSIF
  <2>1. PICK w \in WP : n = IDX_WP(w)
    BY <1>5, PortNumbers
  <2>2. ~(n < RPORTS) /\ n < IDX_BUSIF /\ n - RPORTS = w
    BY <2>1, PortNumbers DEF IDX_WP, WP, IDX_BUSIF
  <2>3. WpTagOut(w, tag_out[w]) \in Tag /\ wp_in[w].adr \in Nat
    BY TagInputs, WriteRequests
  <2> QED BY <1>2, <2>2, <2>3 DEF wiadr
<1> QED BY <1>3, <1>4, <1>5

LEMMA CombineType ==
  ASSUME NEW bsel, NEW v \in Word, NEW u \in Word
  PROVE  CombineData(bsel, v, u) \in Word
BY DEF CombineData, Word

\* A port of a bank RAM that is written is driven with a word.
LEMMA BankWDataType ==
  ASSUME TypeInv, NEW b \in Bank, NEW p \in bankram_wr(gnt_bank)[b]
  PROVE  BankWData(b, p, gnt_bank) \in Word
<1> DEFINE ws == BankWriters(b, gnt_bank)
           w  == CHOOSE v \in ws : RAMPORT(v) = p
<1>1. CASE p = RAMPORT_BUSIF /\ IDX_BUSIF \in gnt_bank[b]
  BY <1>1 DEF BankWData, TypeInv, TypeOK
<1>2. CASE ~(p = RAMPORT_BUSIF /\ IDX_BUSIF \in gnt_bank[b])
  <2>1. \E v \in ws : RAMPORT(v) = p
    BY <1>2 DEF bankram_wr
  <2>2. w \in WP
    BY <2>1 DEF BankWriters
  <2>3. data_reg[w] \in Word /\ wp_in[w].data \in Word
    BY <2>2, WriteRequests DEF TypeInv, TypeOK
  <2>4. BankWData(b, p, gnt_bank) = WpBankData(w)
    BY <1>2 DEF BankWData
  <2> HIDE DEF w
  <2> QED BY <2>3, <2>4, CombineType DEF WpBankData
<1> QED BY <1>1, <1>2

LEMMA BankRamTypes ==
  ASSUME TypeInv, Next
  PROVE  /\ bank_ram' \in [Bank -> [WayIndex -> Word]]
         /\ bankram_rdata' \in [Bank -> [RamPort -> Word]]
<1> DEFINE gb  == gnt_bank
           adr == bankram_wiadr
           wr  == bankram_wr(gb)
           rd  == bankram_rd(gb)
           ports(b, wi) == {p \in wr[b] : adr[b][p] = wi}
           new(b, wi) == IF ports(b, wi) = {} THEN bank_ram[b][wi]
                         ELSE BankWData(b, CHOOSE p \in ports(b, wi) :
                                             \A q \in ports(b, wi) : q <= p, gb)
           ram == [b \in Bank |-> [wi \in WayIndex |-> new(b, wi)]]
<1>1. /\ bank_ram' = ram
      /\ bankram_rdata' = [b \in Bank |-> [p \in RamPort |->
           IF p \in rd[b] THEN ram[b][adr[b][p]] ELSE bankram_rdata[b][p]]]
  BY NextParts DEF BankEdge
<1>2. /\ bank_ram \in [Bank -> [WayIndex -> Word]]
      /\ bankram_rdata \in [Bank -> [RamPort -> Word]]
  BY DEF TypeInv, TypeOK
<1>3. GetPrioCpu \in CPU /\ \A b \in Bank : req_bank[b] \subseteq Port
  BY PrioType, RequestsType DEF TypeInv
<1>4. ASSUME NEW b \in Bank PROVE wr[b] \subseteq RamPort
  <2>1. \A w \in WP : RAMPORT(w) \in RamPort
    <3>1. WP \subseteq Port
      BY ConfigAssumption DEF WP, Port, RPORTS, WPORTS
    <3> QED BY <3>1, RamPortType
  <2>2. RAMPORT_BUSIF \in RamPort
    BY ConfigAssumption DEF RAMPORT_BUSIF, RamPort
  <2> QED BY <2>1, <2>2 DEF bankram_wr, BankWriters
<1>5. ASSUME NEW b \in Bank, NEW wi \in WayIndex PROVE new(b, wi) \in Word
  <2> DEFINE P == ports(b, wi)
             q == CHOOSE p \in P : \A r \in P : r <= p
  <2>1. CASE P # {}
    <3>1. P \subseteq 0 .. BR_PORTS - 1 /\ BR_PORTS - 1 \in Nat
      BY <1>4, ConfigAssumption DEF RamPort
    <3>2. q \in P
      <4> HIDE DEF P
      <4> QED BY <2>1, <3>1, LargestNatural
    <3>3. q \in wr[b]
      BY <3>2
    <3>4. BankWData(b, q, gb) \in Word
      BY <3>3, BankWDataType
    <3> QED BY <2>1, <3>4
  <2>2. CASE P = {}
    BY <1>2, <2>2
  <2> QED BY <2>1, <2>2
<1> HIDE DEF new
<1>6. ram \in [Bank -> [WayIndex -> Word]]
  BY <1>5
<1>7. ASSUME NEW b \in Bank, NEW p \in rd[b] PROVE adr[b][p] \in WayIndex
  <2>1. PICK n \in gb[b] : p = RAMPORT(n)
    BY DEF bankram_rd
  <2>2. n \in BankGrant(bank_reg[b], req_bank[b], wiadr, GetPrioCpu)
    BY <2>1 DEF gnt_bank
  <2>3. n \in Port
    BY <2>1, GrantsType, RequestsType DEF TypeInv
  <2>4. p \in RamPort
    BY <2>1, <2>3, RamPortType
  <2>5. adr[b][p] = BankAddress(p, bank_reg[b], req_bank[b], wiadr, GetPrioCpu)
    BY <2>4 DEF bankram_wiadr
  <2>6. PICK s \in req_bank[b] : adr[b][p] = wiadr[s]
    <3> HIDE DEF adr
    <3> QED BY <1>3, <2>1, <2>2, <2>5, BankAddressGranted
  <2> QED BY <1>3, <2>6, WayIndexType
<1> HIDE DEF ram, adr, rd
<1>8. bankram_rdata' \in [Bank -> [RamPort -> Word]]
  BY <1>1, <1>2, <1>6, <1>7
<1> QED BY <1>1, <1>6, <1>8

-----------------------------------------------------------------------------
(* All types.                                                              *)

LEMMA MemoryTypes ==
  ASSUME TypeInv, Next
  PROVE  /\ mem' \in [MemAdr -> Word] /\ wb_ack_i' \in BOOLEAN
         /\ rp_busif_data_reg' \in Word
<1>1. mem \in [MemAdr -> Word] /\ idata_reg \in [Bank -> Word] /\ odata_reg \in [Bank -> Word]
  BY DEF TypeInv, TypeOK
<1>2. wb_bank \in Bank /\ adrOfs \in Bank
  BY BusAddress, BusIfOfType DEF TypeInv
<1>3. rp_busif_data_reg' \in Word
  BY <1>1, <1>2, NextParts DEF busif_adr_out, adrOfs
<1>4. wb_ack_i' \in BOOLEAN
  BY NextParts DEF MemoryEdge
<1>5. mem' \in [MemAdr -> Word]
  <2>1. wb_dat_o \in Word
    BY <1>1, <1>2 DEF wb_dat_o
  <2>2. \A a \in MemAdr : CombineData(wb_sel_o, mem[a], wb_dat_o) \in Word
    BY <1>1, <2>1, CombineType
  <2> QED BY <1>1, <2>2, NextParts DEF MemoryEdge
<1> QED BY <1>3, <1>4, <1>5

LEMMA TypeInvNext ==
  ASSUME TypeInv, Next
  PROVE  TypeInv'
<1>1. BusIfType' /\ BusIfJob'
  BY BusIfTypes
<1>2. TypeOK'
  BY <1>1, ArbiterTypes, TagRamTypes, ReadPortTypes, WritePortTypes, BankRamTypes,
     MemoryTypes
     DEF TypeOK, BusIfType, Entry, UseReg
<1> QED BY <1>1, <1>2, ReadPortTypes, WritePortTypes DEF TypeInv

LEMMA TypeInvInit ==
  ASSUME Init
  PROVE  TypeInv
<1>1. /\ CPU_CORES * PRIO_CLOCKS \in Nat \ {0}
      /\ 0 \in Bank /\ 0 \in Index /\ 0 \in Way /\ 0 \in TagAdr /\ 0 \in 0 .. CACHE_BANKS
  BY ConfigAssumption, MemuAssumption DEF Bank, Index, Way, TagAdr
<1>2. NoTag \in Tag /\ NoUse \in UseReg /\ ResetUse \in 0 .. 63
  BY <1>1 DEF NoTag, Tag, NoUse, UseReg, ResetUse
<1>3. NoWrite \in WriteRequest
  BY DEF WriteRequest
<1>4. /\ tagram_ready \in BOOLEAN /\ tag_busy \in BOOLEAN
      /\ tag_ram \in [Index -> Entry] /\ use_reg \in [CPU -> UseReg]
      /\ tag_out \in [CPU -> Tag]
  BY <1>1, <1>2 DEF Init, TagRamInit, Entry
<1>5. BusIfType /\ BusIfJob
  BY <1>1, <1>2, WordType
     DEF Init, BusIfInit, BusIfType, BusIfJob, BusIfState, BusIfOp, LineState, LineOp
<1>6. /\ rp_state \in [RP -> ReadPortState] /\ rp_bank_sel \in [RP -> Bank]
      /\ rp_rd \subseteq workload.readPorts
      /\ rp_adr \in [RP -> workload.readAdr \cup {0}]
      /\ rp_done \subseteq workload.readPorts /\ workload \in Workloads
      /\ ReadsHeld
  BY <1>1 DEF Init, ReadPortInit, ReadPortState, ReadsHeld, CachedRead
<1>7. /\ wp_state \in [WP -> WritePortState] /\ wp_tag_reg \in [WP -> Tag]
      /\ data_reg \in [WP -> Word] /\ link_valid_reg \in [WP -> BOOLEAN]
      /\ link_adr_reg \in [WP -> workload.writeAdr \cup {0}]
      /\ \A w \in WP : wp_in[w] \in WriteRequest
      /\ WritesHeld
  BY <1>2, <1>3, WordType
     DEF Init, WritePortInit, WritePortState, WritesHeld, CachedWrite, SpecialState
<1>8. /\ counter_reg \in 0 .. CPU_CORES * PRIO_CLOCKS - 1
      /\ linelock_reg \subseteq Locker /\ tagw_reg \subseteq Locker
      /\ tagr_reg \subseteq Port /\ busif_reg \subseteq Port
      /\ bank_reg \in [Bank -> SUBSET Port]
  BY <1>1 DEF Init
<1>9. /\ bank_ram \in [Bank -> [WayIndex -> Word]]
      /\ bankram_rdata \in [Bank -> [RamPort -> Word]]
      /\ rp_busif_data_reg \in Word
      /\ mem \in [MemAdr -> Word] /\ wb_ack_i \in BOOLEAN
  BY WordType DEF Init
<1>10. TypeOK
  BY <1>4, <1>5, <1>6, <1>7, <1>8, <1>9 DEF TypeOK, BusIfType, Entry, UseReg
<1> QED BY <1>5, <1>6, <1>7, <1>10 DEF TypeInv

LEMMA TypeInvStutter ==
  ASSUME TypeInv, UNCHANGED vars
  PROVE  TypeInv'
<1>1. /\ UNCHANGED <<tagram_ready, tag_ram, use_reg, tag_out, tag_busy>>
      /\ UNCHANGED <<bi_state, bi_op, nolinelock_reg, bsel_reg, adr_reg, idata_reg,
                     idata_valid_reg, odata_reg, bi_tag_reg, bi_req_bank, banksLeft,
                     bi_count, write_victim>>
      /\ UNCHANGED <<rp_state, rp_bank_sel, wp_state, wp_tag_reg, data_reg,
                     link_adr_reg, link_valid_reg>>
      /\ UNCHANGED <<counter_reg, linelock_reg, tagr_reg, tagw_reg, bank_reg, busif_reg>>
      /\ UNCHANGED <<bank_ram, bankram_rdata, rp_busif_data_reg, mem, wb_ack_i,
                     rp_rd, rp_adr, rp_done, wp_in, workload>>
  BY DEF vars, tagRamVars, busIfVars, opVars, idataVars, bankVars, readPortVars,
         writePortVars, arbiterVars, cpuVars
<1>2. TypeOK'
  BY <1>1 DEF TypeInv, TypeOK, WriteRequest, NoWrite
<1>3. BusIfJob' /\ ReadsHeld' /\ WritesHeld' /\ workload' \in Workloads
  BY <1>1 DEF TypeInv, BusIfJob, ReadsHeld, WritesHeld, RpDirect, WpDirect, WpWrites
<1> QED BY <1>2, <1>3 DEF TypeInv

LEMMA TypeInvariant == Spec => []TypeInv
<1>1. Init => TypeInv
  BY TypeInvInit
<1>2. TypeInv /\ [Next]_vars => TypeInv'
  BY TypeInvNext, TypeInvStutter
<1> QED BY <1>1, <1>2, PTL DEF Spec

\* Registers, RAMs and lines of the memory unit keep the widths of their
\* declarations (memu.h), with whatever sizes it is configured.
THEOREM TypeCorrect == Spec => []TypeOK
<1>1. TypeInv => TypeOK
  BY DEF TypeInv
<1> QED BY <1>1, TypeInvariant, PTL

-----------------------------------------------------------------------------
(* The tag RAM has one writer, or readers.                                 *)

WritesTag(w)   == wp_state[w] \in {"write_tag2", "write_tag2_and_bank"}
BusIfTagWrite1 == {"tagw_inv1", "tagw1"}
BusIfTagWrite2 == {"tagw_inv2", "tagw2"}

\* A writer keeps the tag RAM for both clocks of a write, and the RAM serves
\* nobody in the second one.
TagRamInv ==
  /\ \A m, n \in tagw_reg : m = n
  /\ tagw_reg # {} => tagr_reg = {} /\ tagram_ready
  /\ \A w \in WP : WritesTag(w) => w \in tagw_reg
  /\ bi_state \in BusIfTagWrite1 \cup BusIfTagWrite2 => LOCK_BUSIF \in tagw_reg
  /\ tag_busy <=> (\E w \in WP : WritesTag(w)) \/ bi_state \in BusIfTagWrite2

-----------------------------------------------------------------------------
(* The line locks.                                                         *)

\* No CPU asks for a writeback, an invalidation or a flush.
NoCacheControl == \A w \in Workloads : w.ops \cap SpecialOp = {}

WpReplaces(w) == wp_state[w] \in {"replace", "replace_wait_busif"}

\* One write port has a lock, and another line than the bus interface; a miss of
\* a write port is served under the lock of the port, any other one under a lock
\* of the bus interface.
LockInv ==
  /\ \A w \in WP : wp_in[w].op \notin SpecialOp
  /\ bi_op \notin SpecialOp
  /\ \A v, w \in linelock_reg \ {LOCK_BUSIF} : v = w
  /\ LOCK_BUSIF \in linelock_reg /\ bi_req_linelock =>
       \A w \in WP \cap linelock_reg :
         WpReqLineLock(w, FALSE) => lock_idx[w] # lock_idx[LOCK_BUSIF]
  /\ \A w \in WP : wp_state[w] \in WpUsesLine => w \in linelock_reg
  /\ \A w \in WP : WpReplaces(w) \/ wp_state[w] \in {"recheck", "recheck_read_tag"}
                     => IDX_WP(w) \in busif_reg
  /\ bi_state \in BusIfUsesLine \cup {"tagr"} /\ ~nolinelock_reg =>
       LOCK_BUSIF \in linelock_reg
  /\ bi_op \in LineOp /\ nolinelock_reg =>
       \E w \in WP : WpReplaces(w)

-----------------------------------------------------------------------------
(* Use of the tag RAM.                                                     *)

\* Between two edges the tag RAM is granted to one writer, or to readers.
LEMMA TagGrants ==
  ASSUME TypeInv, TagRamInv
  PROVE  /\ \A m, n \in NextTagW : m = n
         /\ NextTagW # {} => gnt_tagr = {}
         /\ tagw_reg \cap req_tagw \subseteq NextTagW
         /\ tag_busy => gnt_tagr = {}
<1>p. GetPrioCpu \in CPU /\ req_tagw \subseteq Locker
  BY PrioType, RequestsType DEF TypeInv
<1>t. tagram_ready \in BOOLEAN
  BY DEF TypeInv, TypeOK
<1>1. CASE tagram_ready = FALSE
  <2>1. NextTagW = {} /\ gnt_tagr = {}
    BY <1>1 DEF NextTagW, gnt_tagw, gnt_tagr, TagWriters, TagReaders
  <2>2. tagw_reg = {}
    BY <1>1 DEF TagRamInv
  <2> QED BY <2>1, <2>2
<1>2. CASE tagram_ready = TRUE
  <2> DEFINE regw == tagw_reg
             reqw == req_tagw
             readers == gnt_tagr
  <2>1. NextTagW = TagWriters(TRUE, readers, regw, reqw, GetPrioCpu)
    BY <1>2 DEF NextTagW, gnt_tagw
  <2>2. readers = TagReaders(TRUE, tagr_reg, req_tagr, reqw)
    BY <1>2 DEF gnt_tagr
  <2>3. (\A m, n \in regw : m = n) /\ (regw # {} => tagr_reg = {})
    BY DEF TagRamInv
  <2>4. tag_busy => regw \cap reqw # {}
    <3>1. \A w \in WP : WritesTag(w) => w \in regw \cap reqw
      BY DEF TagRamInv, WritesTag, req_tagw, WpReqTagW
    <3>2. bi_state \in BusIfTagWrite2 => LOCK_BUSIF \in regw \cap reqw
      BY DEF TagRamInv, BusIfTagWrite2, req_tagw, bi_req_tagw
    <3>3. tag_busy => (\E w \in WP : WritesTag(w)) \/ bi_state \in BusIfTagWrite2
      BY DEF TagRamInv
    <3> HIDE DEF regw, reqw
    <3> QED BY <3>1, <3>2, <3>3
  <2> HIDE DEF regw, reqw, readers
  <2>5. reqw \subseteq Locker
    BY <1>p DEF reqw
  <2>6. /\ regw \cap reqw \subseteq NextTagW
        /\ regw \cap reqw # {} \/ readers # {} => NextTagW = regw \cap reqw
        /\ regw \cap reqw = {} => \A m, n \in NextTagW : m = n
    <3>1. GetPrioCpu \in CPU
      BY <1>p
    <3> DEFINE prio == GetPrioCpu
    <3> HIDE DEF prio
    <3>2. prio \in CPU /\ NextTagW = TagWriters(TRUE, readers, regw, reqw, prio)
      BY <2>1, <3>1 DEF prio
    <3> DEFINE gnt == TagWriters(TRUE, readers, regw, reqw, prio)
    <3>3. regw \cap reqw \subseteq gnt
      BY <2>5, <3>2, TagWritersShape
    <3>4. regw \cap reqw # {} \/ readers # {} => gnt = regw \cap reqw
      BY DEF TagWriters
    <3>5. regw \cap reqw = {} => \A m, n \in gnt : m = n
      BY <2>5, <3>2, TagWritersShape
    <3> QED BY <3>2, <3>3, <3>4, <3>5
  <2>7. reqw # {} => readers = tagr_reg \cap req_tagr
    BY <2>2, TagReadersShape
  <2>8. regw \cap reqw # {} => readers = {}
    BY <2>3, <2>7
  <2>9. \A m, n \in NextTagW : m = n
    BY <2>3, <2>6
  <2>10. NextTagW # {} => readers = {}
    BY <2>6, <2>8
  <2> QED BY <2>4, <2>6, <2>8, <2>9, <2>10 DEF regw, reqw, readers
<1> QED BY <1>1, <1>2, <1>t

\* What the bus interface does to its tag lines and its lock.
LEMMA BusIfMoves ==
  ASSUME BusIfType, BusIfJob, NEW in, BusIfEdge(in)
  PROVE  /\ bi_state' \in BusIfTagWrite1 => in.gnt_tagw
         /\ bi_state' \in BusIfTagWrite2 <=> bi_state \in BusIfTagWrite1
         /\ bi_op' # bi_op => bi_op' = "nothing" \/ bi_state \in {"idle", "ack"}
         /\ nolinelock_reg' # nolinelock_reg => bi_state \in {"idle", "ack"}
         /\ bi_state \in {"idle", "ack"} =>
              \/ bi_op' = "nothing"
              \/ bi_op' = in.op /\ nolinelock_reg' = in.nolinelock
                   /\ bi_state' = "start" /\ adr_reg' = in.adr
         /\ bi_state' \in BusIfUsesLine \cup {"tagr"} =>
              \/ bi_state \in BusIfUsesLine \cup {"tagr"}
              \/ bi_state = "linelock" /\ in.gnt_linelock
              \/ bi_state = "start" /\ nolinelock_reg
         /\ bi_req_linelock' /\ bi_state # "start" =>
              bi_req_linelock /\ GetIndexOfAdr(adr_reg') = GetIndexOfAdr(adr_reg)
<1> USE DEF Goto, opVars, idataVars, bankVars, BusIfTagWrite1, BusIfTagWrite2,
            BusIfUsesLine, bi_req_linelock
<1>0. bi_state \in BusIfState /\ (bi_op = "nothing" <=> bi_state \in {"idle", "ack"})
  BY DEF BusIfType, BusIfJob
<1>1. CASE Idle(in) \/ Unlock(in)
  BY <1>0, <1>1 DEF Idle, Unlock, AcceptNewOp, BusIfState
<1>2. CASE Start
  BY <1>0, <1>2 DEF Start, BusIfState
<1>3. CASE DirectRead(in) \/ DirectReadDone \/ DirectWrite(in)
  BY <1>0, <1>3 DEF DirectRead, DirectReadDone, DirectWrite, BusIfState
<1>4. CASE GotLineLock(in) \/ GotTagR(in) \/ CaptureTag(in)
  BY <1>0, <1>4 DEF GotLineLock, GotTagR, CaptureTag, BusIfState
<1>5. CASE Dispatch
  BY <1>0, <1>5 DEF Dispatch, GotoAfterFetch, SaveOldLine, AfterSave, BusIfState
<1>6. CASE Fetch(in)
  <2>1. bi_state = "fetch"
    BY <1>6 DEF Fetch
  <2>2. GetIndexOfAdr(wb_adr_o) = GetIndexOfAdr(adr_reg)
    BY <2>1, BusAddress
  <2> QED BY <1>0, <1>6, <2>1, <2>2
          DEF Fetch, GotoAfterFetch, SaveOldLine, AfterSave, BusIfState
<1>7. CASE ReadBank(in)
  BY <1>0, <1>7 DEF ReadBank, AfterSave, BusIfState
<1>8. CASE GotTagWInv(in) \/ WriteInvalidTag \/ InvalidTagDone
  BY <1>0, <1>8 DEF GotTagWInv, WriteInvalidTag, InvalidTagDone, BusIfState
<1>9. CASE WriteBank(in)
  BY <1>0, <1>9 DEF WriteBank, BusIfState
<1>10. CASE GotTagW(in) \/ WriteNewTag
  BY <1>0, <1>10 DEF GotTagW, WriteNewTag, BusIfState
<1>11. CASE NewTagDone
  BY <1>0, <1>11 DEF NewTagDone, Acknowledge, BusIfState
<1>12. CASE StartWriteBack \/ WriteBack(in)
  BY <1>0, <1>12 DEF StartWriteBack, WriteBack, Acknowledge, BusIfState
<1>13. CASE Waiting(in)
  BY <1>0, <1>13 DEF Waiting, busIfVars, BusIfState
<1> QED BY BusIfEdge(in), <1>1, <1>2, <1>3, <1>4, <1>5, <1>6, <1>7, <1>8, <1>9,
           <1>10, <1>11, <1>12, <1>13 DEF BusIfEdge

\* The lines of the bus interface in this cycle.
BusIfLines == BusIfInputs(gnt_bank, NextLocks, gnt_tagr, NextTagW, gnt_busif)

\* A tag is written in two clocks, under one grant.
LEMMA WritesTagNext ==
  ASSUME TypeInv, Next, NEW w \in WP
  PROVE  WritesTag(w)' <=> w \in NextTagW /\ wp_state[w] \in {"write_tag1_and_bank", "write_tag1"}
<1> DEFINE g == WpGrant(w)
<1>1. wp_state'[w] = WpNextState(w, tag_out[w], g)
  BY WriteAcknowledged
<1>2. g.tagw <=> w \in NextTagW
  BY DEF WpGrant, WpGrants
<1>3. wp_state[w] \in WritePortState
  BY DEF TypeInv, TypeOK
<1> HIDE DEF g
<1> QED BY <1>1, <1>2, <1>3
     DEF WpNextState, NextFromInit, NextDirect, NextAfterTag, NextWrite, NextMiss,
         WritesTag, WritePortState

LEMMA TagRamInvNext ==
  ASSUME TypeInv, TagRamInv, Next
  PROVE  TagRamInv'
<1>1. tagw_reg' = NextTagW /\ tagr_reg' = gnt_tagr
  BY NextParts
<1>2. tagram_ready' = TRUE
  BY NextParts DEF TagRamEdge
<1>3. /\ bi_state' \in BusIfTagWrite1 => LOCK_BUSIF \in NextTagW
      /\ bi_state' \in BusIfTagWrite2 <=> bi_state \in BusIfTagWrite1
  <2>1. BusIfEdge(BusIfLines) /\ BusIfType /\ BusIfJob
    BY NextParts, BusIfOfType DEF BusIfLines, TypeInv
  <2>2. BusIfLines.gnt_tagw <=> LOCK_BUSIF \in NextTagW
    BY DEF BusIfLines, BusIfInputs
  <2> QED BY <2>1, <2>2, BusIfMoves
<1>4. bi_state \in BusIfTagWrite1 \cup BusIfTagWrite2 =>
        LOCK_BUSIF \in tagw_reg /\ LOCK_BUSIF \in NextTagW
  BY TagGrants DEF TagRamInv, req_tagw, bi_req_tagw, BusIfTagWrite1, BusIfTagWrite2
<1>5. \A w \in WP : WritesTag(w) => w \in tagw_reg /\ w \in NextTagW
  BY TagGrants DEF TagRamInv, req_tagw, WpReqTagW, WritesTag
<1>6. \A w \in WP : WritesTag(w)' <=>
        w \in NextTagW /\ wp_state[w] \in {"write_tag1_and_bank", "write_tag1"}
  BY WritesTagNext
<1>7. tag_busy' <=> (\E w \in WP : WritesTag(w)') \/ bi_state' \in BusIfTagWrite2
  <2>1. CASE tag_busy
    <3>1. tag_busy' = FALSE
      BY <2>1, NextParts DEF TagRamEdge, TagRamPause
    <3>2. PICK x \in NextTagW : \/ x \in WP /\ WritesTag(x)
                                \/ x = LOCK_BUSIF /\ bi_state \in BusIfTagWrite2
      <4>1. (\E w \in WP : WritesTag(w)) \/ bi_state \in BusIfTagWrite2
        BY <2>1 DEF TagRamInv
      <4> QED BY <1>4, <1>5, <4>1
    <3>3. \A n \in NextTagW : n = x
      BY TagGrants
    <3>4. ASSUME NEW w \in WP PROVE ~WritesTag(w)'
      BY <1>6, <3>2, <3>3, PortNumbers DEF WritesTag
    <3>5. bi_state \notin BusIfTagWrite1
      BY <1>4, <3>2, <3>3, PortNumbers DEF BusIfTagWrite1, BusIfTagWrite2
    <3> QED BY <1>3, <3>1, <3>4, <3>5
  <2>2. CASE ~tag_busy
    <3>1. tag_busy' <=> tagram_wr(NextTagW) # {}
      BY <2>2, NextParts DEF TagRamEdge, TagRamServe
    <3>2. /\ \A w \in WP : ~WritesTag(w)
          /\ bi_state \notin BusIfTagWrite2
      BY <2>2 DEF TagRamInv
    <3>3. CPU_CORES - 1 \in CPU /\ CPU = WP
      BY PortNumbers DEF CPU
    <3>4. ASSUME NEW n \in CPU
          PROVE  WpTagWr(n, n \in NextTagW) <=> WritesTag(n)'
      BY <1>6, <3>2, <3>3 DEF WpTagWr, WritesTag
    <3>5. bi_tag_wr <=> bi_state' \in BusIfTagWrite2
      BY <1>3, <3>2 DEF bi_tag_wr, BusIfTagWrite1, BusIfTagWrite2
    <3> QED BY <3>1, <3>3, <3>4, <3>5 DEF tagram_wr
  <2> QED BY <2>1, <2>2 DEF TypeInv, TypeOK
<1> QED BY <1>1, <1>2, <1>3, <1>4, <1>6, <1>7, TagGrants
         DEF TagRamInv

LEMMA TagRamUsed ==
  ASSUME TypeInv, TagRamInv
  PROVE  TagRamUse
<1> DEFINE wr == tagram_wr(NextTagW)
<1>1. bi_tag_wr => LOCK_BUSIF \in NextTagW
  BY TagGrants DEF TagRamInv, req_tagw, bi_req_tagw, bi_tag_wr, BusIfTagWrite1, BusIfTagWrite2
<1>2. ASSUME NEW n \in CPU, WpTagWr(n, n \in NextTagW) PROVE n \in NextTagW
  BY <1>2, TagGrants, PortNumbers DEF TagRamInv, req_tagw, WpTagWr, WpReqTagW, WritesTag
<1>3. ASSUME NEW m \in wr, NEW n \in wr PROVE m = n
  <2>1. /\ m \in NextTagW \/ (m = CPU_CORES - 1 /\ LOCK_BUSIF \in NextTagW)
        /\ n \in NextTagW \/ (n = CPU_CORES - 1 /\ LOCK_BUSIF \in NextTagW)
        /\ m \in CPU /\ n \in CPU
    BY <1>1, <1>2 DEF tagram_wr
  <2>2. LOCK_BUSIF \notin CPU
    BY PortNumbers
  <2> QED BY <2>1, <2>2, TagGrants
<1> HIDE DEF wr
<1>4. Cardinality(wr) <= 1
  <2>1. CASE wr = {}
    BY <2>1, FS_EmptySet
  <2>2. CASE wr # {}
    <3>1. PICK x : wr = {x}
      BY <1>3, <2>2
    <3>2. Cardinality({x}) = 1
      BY FS_Singleton
    <3> QED BY <3>1, <3>2
  <2> QED BY <2>1, <2>2
<1>5. tag_busy => gnt_tagr = {}
  BY TagGrants
<1> QED BY <1>4, <1>5 DEF TagRamUse, wr, NextTagW

-----------------------------------------------------------------------------
(* Use of the line locks.                                                  *)

\* Who asks for a lock keeps the request, and with it the line.
LEMMA LockRequests ==
  ASSUME TypeInv, LockInv, Next, NEW w \in WP, WpReqLineLock(w, w \in WpBanks(gnt_bank))
  PROVE  /\ wp_in'[w] = wp_in[w] /\ w \notin wp_ack(gnt_bank)
         /\ WpReqLineLock(w, FALSE)
<1>1. wp_in[w].op \notin SpecialOp
  BY DEF LockInv
<1>2. wp_state[w] \in CachedWrite \/ NewCached(w)
  <2>1. wp_state[w] \notin SpecialState
    BY <1>1 DEF TypeInv, WritesHeld
  <2>2. wp_state[w] \in WritePortState
    BY DEF TypeInv, TypeOK
  <2> QED BY <1>1, <2>1, <2>2 DEF WpReqLineLock, CachedWrite, NewSpecial
<1>3. WpWrites(w) /\ wp_in[w].op \notin {"none", "ll"}
  <2>1. WpWrites(w)
    BY <1>2 DEF NewCached, TypeInv, WritesHeld
  <2> QED BY <2>1 DEF WpWrites
<1>4. w \notin wp_ack(gnt_bank)
  BY <1>2 DEF wp_ack, WpAck, WpReqLineLock, NewCached, NewSpecial, FailedSC, Initial,
              CachedWrite, SpecialState, LastAccess, WritePortState
<1>5. WpReqLineLock(w, FALSE)
  BY DEF WpReqLineLock, LastAccess
<1> QED BY <1>3, <1>4, <1>5, WriteRequestsHeld

\* One write port has a lock, and another line than the bus interface has.
LEMMA LocksExclusive ==
  ASSUME TypeInv, LockInv
  PROVE  /\ \A v, w \in NextLocks \ {LOCK_BUSIF} : v = w
         /\ LOCK_BUSIF \in NextLocks =>
              \A w \in NextLocks \ {LOCK_BUSIF} : lock_idx[w] # lock_idx[LOCK_BUSIF]
         /\ linelock_reg \cap LineLockRequests(WpBanks(gnt_bank)) \subseteq NextLocks
<1> DEFINE req == LineLockRequests(WpBanks(gnt_bank))
           ix  == lock_idx
           prio == GetPrioCpu
<1>1. req \subseteq Locker /\ prio \in CPU
  BY RequestsType, PrioType DEF TypeInv
<1>2. NextLocks = LineLock(linelock_reg, req, ix, prio)
  BY DEF NextLocks, gnt_linelock
<1>3. \A m, n \in KeptLocks(linelock_reg, req) : m = n
  BY DEF KeptLocks, LockInv
<1>4. ASSUME LOCK_BUSIF \in linelock_reg \cap req, NEW n \in KeptLocks(linelock_reg, req)
      PROVE  ix[n] # ix[LOCK_BUSIF]
  <2>1. bi_req_linelock
    BY <1>4, PortNumbers DEF LineLockRequests
  <2>2. n \in WP /\ n \in linelock_reg /\ WpReqLineLock(n, n \in WpBanks(gnt_bank))
    BY <1>1, <1>4, PortNumbers DEF KeptLocks, LineLockRequests
  <2>3. WpReqLineLock(n, FALSE)
    BY <2>2 DEF WpReqLineLock, LastAccess
  <2> HIDE DEF ix
  <2>4. LOCK_BUSIF \in linelock_reg
    BY <1>4
  <2> QED BY <2>1, <2>2, <2>3, <2>4 DEF LockInv, ix
<1> HIDE DEF req, ix, prio
<1>5. linelock_reg \cap req \subseteq LineLock(linelock_reg, req, ix, prio)
  BY <1>1, LineLockShape
<1>6. LET gnt == LineLock(linelock_reg, req, ix, prio)
      IN  /\ \A m, n \in gnt \ {LOCK_BUSIF} : m = n
          /\ LOCK_BUSIF \in gnt => \A n \in gnt \ {LOCK_BUSIF} : ix[n] # ix[LOCK_BUSIF]
  BY <1>1, <1>3, <1>4, LineLockExclusion
<1> QED BY <1>2, <1>5, <1>6 DEF req, ix

\* What write port w does with its locks.
LEMMA WpMoves ==
  ASSUME TypeInv, Next, NEW w \in WP
  PROVE  /\ wp_state'[w] \in WpUsesLine =>
              w \in NextLocks \/ (/\ wp_state[w] \in WpUsesLine
                                  /\ WpReqLineLock(w, w \in WpBanks(gnt_bank)))
         /\ wp_state'[w] \in {"recheck", "recheck_read_tag", "replace", "replace_wait_busif"} =>
              \/ IDX_WP(w) \in gnt_busif
              \/ wp_state[w] \in {"recheck", "recheck_read_tag", "replace", "replace_wait_busif"}
         /\ wp_state[w] = "replace" => WpReplaces(w)'
         /\ wp_state[w] = "replace_wait_busif" /\ busif_busy => WpReplaces(w)'
<1> DEFINE g == WpGrant(w)
<1>1. wp_state'[w] = WpNextState(w, tag_out[w], g)
  BY WriteAcknowledged
<1>2. /\ g.linelock <=> w \in NextLocks
      /\ g.bank <=> w \in WpBanks(gnt_bank)
      /\ g.busif <=> IDX_WP(w) \in gnt_busif
      /\ g.busy <=> busif_busy
  BY DEF WpGrant, WpGrants
<1>3. wp_state[w] \in WritePortState
  BY DEF TypeInv, TypeOK
<1> HIDE DEF g
<1> USE DEF WpUsesLine, WpReplaces, WpReqLineLock, LastAccess, Initial, NewCached,
            NewSpecial
<1>4. CASE wp_state[w] = "init"
  BY <1>1, <1>2, <1>4 DEF WpNextState, NextFromInit, NextDirect
<1>5. CASE wp_state[w] \in {"direct", "special_request_busif_only", "special",
                            "special_wait_complete", "request_linelock_only"}
  BY <1>1, <1>2, <1>5 DEF WpNextState
<1>6. CASE wp_state[w] \in {"read_tag", "have_tag_request_bank", "read_bank"}
  BY <1>1, <1>2, <1>6 DEF WpNextState, NextAfterTag, NextWrite
<1>7. CASE wp_state[w] \in {"write_tag1_and_bank", "write_tag2_and_bank",
                            "write_tag1", "write_tag2", "write_bank"}
  BY <1>1, <1>2, <1>7 DEF WpNextState
<1>8. CASE wp_state[w] \in {"miss", "request_busif_only", "recheck",
                            "recheck_read_tag", "replace", "replace_wait_busif"}
  BY <1>1, <1>2, <1>8 DEF WpNextState, NextMiss, NextAfterTag, NextWrite
<1> QED BY <1>3, <1>4, <1>5, <1>6, <1>7, <1>8 DEF WritePortState

\* An operation that comes without a line lock is the miss of a write port.
LEMMA RequesterLocks ==
  ASSUME TypeInv, LockInv
  PROVE  LET r == Requester(gnt_busif)
         IN  /\ r.op \notin SpecialOp
             /\ r.op \in LineOp /\ r.nolinelock =>
                  \E w \in WP : wp_state[w] = "replace" /\ r.adr = wp_in[w].adr
<1> DEFINE r == Requester(gnt_busif)
           p == CHOOSE n \in gnt_busif : TRUE
<1>1. gnt_busif \subseteq Port \ {IDX_BUSIF}
  BY GrantsType, RequestsType DEF TypeInv
<1>2. CASE gnt_busif = {}
  BY <1>2 DEF Requester, LineOp, SpecialOp
<1>3. CASE gnt_busif # {}
  <2>1. p \in Port /\ p # IDX_BUSIF
    BY <1>1, <1>3
  <2> HIDE DEF p
  <2>2. CASE p \in RP
    <3>1. p < RPORTS
      BY <2>2, PortNumbers DEF RP
    <3>2. r.op = RpBusIfOp(p) /\ r.nolinelock = FALSE
      BY <1>3, <3>1 DEF Requester, p
    <3> QED BY <2>2, <3>2, ReadOperation DEF SpecialOp
  <2>3. CASE p \notin RP
    <3>1. PICK w \in WP : p = IDX_WP(w)
      BY <2>1, <2>3, PortNumbers
    <3>2. p - RPORTS = w /\ ~(p < RPORTS)
      BY <3>1, PortNumbers DEF IDX_WP, WP
    <3>3. r.op = WpBusIfOp(w) /\ r.adr = wp_in[w].adr
      BY <1>3, <3>2 DEF Requester, p
    <3>4. wp_state[w] # "special"
      BY DEF TypeInv, WritesHeld, LockInv, SpecialState
    <3> QED BY <3>3, <3>4, WriteOperation DEF SpecialOp, LineOp
  <2> QED BY <2>2, <2>3
<1> QED BY <1>2, <1>3

LEMMA LockInvNext ==
  ASSUME NoCacheControl, TypeInv, LockInv, Next
  PROVE  LockInv'
<1> DEFINE in == BusIfLines
<1>1. linelock_reg' = NextLocks /\ busif_reg' = gnt_busif
  BY NextParts
<1>2. BusIfEdge(in) /\ BusIfType /\ BusIfJob
  BY NextParts, BusIfOfType DEF BusIfLines, TypeInv
<1>3. /\ in.op = Requester(gnt_busif).op /\ in.nolinelock = Requester(gnt_busif).nolinelock
      /\ in.gnt_linelock <=> LOCK_BUSIF \in NextLocks
  BY DEF BusIfLines, BusIfInputs
<1>4. ASSUME NEW w \in WP PROVE wp_in'[w].op \notin SpecialOp
  <2>1. TypeInv'
    BY TypeInvNext
  <2>2. workload' \in Workloads /\ wp_in'[w] \in WriteRequest'
    BY <2>1, WriteRequestsHeld DEF TypeInv
  <2>3. workload'.ops \cap SpecialOp = {}
    BY <2>2 DEF NoCacheControl
  <2>4. workload' = workload /\ WriteRequest' = WriteRequest
    BY ReadRequestsHeld DEF WriteRequest, NoWrite
  <2>5. wp_in'[w].op # "none" => wp_in'[w].op \in workload.ops
    BY <2>2, <2>4, RequestType
  <2> QED BY <2>3, <2>4, <2>5 DEF SpecialOp
<1>5. bi_op' \notin SpecialOp
  <2>1. bi_op \notin SpecialOp
    BY DEF LockInv
  <2>2. in.op \notin SpecialOp
    BY <1>3, RequesterLocks
  <2> HIDE DEF in
  <2> QED BY <1>2, <2>1, <2>2, BusIfMoves DEF SpecialOp
<1>6. \A v, w \in NextLocks \ {LOCK_BUSIF} : v = w
  BY LocksExclusive
<1>7. ASSUME LOCK_BUSIF \in NextLocks, bi_req_linelock', NEW w \in WP \cap NextLocks
      PROVE  lock_idx'[w] # lock_idx'[LOCK_BUSIF]
  <2>1. bi_req_linelock /\ WpReqLineLock(w, w \in WpBanks(gnt_bank))
    <3>1. NextLocks \subseteq LineLockRequests(WpBanks(gnt_bank))
      BY GrantsType DEF TypeInv
    <3> QED BY <1>7, <3>1, PortNumbers DEF LineLockRequests
  <2>2. wp_in'[w] = wp_in[w]
    BY <2>1, LockRequests
  <2>3. bi_state # "start"
    BY <2>1 DEF bi_req_linelock
  <2>4. GetIndexOfAdr(adr_reg') = GetIndexOfAdr(adr_reg)
    <3> HIDE DEF in
    <3> QED BY <1>2, <1>7, <2>3, BusIfMoves
  <2>5. lock_idx[w] # lock_idx[LOCK_BUSIF]
    BY <1>7, LocksExclusive, PortNumbers
  <2>6. w # LOCK_BUSIF /\ w \in Locker /\ LOCK_BUSIF \in Locker
    BY PortNumbers
  <2>7. lock_idx'[w] = lock_idx[w] /\ lock_idx'[LOCK_BUSIF] = lock_idx[LOCK_BUSIF]
    BY <2>2, <2>4, <2>6 DEF lock_idx, busif_adr_out
  <2> QED BY <2>5, <2>7
<1>8. ASSUME NEW w \in WP, wp_state'[w] \in WpUsesLine PROVE w \in NextLocks
  <2>1. CASE wp_state[w] \in WpUsesLine /\ WpReqLineLock(w, w \in WpBanks(gnt_bank))
    <3>1. w \in linelock_reg \cap LineLockRequests(WpBanks(gnt_bank))
      BY <2>1 DEF LockInv, LineLockRequests
    <3> QED BY <3>1, LocksExclusive
  <2> QED BY <1>8, <2>1, WpMoves
<1>9. ASSUME NEW w \in WP,
             wp_state'[w] \in {"recheck", "recheck_read_tag", "replace", "replace_wait_busif"}
      PROVE  IDX_WP(w) \in gnt_busif
  <2>1. CASE wp_state[w] \in {"recheck", "recheck_read_tag", "replace", "replace_wait_busif"}
    <3>1. IDX_WP(w) \in busif_reg
      BY <2>1 DEF LockInv, WpReplaces
    <3>2. IDX_WP(w) \in req_busif
      BY <2>1 DEF req_busif, WpReqBusIf
    <3>3. GetPrioCpu \in CPU
      BY PrioType DEF TypeInv
    <3> QED BY <3>1, <3>2, <3>3, BusIfGrantShape DEF gnt_busif
  <2> QED BY <1>9, <2>1, WpMoves
<1>10. ASSUME bi_state' \in BusIfUsesLine \cup {"tagr"}, ~nolinelock_reg'
       PROVE  LOCK_BUSIF \in NextLocks
  <2>1. \/ bi_state \in BusIfUsesLine \cup {"tagr"}
        \/ bi_state = "linelock" /\ in.gnt_linelock
        \/ bi_state = "start" /\ nolinelock_reg
    <3> HIDE DEF in
    <3> QED BY <1>2, <1>10, BusIfMoves
  <2>2. bi_state \notin {"idle", "ack"} /\ nolinelock_reg' = nolinelock_reg
    <3>1. bi_state \notin {"idle", "ack"}
      BY <2>1 DEF BusIfUsesLine
    <3> HIDE DEF in
    <3> QED BY <1>2, <3>1, BusIfMoves
  <2>3. CASE bi_state \in BusIfUsesLine \cup {"tagr"}
    <3>1. LOCK_BUSIF \in linelock_reg
      BY <1>10, <2>2, <2>3 DEF LockInv
    <3>2. bi_req_linelock
      BY <1>10, <2>2, <2>3 DEF bi_req_linelock, BusIfUsesLine
    <3> QED BY <3>1, <3>2, LocksExclusive DEF LineLockRequests
  <2> QED BY <1>3, <1>10, <2>1, <2>2, <2>3
<1>11. ASSUME bi_op' \in LineOp, nolinelock_reg' PROVE \E w \in WP : WpReplaces(w)'
  <2>1. CASE bi_state \in {"idle", "ack"}
    <3>1. in.op = bi_op' /\ in.nolinelock = nolinelock_reg'
      <4> HIDE DEF in
      <4> QED BY <1>2, <1>11, <2>1, BusIfMoves DEF LineOp
    <3>2. PICK w \in WP : wp_state[w] = "replace"
      BY <1>3, <1>11, <3>1, RequesterLocks
    <3> QED BY <3>2, WpMoves
  <2>2. CASE bi_state \notin {"idle", "ack"}
    <3>1. bi_op' = bi_op /\ nolinelock_reg' = nolinelock_reg
      <4> HIDE DEF in
      <4> QED BY <1>2, <1>11, <2>2, BusIfMoves DEF LineOp
    <3>2. PICK w \in WP : WpReplaces(w)
      BY <1>11, <3>1 DEF LockInv
    <3>3. busif_busy
      BY <1>2, <2>2 DEF BusIfJob, busif_busy
    <3> QED BY <3>2, <3>3, WpMoves DEF WpReplaces
  <2> QED BY <2>1, <2>2
<1> QED BY <1>1, <1>4, <1>5, <1>6, <1>7, <1>8, <1>9, <1>10, <1>11 DEF LockInv, WpReplaces

\* The locks are held by those who work on a line.
LEMMA LocksHeld ==
  ASSUME TypeInv, LockInv
  PROVE  WritersHoldLineLock
<1>1. ASSUME bi_state \in BusIfUsesLine, nolinelock_reg
      PROVE  \E w \in WP \cap linelock_reg : IDX_WP(w) \in busif_reg
  <2>1. bi_op \in LineOp
    BY <1>1 DEF TypeInv, BusIfJob, BusIfUsesLine, LineState, BusIfState
  <2>2. PICK w \in WP : WpReplaces(w)
    BY <1>1, <2>1 DEF LockInv
  <2>3. w \in linelock_reg /\ IDX_WP(w) \in busif_reg
    BY <2>2 DEF LockInv, WpReplaces, WpUsesLine
  <2> QED BY <2>3
<1> QED BY <1>1 DEF WritersHoldLineLock, LockInv

-----------------------------------------------------------------------------
(* The tags.                                                               *)

TagEntry(adr) == tag_ram[GetIndexOfAdr(adr)]

\* Way v holds the line of adr.
HoldsLine(adr, v) ==
  /\ TagEntry(adr).way[v].valid
  /\ TagEntry(adr).way[v].tadr = GetTagOfAdr(adr)

\* A write port has found its line, or is reading the tag.
WpHasTag    == {"have_tag_request_bank", "read_bank", "write_tag1_and_bank",
                "write_tag2_and_bank", "write_tag1", "write_tag2", "write_bank"}
WpReadsTag  == {"read_tag", "recheck_read_tag"}

\* The bus interface has read the tag it works on, and has not written it.
BusIfHasTag == {"tag_done", "fetch", "read_bank", "tagw_inv_req", "tagw_inv1",
                "tagw_inv2", "write_bank", "tagw_req", "tagw1"}

\* What a port or the bus interface has read of a tag stays true as long as it
\* relies on it; each tag RAM port reads for one requester.
TagsKnown ==
  /\ \A c \in CPU : \A m, n \in tagr_reg \cap TagPort(c) : m = n
  /\ \A w \in WP : wp_state[w] \in WpReadsTag /\ tag_out[w].valid =>
       /\ tag_out[w].tadr = GetTagOfAdr(wp_in[w].adr)
       /\ HoldsLine(wp_in[w].adr, tag_out[w].way)
  /\ \A w \in WP : wp_state[w] \in WpHasTag =>
       /\ wp_tag_reg[w].valid /\ wp_tag_reg[w].tadr = GetTagOfAdr(wp_in[w].adr)
       /\ HoldsLine(wp_in[w].adr, wp_tag_reg[w].way)
  /\ bi_state = "tagr2" =>
       \A v \in Way : HoldsLine(adr_reg, v) => v = tag_out[CPU_CORES - 1].way
  /\ bi_state \in BusIfHasTag =>
       \A v \in Way : HoldsLine(adr_reg, v) => v = bi_tag_reg.way

TagsInv == OneWayPerLine /\ TagsKnown

\* The tag is written for the line of adr, in the way the tag names.
WritesWay(adr, tag) ==
  \A i \in Index : tag_ram'[i].way =
    IF i = GetIndexOfAdr(adr)
    THEN [tag_ram[i].way EXCEPT ![tag.way] =
            [valid |-> tag.valid, dirty |-> tag.dirty, tadr |-> tag.tadr]]
    ELSE tag_ram[i].way

\* An edge writes no tag, or the tag of the one port that has the tag RAM.
LEMMA TagRamChange ==
  ASSUME TypeInv, TagRamInv, Next
  PROVE  \/ /\ \A i \in Index : tag_ram'[i].way = tag_ram[i].way
            /\ bi_state \notin BusIfTagWrite1
            /\ \A w \in WP : ~(/\ w \in NextTagW
                             /\ wp_state[w] \in {"write_tag1_and_bank", "write_tag1"})
         \/ /\ gnt_tagr = {}
            /\ \E w \in WP :
                 /\ w \in NextTagW
                 /\ wp_state[w] \in {"write_tag1_and_bank", "write_tag1"}
                 /\ WritesWay(wp_in[w].adr, [wp_tag_reg[w] EXCEPT !.dirty = TRUE])
         \/ /\ gnt_tagr = {}
            /\ bi_state \in BusIfTagWrite1 /\ WritesWay(adr_reg, bi_tag_out)
<1> DEFINE wr  == tagram_wr(NextTagW)
           adr == tagram_adr(gnt_tagr, NextTagW)
           in  == tagram_tag_in(NextTagW)
           writer == CHOOSE n \in wr : \A m \in wr : m <= n
           pending == {n \in CPU : use_reg[n].wr}
           first == CHOOSE n \in pending : \A m \in pending : n <= m
<1>1. tag_ram \in [Index -> Entry] /\ use_reg \in [CPU -> UseReg]
  BY DEF TypeInv, TypeOK, Entry, UseReg
<1>2. CASE tag_busy
  <2>1. tag_ram' = tag_ram
    BY <1>2, NextParts DEF TagRamEdge, TagRamPause
  <2>2. PICK x \in NextTagW : \/ x \in WP /\ WritesTag(x)
                              \/ x = LOCK_BUSIF /\ bi_state \in BusIfTagWrite2
    <3>1. \A w \in WP : WritesTag(w) => w \in NextTagW
      BY TagGrants DEF TagRamInv, req_tagw, WpReqTagW, WritesTag
    <3>2. bi_state \in BusIfTagWrite2 => LOCK_BUSIF \in NextTagW
      BY TagGrants DEF TagRamInv, req_tagw, bi_req_tagw, BusIfTagWrite2
    <3> QED BY <1>2, <3>1, <3>2 DEF TagRamInv
  <2>3. \A n \in NextTagW : n = x
    BY TagGrants
  <2>4. bi_state \in BusIfTagWrite1 => LOCK_BUSIF \in NextTagW
    BY TagGrants DEF TagRamInv, req_tagw, bi_req_tagw, BusIfTagWrite1
  <2>5. bi_state \notin BusIfTagWrite1
    BY <2>2, <2>3, <2>4, PortNumbers DEF BusIfTagWrite1, BusIfTagWrite2
  <2>6. \A w \in WP : ~(/\ w \in NextTagW
                       /\ wp_state[w] \in {"write_tag1_and_bank", "write_tag1"})
    BY <2>2, <2>3, PortNumbers DEF WritesTag
  <2> QED BY <2>1, <2>5, <2>6
<1>3. CASE ~tag_busy
  <2>1. TagRamServe(tagram_rd, wr, adr, in)
    BY <1>3, NextParts DEF TagRamEdge
  <2>2. CASE wr = {}
    <3>1. \/ tag_ram' = tag_ram
          \/ tag_ram' = [tag_ram EXCEPT ![use_reg[first].iadr].use = use_reg[first].use]
      <4> HIDE DEF wr, adr, in
      <4> QED BY <2>1, <2>2 DEF TagRamServe
    <3>2. ASSUME NEW x, NEW u, tag_ram' = [tag_ram EXCEPT ![x].use = u], NEW i \in Index
          PROVE  tag_ram'[i].way = tag_ram[i].way
      <4>1. tag_ram[i] \in Entry /\ tag_ram'[i] = IF i = x THEN [tag_ram[i] EXCEPT !.use = u]
                                                 ELSE tag_ram[i]
        BY <1>1, <3>2
      <4> QED BY <4>1 DEF Entry
    <3>3. bi_state \notin BusIfTagWrite1
      <4>1. CPU_CORES - 1 \in CPU
        BY ConfigAssumption DEF CPU
      <4> QED BY <2>2, <4>1 DEF tagram_wr, bi_tag_wr, BusIfTagWrite1
    <3>4. \A w \in WP : ~(/\ w \in NextTagW
                         /\ wp_state[w] \in {"write_tag1_and_bank", "write_tag1"})
      BY <2>2, PortNumbers DEF tagram_wr, WpTagWr
    <3>5. \A i \in Index : tag_ram'[i].way = tag_ram[i].way
      <4> HIDE DEF first
      <4> QED BY <3>1, <3>2
    <3> QED BY <3>3, <3>4, <3>5
  <2>3. CASE wr # {}
    <3>1. tag_ram' = [tag_ram EXCEPT ![IndexOf(adr[writer])] = WriteEntry(@, in[writer])]
      <4> HIDE DEF wr, adr, in
      <4> QED BY <2>1, <2>3 DEF TagRamServe
    <3>2. /\ \A w \in WP : ~WritesTag(w)
          /\ bi_state \notin BusIfTagWrite2
      BY <1>3 DEF TagRamInv
    <3>3. ASSUME NEW n \in wr
          PROVE  \/ /\ n \in WP /\ n \in NextTagW
                    /\ wp_state[n] \in {"write_tag1_and_bank", "write_tag1"}
                 \/ /\ n = CPU_CORES - 1 /\ LOCK_BUSIF \in NextTagW
                    /\ bi_state \in BusIfTagWrite1
      <4>1. n \in WP
        BY PortNumbers DEF tagram_wr
      <4>2. CASE WpTagWr(n, n \in NextTagW)
        BY <3>2, <4>1, <4>2 DEF WpTagWr, WritesTag
      <4>3. CASE n = CPU_CORES - 1 /\ bi_tag_wr
        <5>1. bi_state \in BusIfTagWrite1
          BY <3>2, <4>3 DEF bi_tag_wr, BusIfTagWrite1, BusIfTagWrite2
        <5>2. LOCK_BUSIF \in NextTagW
          BY <5>1, TagGrants DEF TagRamInv, req_tagw, bi_req_tagw, BusIfTagWrite1
        <5> QED BY <4>3, <5>1, <5>2
      <4> QED BY <4>2, <4>3 DEF tagram_wr
    <3>4. PICK n \in wr : wr = {n}
      <4>1. ASSUME NEW m \in wr, NEW n \in wr PROVE m = n
        <5>1. LOCK_BUSIF \notin WP
          BY PortNumbers
        <5> HIDE DEF wr
        <5> QED BY <3>3, <5>1, TagGrants
      <4> QED BY <2>3, <4>1
    <3>5. writer = n
      <4>1. n \in Int
        BY ConfigAssumption DEF tagram_wr, CPU
      <4> HIDE DEF wr
      <4> QED BY <3>4, <4>1
    <3>6. n \in CPU /\ in[n] \in Tag /\ IndexOf(adr[n]) \in Index
      <4>1. n \in CPU
        BY DEF tagram_wr
      <4> QED BY <4>1, TagInputs, TagAddresses
    <3>7. gnt_tagr = {}
      BY <3>3, TagGrants
    <3>8. \A i \in Index : tag_ram'[i].way =
            IF i = IndexOf(adr[n])
            THEN [tag_ram[i].way EXCEPT ![in[n].way] =
                    [valid |-> in[n].valid, dirty |-> in[n].dirty, tadr |-> in[n].tadr]]
            ELSE tag_ram[i].way
      <4> HIDE DEF wr, adr, in, writer
      <4> QED BY <1>1, <3>1, <3>5, <3>6 DEF WriteEntry, Entry
    <3>9. CASE /\ n \in WP /\ n \in NextTagW
               /\ wp_state[n] \in {"write_tag1_and_bank", "write_tag1"}
      <4>1. LOCK_BUSIF \notin NextTagW
        BY <3>9, TagGrants, PortNumbers
      <4>2. adr[n] = wp_in[n].adr
        BY <3>6, <3>7, <3>9, <4>1 DEF tagram_adr
      <4>3. in[n] = [wp_tag_reg[n] EXCEPT !.dirty = TRUE]
        BY <3>6, <3>9, <4>1 DEF tagram_tag_in, WpTagOut, WpReqTagW
      <4>4. IndexOf(adr[n]) = GetIndexOfAdr(wp_in[n].adr)
        <5>1. wp_in[n].adr \in Nat
          BY <3>9, WriteRequests
        <5> QED BY <4>2, <5>1 DEF IndexOf, DontCare
      <4> HIDE DEF adr, in
      <4> QED BY <3>7, <3>8, <3>9, <4>3, <4>4 DEF WritesWay
    <3>10. CASE /\ n = CPU_CORES - 1 /\ LOCK_BUSIF \in NextTagW
                /\ bi_state \in BusIfTagWrite1
      <4>1. adr[n] = adr_reg /\ in[n] = bi_tag_out
        BY <3>6, <3>10 DEF tagram_adr, tagram_tag_in, busif_adr_out
      <4>2. IndexOf(adr[n]) = GetIndexOfAdr(adr_reg)
        <5>1. adr_reg \in Nat
          BY BusAddress, BusIfOfType DEF TypeInv
        <5> QED BY <4>1, <5>1 DEF IndexOf, DontCare
      <4> HIDE DEF adr, in
      <4> QED BY <3>7, <3>8, <3>10, <4>1, <4>2 DEF WritesWay
    <3> QED BY <3>3, <3>9, <3>10
  <2> QED BY <2>2, <2>3
<1> QED BY <1>2, <1>3

\* A port of the tag RAM reads for one requester, the one that drives its address.
LEMMA TagPortReaders ==
  ASSUME TagsKnown, NEW c \in CPU, tagram_ready \in BOOLEAN
  PROVE  \A m, n \in gnt_tagr \cap TagPort(c) : m = n
<1>1. CASE tagram_ready = FALSE
  BY <1>1 DEF gnt_tagr, TagReaders
<1>2. CASE tagram_ready = TRUE
  BY <1>2, TagReadersExclusion DEF gnt_tagr, TagsKnown
<1> QED BY <1>1, <1>2

\* What a read returns, and that the tags stay as they are while it does.
LEMMA TagRead ==
  ASSUME TypeInv, TagRamInv, TagsKnown, Next
  PROVE  /\ gnt_tagr # {} => \A i \in Index : tag_ram'[i].way = tag_ram[i].way
         /\ \A w \in WP : IDX_WP(w) \in gnt_tagr =>
              tag_out'[w] = ReadTag(TagEntry(wp_in[w].adr), wp_in[w].adr)
         /\ IDX_BUSIF \in gnt_tagr =>
              tag_out'[CPU_CORES - 1] = ReadTag(TagEntry(adr_reg), adr_reg)
<1> DEFINE adr == tagram_adr(gnt_tagr, NextTagW)
<1>1. CASE gnt_tagr = {}
  BY <1>1
<1>2. CASE gnt_tagr # {}
  <2>1. NextTagW = {} /\ ~tag_busy
    BY <1>2, TagGrants
  <2>2. \A n \in CPU : n \in tagram_rd =>
          tag_out'[n] = ReadTag(tag_ram[IndexOf(adr[n])], adr[n])
    <3>1. TagRamServe(tagram_rd, tagram_wr(NextTagW), adr, tagram_tag_in(NextTagW))
      BY <2>1, NextParts DEF TagRamEdge
    <3> HIDE DEF adr
    <3> QED BY <3>1 DEF TagRamServe
  <2>3. tagram_ready \in BOOLEAN /\ gnt_tagr \subseteq req_tagr
    BY GrantsType DEF TypeInv, TypeOK
  <2>4. ASSUME NEW w \in WP, IDX_WP(w) \in gnt_tagr
        PROVE  tag_out'[w] = ReadTag(TagEntry(wp_in[w].adr), wp_in[w].adr)
    <3>1. w \in CPU /\ w \in tagram_rd
      <4>1. IDX_WP(w) \in req_tagr
        BY <2>3, <2>4
      <4>2. WpReqTagR(w, busif_busy)
        <5>1. \A v \in WP : IDX_WP(v) = IDX_WP(w) => v = w
          BY PortNumbers DEF IDX_WP, WP
        <5> QED BY <4>1, <5>1, PortNumbers DEF req_tagr
      <4> QED BY <4>2, PortNumbers DEF tagram_rd
    <3>2. w = CPU_CORES - 1 => IDX_BUSIF \notin gnt_tagr
      <4>1. w = CPU_CORES - 1 /\ IDX_BUSIF \in gnt_tagr =>
              {IDX_WP(w), IDX_BUSIF} \subseteq gnt_tagr \cap TagPort(w)
        BY <2>4 DEF TagPort
      <4>2. IDX_WP(w) # IDX_BUSIF
        BY PortNumbers
      <4> QED BY <2>3, <3>1, <4>1, <4>2, TagPortReaders
    <3>3. adr[w] = wp_in[w].adr
      BY <2>1, <2>4, <3>1, <3>2 DEF tagram_adr
    <3>4. wp_in[w].adr \in Nat
      BY WriteRequests
    <3> HIDE DEF adr
    <3> QED BY <2>2, <3>1, <3>3, <3>4 DEF IndexOf, DontCare, TagEntry
  <2>5. ASSUME IDX_BUSIF \in gnt_tagr
        PROVE  tag_out'[CPU_CORES - 1] = ReadTag(TagEntry(adr_reg), adr_reg)
    <3>1. CPU_CORES - 1 \in CPU
      BY ConfigAssumption DEF CPU
    <3>2. CPU_CORES - 1 \in tagram_rd
      <4>1. IDX_BUSIF \in req_tagr
        BY <2>3, <2>5
      <4>2. bi_tag_rd
        BY <4>1, PortNumbers DEF req_tagr
      <4> QED BY <3>1, <4>2 DEF tagram_rd
    <3>3. adr[CPU_CORES - 1] = adr_reg
      BY <2>5, <3>1 DEF tagram_adr, busif_adr_out
    <3>4. adr_reg \in Nat
      BY BusAddress, BusIfOfType DEF TypeInv
    <3> HIDE DEF adr
    <3> QED BY <2>2, <3>1, <3>2, <3>3, <3>4 DEF IndexOf, DontCare, TagEntry
  <2>6. \A i \in Index : tag_ram'[i].way = tag_ram[i].way
    BY <1>2, TagRamChange
  <2> QED BY <2>4, <2>5, <2>6
<1> QED BY <1>1, <1>2

\* A read finds the way of the line, if one holds it.
LEMMA ReadTagHit ==
  ASSUME TypeInv, OneWayPerLine, NEW a \in Nat
  PROVE  LET t == ReadTag(TagEntry(a), a)
         IN  /\ t.way \in Way
             /\ t.valid => t.tadr = GetTagOfAdr(a) /\ HoldsLine(a, t.way)
             /\ t.tadr = TagEntry(a).way[t.way].tadr
             /\ t.dirty = TagEntry(a).way[t.way].dirty
             /\ \A v \in Way : HoldsLine(a, v) => v = t.way /\ t.valid
<1> DEFINE e == TagEntry(a)
           h == HitWays(e, a)
<1>1. GetIndexOfAdr(a) \in Index /\ a # DontCare
  BY AdrParts DEF DontCare
<1>2. e \in Entry
  BY <1>1 DEF TypeInv, TypeOK, Entry, TagEntry
<1>3. h = {v \in Way : HoldsLine(a, v)}
  BY <1>1 DEF HitWays, HoldsLine
<1>4. ReadWay(e, a) \in Way
  BY <1>2, TagReadType
<1>5. h # {} => ReadWay(e, a) \in h
  <2> HIDE DEF e
  <2> QED BY DEF ReadWay
<1>6. \A v, w \in Way : HoldsLine(a, v) /\ HoldsLine(a, w) => v = w
  BY <1>1 DEF OneWayPerLine, HoldsLine, TagEntry
<1> QED BY <1>3, <1>4, <1>5, <1>6 DEF ReadTag, HoldsLine

\* What the bus interface does with the tag it has read.
LEMMA BusIfTagMoves ==
  ASSUME BusIfType, BusIfJob, NEW in, BusIfEdge(in)
  PROVE  /\ bi_state' = "tagr2" => /\ bi_state = "tagr" /\ in.gnt_tagr
                                   /\ adr_reg' = adr_reg
         /\ bi_state' \in BusIfHasTag =>
              /\ GetIndexOfAdr(adr_reg') = GetIndexOfAdr(adr_reg)
              /\ GetTagOfAdr(adr_reg') = GetTagOfAdr(adr_reg)
              /\ \/ bi_state = "tagr2" /\ bi_tag_reg' = in.tag
                 \/ bi_state \in BusIfHasTag /\ bi_tag_reg' = bi_tag_reg
<1> USE DEF Goto, opVars, idataVars, bankVars, BusIfHasTag
<1>0. bi_state \in BusIfState
  BY DEF BusIfType
<1>1. CASE Idle(in) \/ Unlock(in)
  BY <1>1 DEF Idle, Unlock, AcceptNewOp
<1>2. CASE Start
  BY <1>2 DEF Start
<1>3. CASE DirectRead(in) \/ DirectReadDone \/ DirectWrite(in)
  BY <1>3 DEF DirectRead, DirectReadDone, DirectWrite
<1>4. CASE GotLineLock(in) \/ GotTagR(in) \/ CaptureTag(in)
  BY <1>4 DEF GotLineLock, GotTagR, CaptureTag
<1>5. CASE Dispatch
  BY <1>5 DEF Dispatch, GotoAfterFetch, SaveOldLine, AfterSave
<1>6. CASE Fetch(in)
  <2>1. bi_state = "fetch"
    BY <1>6 DEF Fetch
  <2>2. /\ GetIndexOfAdr(wb_adr_o) = GetIndexOfAdr(adr_reg)
        /\ GetTagOfAdr(wb_adr_o) = GetTagOfAdr(adr_reg)
    BY <2>1, BusAddress
  <2> QED BY <1>6, <2>1, <2>2 DEF Fetch, GotoAfterFetch, SaveOldLine, AfterSave
<1>7. CASE ReadBank(in)
  BY <1>7 DEF ReadBank, AfterSave
<1>8. CASE GotTagWInv(in) \/ WriteInvalidTag \/ InvalidTagDone
  BY <1>8 DEF GotTagWInv, WriteInvalidTag, InvalidTagDone
<1>9. CASE WriteBank(in)
  BY <1>9 DEF WriteBank
<1>10. CASE GotTagW(in) \/ WriteNewTag
  BY <1>10 DEF GotTagW, WriteNewTag
<1>11. CASE NewTagDone
  BY <1>11 DEF NewTagDone, Acknowledge
<1>12. CASE StartWriteBack \/ WriteBack(in)
  BY <1>12 DEF StartWriteBack, WriteBack, Acknowledge
<1>13. CASE Waiting(in)
  BY <1>13 DEF Waiting, busIfVars
<1> QED BY BusIfEdge(in), <1>1, <1>2, <1>3, <1>4, <1>5, <1>6, <1>7, <1>8, <1>9,
           <1>10, <1>11, <1>12, <1>13 DEF BusIfEdge

\* What a write port does with the tag it reads.
LEMMA WpTagMoves ==
  ASSUME TypeInv, Next, NEW w \in WP
  PROVE  /\ wp_state'[w] \in WpReadsTag => IDX_WP(w) \in gnt_tagr
         /\ wp_state'[w] \in WpReadsTag \cup WpHasTag => wp_in'[w] = wp_in[w]
         /\ wp_state'[w] \in WpHasTag =>
              \/ /\ wp_state[w] \in WpReadsTag /\ tag_out[w].valid
                 /\ wp_tag_reg'[w] = tag_out[w]
              \/ /\ wp_state[w] \in WpHasTag \ {"write_tag2"}
                 /\ wp_tag_reg'[w] = wp_tag_reg[w]
<1> DEFINE g == WpGrant(w)
<1>1. wp_state'[w] = WpNextState(w, tag_out[w], g)
  BY WriteAcknowledged
<1>2. g.tagr <=> IDX_WP(w) \in gnt_tagr
  BY DEF WpGrant, WpGrants
<1>3. wp_state[w] \in WritePortState
  BY DEF TypeInv, TypeOK
<1>4. wp_tag_reg'[w] = IF wp_state[w] \in WpReadsTag THEN tag_out[w] ELSE wp_tag_reg[w]
  BY NextParts DEF WritePortEdge, WpReadsTag
<1>5. ASSUME wp_state'[w] \in WpReadsTag \cup WpHasTag
      PROVE  wp_in'[w] = wp_in[w]
  <2>1. WpWrites(w) /\ w \notin wp_ack(gnt_bank)
    BY <1>5, WriteAcknowledged DEF WpReadsTag, WpHasTag, CachedWrite, SpecialState, WritePortState
  <2> QED BY <2>1, WriteRequestsHeld DEF WpWrites
<1> HIDE DEF g
<1> USE DEF WpReadsTag, WpHasTag
<1>6. wp_state'[w] \in WpReadsTag => g.tagr
  BY <1>1, <1>3 DEF WpNextState, NextFromInit, NextDirect, NextAfterTag, NextWrite,
                    NextMiss, WritePortState
<1>7. wp_state'[w] \in WpHasTag =>
        \/ wp_state[w] \in WpReadsTag /\ tag_out[w].valid
        \/ wp_state[w] \in WpHasTag \ {"write_tag2"}
  BY <1>1, <1>3 DEF WpNextState, NextFromInit, NextDirect, NextAfterTag, NextWrite,
                    NextMiss, WritePortState
<1> QED BY <1>2, <1>4, <1>5, <1>6, <1>7

\* The bus interface writes no tag of the line a write port works on.
LEMMA TagWritesApart ==
  ASSUME TypeInv, TagRamInv, LockInv, bi_state \in BusIfTagWrite1,
         NEW w \in WP, wp_state[w] \in (WpReadsTag \cup WpHasTag) \ {"write_tag2"}
  PROVE  GetIndexOfAdr(wp_in[w].adr) # GetIndexOfAdr(adr_reg)
<1>1. w \in linelock_reg /\ ~WpReplaces(w)
  BY DEF LockInv, WpUsesLine, WpReadsTag, WpHasTag, WpReplaces
<1>2. bi_state \in BusIfUsesLine /\ bi_op \in LineOp
  BY DEF BusIfTagWrite1, BusIfUsesLine, TypeInv, BusIfJob, LineState, BusIfState
<1>3. ~nolinelock_reg
  <2>1. ASSUME nolinelock_reg PROVE FALSE
    <3>1. PICK v \in WP : WpReplaces(v)
      BY <1>2, <2>1 DEF LockInv
    <3>2. v \in linelock_reg
      BY <3>1 DEF LockInv, WpReplaces, WpUsesLine
    <3> QED BY <1>1, <3>1, <3>2, PortNumbers DEF LockInv
  <2> QED BY <2>1
<1>4. LOCK_BUSIF \in linelock_reg /\ bi_req_linelock
  BY <1>2, <1>3 DEF LockInv, bi_req_linelock, BusIfUsesLine
<1>5. WpReqLineLock(w, FALSE)
  BY DEF WpReqLineLock, LastAccess, WpReadsTag, WpHasTag
<1>6. lock_idx[w] # lock_idx[LOCK_BUSIF]
  BY <1>1, <1>4, <1>5 DEF LockInv
<1> QED BY <1>6, PortNumbers DEF lock_idx, busif_adr_out

\* Of the valid bits and tag addresses only the bus interface changes any, in the
\* way its own tag names.
LEMMA LinesHeld ==
  ASSUME TypeInv, TagRamInv, TagsInv, Next, NEW i \in Index, NEW v \in Way,
         bi_state \in BusIfTagWrite1 => i # GetIndexOfAdr(adr_reg) \/ v # bi_tag_reg.way
  PROVE  /\ tag_ram'[i].way[v].valid = tag_ram[i].way[v].valid
         /\ tag_ram'[i].way[v].tadr = tag_ram[i].way[v].tadr
<1>1. /\ tag_ram[i].way \in [Way -> [valid : BOOLEAN, dirty : BOOLEAN, tadr : TagAdr]]
      /\ wp_tag_reg \in [WP -> Tag] /\ bi_tag_reg \in Tag
  BY DEF TypeInv, TypeOK
<1>2. CASE \A j \in Index : tag_ram'[j].way = tag_ram[j].way
  BY <1>2
<1>3. ASSUME NEW w \in WP, wp_state[w] \in {"write_tag1_and_bank", "write_tag1"},
             WritesWay(wp_in[w].adr, [wp_tag_reg[w] EXCEPT !.dirty = TRUE])
      PROVE  /\ tag_ram'[i].way[v].valid = tag_ram[i].way[v].valid
             /\ tag_ram'[i].way[v].tadr = tag_ram[i].way[v].tadr
  <2>1. /\ wp_tag_reg[w].valid /\ wp_tag_reg[w].tadr = GetTagOfAdr(wp_in[w].adr)
        /\ HoldsLine(wp_in[w].adr, wp_tag_reg[w].way)
    BY <1>3 DEF TagsInv, TagsKnown, WpHasTag
  <2>2. wp_tag_reg[w] \in Tag
    BY <1>1
  <2>3. tag_ram'[i].way =
          IF i = GetIndexOfAdr(wp_in[w].adr)
          THEN [tag_ram[i].way EXCEPT ![wp_tag_reg[w].way] =
                 [valid |-> wp_tag_reg[w].valid, dirty |-> TRUE,
                  tadr |-> wp_tag_reg[w].tadr]]
          ELSE tag_ram[i].way
    BY <1>3, <2>2 DEF WritesWay, Tag
  <2>4. wp_tag_reg[w].valid = TRUE
    BY <2>1, <2>2 DEF Tag
  <2>5. CASE i = GetIndexOfAdr(wp_in[w].adr) /\ v = wp_tag_reg[w].way
    <3>1. tag_ram[i].way[v] \in [valid : BOOLEAN, dirty : BOOLEAN, tadr : TagAdr]
      BY <1>1
    <3>2. tag_ram[i].way[v].valid = TRUE /\ tag_ram[i].way[v].tadr = wp_tag_reg[w].tadr
      BY <2>1, <2>5, <3>1 DEF HoldsLine, TagEntry
    <3>3. tag_ram'[i].way[v] = [valid |-> wp_tag_reg[w].valid, dirty |-> TRUE,
                                tadr |-> wp_tag_reg[w].tadr]
      BY <1>1, <2>3, <2>5
    <3>4. /\ tag_ram'[i].way[v].valid = wp_tag_reg[w].valid
          /\ tag_ram'[i].way[v].tadr = wp_tag_reg[w].tadr
      BY <3>3
    <3> QED BY <2>4, <3>2, <3>4
  <2>6. CASE ~(i = GetIndexOfAdr(wp_in[w].adr) /\ v = wp_tag_reg[w].way)
    BY <1>1, <2>3, <2>6
  <2> QED BY <2>5, <2>6
<1>4. ASSUME bi_state \in BusIfTagWrite1, WritesWay(adr_reg, bi_tag_out)
      PROVE  /\ tag_ram'[i].way[v].valid = tag_ram[i].way[v].valid
             /\ tag_ram'[i].way[v].tadr = tag_ram[i].way[v].tadr
  <2>1. bi_tag_out.way = bi_tag_reg.way
    BY <1>1, <1>4 DEF bi_tag_out, new_tag, Tag, BusIfTagWrite1
  <2> QED BY <1>1, <1>4, <2>1 DEF WritesWay
<1> QED BY <1>2, <1>3, <1>4, TagRamChange

LEMMA TagsInvNext ==
  ASSUME TypeInv, TagRamInv, LockInv, TagsInv, Next
  PROVE  TagsInv'
<1> DEFINE in == BusIfLines
<1>1. BusIfEdge(in) /\ BusIfType /\ BusIfJob
  BY NextParts, BusIfOfType DEF BusIfLines, TypeInv
<1>2. in.tag = tag_out[CPU_CORES - 1] /\ (in.gnt_tagr <=> IDX_BUSIF \in gnt_tagr)
  BY DEF BusIfLines, BusIfInputs
<1>3. bi_tag_reg \in Tag /\ adr_reg \in Nat /\ GetIndexOfAdr(adr_reg) \in Index
  BY <1>1, BusAddress, AdrParts DEF BusIfType
<1>4. tag_ram \in [Index -> Entry]
  BY DEF TypeInv, TypeOK, Entry
<1>5. OneWayPerLine'
  <2> SUFFICES ASSUME NEW i \in Index, NEW v \in Way, NEW w \in Way,
                      tag_ram'[i].way[v].valid, tag_ram'[i].way[w].valid,
                      tag_ram'[i].way[v].tadr = tag_ram'[i].way[w].tadr, v # w
               PROVE  FALSE
    BY DEF OneWayPerLine
  <2>1. CASE bi_state \in BusIfTagWrite1 /\ i = GetIndexOfAdr(adr_reg)
               /\ bi_tag_reg.way \in {v, w}
    <3>1. PICK u \in {v, w} : u # bi_tag_reg.way
      OBVIOUS
    <3>2. /\ tag_ram'[i].way[u].valid = tag_ram[i].way[u].valid
          /\ tag_ram'[i].way[u].tadr = tag_ram[i].way[u].tadr
      BY <3>1, LinesHeld
    <3>3. LOCK_BUSIF \in NextTagW
      BY <2>1, TagGrants DEF TagRamInv, req_tagw, bi_req_tagw, BusIfTagWrite1
    <3>4. WritesWay(adr_reg, bi_tag_out)
      BY <2>1, <3>3, TagRamChange, TagGrants, PortNumbers
    <3>5. /\ tag_ram'[i].way[bi_tag_reg.way].valid => bi_state = "tagw1"
          /\ bi_state = "tagw1" =>
               tag_ram'[i].way[bi_tag_reg.way].tadr = GetTagOfAdr(adr_reg)
      <4>0. /\ tag_ram[i].way \in [Way -> [valid : BOOLEAN, dirty : BOOLEAN, tadr : TagAdr]]
            /\ bi_tag_reg.way \in Way
        BY <1>3, <1>4 DEF Entry, Tag
      <4>1. tag_ram'[i].way = [tag_ram[i].way EXCEPT ![bi_tag_out.way] =
              [valid |-> bi_tag_out.valid, dirty |-> bi_tag_out.dirty,
               tadr |-> bi_tag_out.tadr]]
        BY <2>1, <3>4 DEF WritesWay
      <4>2. CASE bi_state = "tagw_inv1"
        <5>1. bi_tag_out = [bi_tag_reg EXCEPT !.valid = FALSE]
          BY <4>2 DEF bi_tag_out
        <5>2. bi_tag_out.way = bi_tag_reg.way /\ bi_tag_out.valid = FALSE
          BY <1>3, <5>1 DEF Tag
        <5>3. tag_ram'[i].way[bi_tag_reg.way].valid = FALSE
          BY <4>0, <4>1, <5>2
        <5> QED BY <4>2, <5>3
      <4>3. CASE bi_state = "tagw1"
        <5>1. bi_tag_out = new_tag
          BY <4>3 DEF bi_tag_out
        <5>2. new_tag.way = bi_tag_reg.way /\ new_tag.tadr = GetTagOfAdr(adr_reg)
          BY DEF new_tag
        <5>3. tag_ram'[i].way[bi_tag_reg.way].tadr = GetTagOfAdr(adr_reg)
          BY <4>0, <4>1, <5>1, <5>2
        <5> QED BY <4>3, <5>3
      <4> QED BY <2>1, <4>2, <4>3 DEF BusIfTagWrite1
    <3>6. HoldsLine(adr_reg, u)
      BY <2>1, <3>1, <3>2, <3>5 DEF HoldsLine, TagEntry
    <3> QED BY <2>1, <3>1, <3>6 DEF TagsInv, TagsKnown, BusIfHasTag, BusIfTagWrite1
  <2>2. CASE ~(bi_state \in BusIfTagWrite1 /\ i = GetIndexOfAdr(adr_reg)
               /\ bi_tag_reg.way \in {v, w})
    BY <2>2, LinesHeld DEF TagsInv, OneWayPerLine
  <2> QED BY <2>1, <2>2
<1>6. \A c \in CPU : \A m, n \in tagr_reg' \cap TagPort(c) : m = n
  BY NextParts, TagPortReaders DEF TagsInv, TypeInv, TypeOK
<1>7. ASSUME NEW w \in WP, wp_state'[w] \in WpReadsTag, tag_out'[w].valid
      PROVE  /\ tag_out'[w].tadr = GetTagOfAdr(wp_in'[w].adr)
             /\ HoldsLine(wp_in[w].adr, tag_out[w].way)'
  <2>1. IDX_WP(w) \in gnt_tagr /\ wp_in'[w] = wp_in[w]
    BY <1>7, WpTagMoves
  <2>2. /\ \A i \in Index : tag_ram'[i].way = tag_ram[i].way
        /\ tag_out'[w] = ReadTag(TagEntry(wp_in[w].adr), wp_in[w].adr)
    BY <2>1, TagRead DEF TagsInv
  <2>3. wp_in[w].adr \in Nat /\ GetIndexOfAdr(wp_in[w].adr) \in Index
    BY WriteRequests, AdrParts
  <2>4. /\ tag_out'[w].tadr = GetTagOfAdr(wp_in[w].adr)
        /\ HoldsLine(wp_in[w].adr, tag_out'[w].way)
    BY <1>7, <2>2, <2>3, ReadTagHit DEF TagsInv
  <2> QED BY <2>1, <2>2, <2>3, <2>4 DEF HoldsLine, TagEntry
<1>8. ASSUME NEW w \in WP, wp_state'[w] \in WpHasTag
      PROVE  /\ wp_tag_reg'[w].valid /\ wp_tag_reg'[w].tadr = GetTagOfAdr(wp_in'[w].adr)
             /\ HoldsLine(wp_in[w].adr, wp_tag_reg[w].way)'
  <2>1. /\ wp_in'[w] = wp_in[w]
        /\ wp_state[w] \in (WpReadsTag \cup WpHasTag) \ {"write_tag2"}
    BY <1>8, WpTagMoves DEF WpReadsTag
  <2>2. /\ wp_tag_reg'[w].valid /\ wp_tag_reg'[w].tadr = GetTagOfAdr(wp_in[w].adr)
        /\ HoldsLine(wp_in[w].adr, wp_tag_reg'[w].way)
    BY <1>8, WpTagMoves DEF TagsInv, TagsKnown
  <2>3. wp_tag_reg'[w].way \in Way /\ GetIndexOfAdr(wp_in[w].adr) \in Index
    BY TypeInvNext, WriteRequests, AdrParts DEF TypeInv, TypeOK, Tag
  <2>4. bi_state \in BusIfTagWrite1 => GetIndexOfAdr(wp_in[w].adr) # GetIndexOfAdr(adr_reg)
    BY <2>1, TagWritesApart
  <2>5. HoldsLine(wp_in[w].adr, wp_tag_reg[w].way)'
    BY <2>1, <2>2, <2>3, <2>4, LinesHeld DEF HoldsLine, TagEntry
  <2> QED BY <2>1, <2>2, <2>5
<1>9. ASSUME bi_state' = "tagr2", NEW v \in Way, HoldsLine(adr_reg, v)'
      PROVE  v = tag_out'[CPU_CORES - 1].way
  <2>1. IDX_BUSIF \in gnt_tagr /\ adr_reg' = adr_reg
    <3> HIDE DEF in
    <3> QED BY <1>1, <1>2, <1>9, BusIfTagMoves
  <2>2. /\ \A i \in Index : tag_ram'[i].way = tag_ram[i].way
        /\ tag_out'[CPU_CORES - 1] = ReadTag(TagEntry(adr_reg), adr_reg)
    BY <2>1, TagRead DEF TagsInv
  <2>3. HoldsLine(adr_reg, v)
    BY <1>3, <1>9, <2>1, <2>2 DEF HoldsLine, TagEntry
  <2> QED BY <1>3, <2>2, <2>3, ReadTagHit DEF TagsInv
<1>10. ASSUME bi_state' \in BusIfHasTag, NEW v \in Way, HoldsLine(adr_reg, v)'
       PROVE  v = bi_tag_reg'.way
  <2>1. /\ GetIndexOfAdr(adr_reg') = GetIndexOfAdr(adr_reg)
        /\ GetTagOfAdr(adr_reg') = GetTagOfAdr(adr_reg)
        /\ \/ bi_state = "tagr2" /\ bi_tag_reg' = tag_out[CPU_CORES - 1]
           \/ bi_state \in BusIfHasTag /\ bi_tag_reg' = bi_tag_reg
    <3> HIDE DEF in
    <3> QED BY <1>1, <1>2, <1>10, BusIfTagMoves
  <2>2. CASE bi_state \in BusIfTagWrite1 /\ v = bi_tag_reg.way
    BY <2>1, <2>2 DEF BusIfTagWrite1
  <2>3. CASE ~(bi_state \in BusIfTagWrite1 /\ v = bi_tag_reg.way)
    <3>1. HoldsLine(adr_reg, v)
      BY <1>3, <1>10, <2>1, <2>3, LinesHeld DEF HoldsLine, TagEntry
    <3> QED BY <2>1, <3>1 DEF TagsInv, TagsKnown
  <2> QED BY <2>2, <2>3
<1> QED BY <1>5, <1>6, <1>7, <1>8, <1>9, <1>10 DEF TagsInv, TagsKnown

-----------------------------------------------------------------------------
(* The invariant of the accesses.                                          *)

LEMMA AccessInit ==
  ASSUME Init
  PROVE  TagRamInv /\ LockInv
<1>1. \A w \in WP : wp_state[w] = "init" /\ wp_in[w] = NoWrite
  BY DEF Init, WritePortInit
<1>2. /\ tagw_reg = {} /\ tagr_reg = {} /\ linelock_reg = {} /\ tag_busy = FALSE
      /\ bi_state = "idle" /\ bi_op = "nothing"
  BY DEF Init, TagRamInit, BusIfInit
<1>3. TagRamInv
  BY <1>1, <1>2 DEF TagRamInv, WritesTag, BusIfTagWrite1, BusIfTagWrite2
<1>4. LockInv
  BY <1>1, <1>2 DEF LockInv, NoWrite, SpecialOp, WpUsesLine, WpReplaces, BusIfUsesLine, LineOp
<1> QED BY <1>3, <1>4

LEMMA AccessStutter ==
  ASSUME UNCHANGED vars
  PROVE  /\ TagRamInv => TagRamInv'
         /\ LockInv => LockInv'
<1>1. UNCHANGED <<wp_state, wp_in, link_valid_reg, bi_state, bi_op, nolinelock_reg,
                  adr_reg, tag_busy, tagram_ready, tagw_reg, tagr_reg, linelock_reg,
                  busif_reg>>
  BY DEF vars, tagRamVars, busIfVars, opVars, idataVars, writePortVars, arbiterVars,
         cpuVars
<1>2. TagRamInv => TagRamInv'
  BY <1>1 DEF TagRamInv, WritesTag
<1>3. LockInv => LockInv'
  BY <1>1 DEF LockInv, WpReplaces, WpReqLineLock, LastAccess, NewCached, NewSpecial,
              Initial, WpWrites, WpDirect, FailedSC, bi_req_linelock, lock_idx,
              busif_adr_out
<1> QED BY <1>2, <1>3

LEMMA TagRamInvariant == Spec => [](TypeInv /\ TagRamInv)
<1>1. Init => TypeInv /\ TagRamInv
  BY TypeInvInit, AccessInit
<1>2. TypeInv /\ TagRamInv /\ [Next]_vars => (TypeInv /\ TagRamInv)'
  BY TypeInvNext, TypeInvStutter, TagRamInvNext, AccessStutter
<1> QED BY <1>1, <1>2, PTL DEF Spec

\* The assertion "multiple tag write signals asserted" of MTagRam::MainThread holds,
\* and nobody reads the tag RAM in the clock in which it serves nobody, in every
\* configuration and with every workload, cache control included.
THEOREM TagRamUseTheorem == Spec => []TagRamUse
<1>1. TypeInv /\ TagRamInv => TagRamUse
  BY TagRamUsed
<1> QED BY <1>1, TagRamInvariant, PTL

LEMMA LockInvariant == ASSUME NoCacheControl PROVE Spec => [](TypeInv /\ LockInv)
<1>1. Init => TypeInv /\ LockInv
  BY TypeInvInit, AccessInit
<1>2. TypeInv /\ LockInv /\ [Next]_vars => (TypeInv /\ LockInv)'
  BY NoCacheControl, TypeInvNext, TypeInvStutter, LockInvNext, AccessStutter
<1> QED BY <1>1, <1>2, PTL DEF Spec

\* "Writers are supposed to acquire a line lock" (memu.h): as long as no CPU uses
\* cache control, which memu.h marks as not implemented, whoever works on a tag, a
\* line or a bank holds the locks that keep the others off it, in every configuration
\* of CPUs, banks, sets, ways and RAM ports.
THEOREM AccessesLockedTheorem ==
  ASSUME NoCacheControl
  PROVE  Spec => []AccessesLocked
<1>1. TypeInv /\ TagRamInv /\ LockInv => AccessesLocked
  BY TagRamUsed, LocksHeld DEF AccessesLocked, TypeInv
<1>2. Spec => [](TypeInv /\ LockInv)
  BY NoCacheControl, LockInvariant
<1> QED BY <1>1, <1>2, TagRamInvariant, PTL

-----------------------------------------------------------------------------
(* Links.                                                                  *)

\* A port that works on its line in the next clock holds the lock, and it is the only
\* one that SnoopMethod does not tell to give up its link.
LEMMA WorkerNotSnooped ==
  ASSUME NoCacheControl, TypeInv, LockInv, Next, NEW w \in WP, wp_state'[w] \in WpUsesLine
  PROVE  w \notin SnoopStrobe(NextLocks)
<1>1. w \in NextLocks
  <2>1. LockInv'
    BY NoCacheControl, LockInvNext
  <2>2. linelock_reg' = NextLocks
    BY NextParts
  <2> QED BY <2>1, <2>2 DEF LockInv
<1>2. w # LOCK_BUSIF
  BY PortNumbers
<1>3. w \in SnoopWriters(NextLocks) /\ \A v \in SnoopWriters(NextLocks) : v = w
  BY <1>1, <1>2, LocksExclusive DEF SnoopWriters
<1> DEFINE writers == SnoopWriters(NextLocks)
<1> HIDE DEF writers
<1>4. (CHOOSE v \in writers : TRUE) = w
  BY <1>3 DEF writers
<1> QED BY <1>4 DEF SnoopStrobe, writers

LEMMA LinkKept ==
  ASSUME NoCacheControl, TypeInv, LockInv, Next, NEW w \in WP,
         link_valid_reg[w], wp_state'[w] \in WpUsesLine
  PROVE  link_valid_reg'[w]
<1>1. link_valid_reg'[w] = NextLink(w, SnoopStrobe(NextLocks), SnoopAdr(NextLocks)).valid
  BY NextParts DEF WritePortEdge
<1>2. w \notin SnoopStrobe(NextLocks)
  BY WorkerNotSnooped
<1>3. NextLink(w, SnoopStrobe(NextLocks), SnoopAdr(NextLocks)).valid
  BY <1>2 DEF NextLink
<1> QED BY <1>1, <1>3

\* Nobody breaks the link of a port that works on its line, so that a store conditional
\* which finds its line reports at the end what was checked when it began, in every
\* configuration and with every workload without cache control.
THEOREM LinkKeptTheorem ==
  ASSUME NoCacheControl
  PROVE  Spec => LinkKeptUnderLock
<1>1. ASSUME TypeInv, LockInv, [Next]_vars
      PROVE  [\A w \in WP : link_valid_reg[w] /\ wp_state'[w] \in WpUsesLine
                            => link_valid_reg'[w]]_vars
  BY <1>1, NoCacheControl, LinkKept
<1>2. Spec => [](TypeInv /\ LockInv)
  BY NoCacheControl, LockInvariant
<1> QED BY <1>1, <1>2, PTL DEF Spec, LinkKeptUnderLock

LEMMA TagsInit ==
  ASSUME Init
  PROVE  TagsInv
<1>1. /\ \A i \in Index : \A v \in Way : ~tag_ram[i].way[v].valid
      /\ tagr_reg = {} /\ bi_state = "idle"
      /\ \A w \in WP : wp_state[w] = "init"
  BY DEF Init, TagRamInit, BusIfInit, WritePortInit
<1> QED BY <1>1 DEF TagsInv, OneWayPerLine, TagsKnown, WpReadsTag, WpHasTag, BusIfHasTag

LEMMA TagsStutter ==
  ASSUME TagsInv, UNCHANGED vars
  PROVE  TagsInv'
<1>1. UNCHANGED <<tag_ram, tag_out, tagr_reg, wp_state, wp_in, wp_tag_reg, bi_state,
                  adr_reg, bi_tag_reg>>
  BY DEF vars, tagRamVars, busIfVars, opVars, idataVars, writePortVars, arbiterVars,
         cpuVars
<1> QED BY <1>1 DEF TagsInv, OneWayPerLine, TagsKnown, HoldsLine, TagEntry

LEMMA TagsInvariant ==
  ASSUME NoCacheControl
  PROVE  Spec => [](TypeInv /\ TagRamInv /\ LockInv /\ TagsInv)
<1> DEFINE IInv == TypeInv /\ TagRamInv /\ LockInv /\ TagsInv
<1>1. Init => IInv
  BY TypeInvInit, AccessInit, TagsInit
<1>2. ASSUME IInv, [Next]_vars PROVE IInv'
  <2>1. CASE Next
    BY <1>2, <2>1, NoCacheControl, TypeInvNext, TagRamInvNext, LockInvNext, TagsInvNext
  <2>2. CASE UNCHANGED vars
    BY <1>2, <2>2, TypeInvStutter, AccessStutter, TagsStutter
  <2> QED BY <1>2, <2>1, <2>2
<1> QED BY <1>1, <1>2, PTL DEF Spec

\* The assertion "same data stored in two ways" of MTagRam::MainThread holds: as
\* long as no CPU uses cache control, no line is ever in two ways of a set, however
\* the misses, replacements and stores of the ports interleave.
THEOREM OneWayTheorem ==
  ASSUME NoCacheControl
  PROVE  Spec => []OneWayPerLine
<1>1. TagsInv => OneWayPerLine
  BY DEF TagsInv
<1> QED BY <1>1, NoCacheControl, TagsInvariant, PTL

-----------------------------------------------------------------------------
(* The ports that use the bus interface.                                   *)

AccessInv == TypeInv /\ TagRamInv /\ LockInv /\ TagsInv

\* The states of the bus interface after a line has been fetched.
BusIfFetched == {"read_bank", "tagw_inv_req", "tagw_inv1", "tagw_inv2", "write_bank",
                 "tagw_req", "tagw1", "tagw2", "wb_start", "writeback"}

\* The bus interface replaces for read port p, and has not yet forwarded its word
\* or does so in this cycle.
ReplacesFor(p) ==
  /\ bi_op = "replace" /\ adr_reg = rp_adr[p]
  /\ \/ bi_state \in {"start", "linelock", "tagr", "tagr2", "tag_done"}
     \/ bi_state = "fetch" /\ idata_valid_reg = {}
     \/ GetBankOfAdr(adr_reg) \in idata_valid_reg

\* One port has the bus interface, and while a port checks for a miss again under
\* that grant the bus interface does nothing else.
RequestersInv ==
  /\ \A m, n \in busif_reg : m = n
  /\ idata_valid_reg # {} => bi_state \in {"dread_ack", "fetch"} \cup BusIfFetched
  /\ bi_state = "dread_ack" => idata_valid_reg = {GetBankOfAdr(adr_reg)}
  /\ bi_state = "fetch" => (idata_valid_reg = {} <=> bi_count = CACHE_BANKS)
  /\ \A p \in RP : rp_state[p] \in {"miss_request_tag", "miss_read_tag"} =>
       p \in busif_reg /\ ~busif_busy
  /\ \A p \in RP : rp_state[p] = "miss_replace" =>
       p \in busif_reg /\ (busif_busy => ReplacesFor(p))
  /\ \A w \in WP : wp_state[w] \in {"recheck", "recheck_read_tag"} => ~busif_busy
  /\ \A w \in WP : wp_state[w] = "direct" => busif_busy

\* One port is granted the bus interface, and keeps the grant.
LEMMA BusIfGrants ==
  ASSUME TypeInv, RequestersInv
  PROVE  /\ \A m, n \in gnt_busif : m = n
         /\ busif_reg \cap req_busif \subseteq gnt_busif
         /\ gnt_busif \subseteq req_busif
<1> DEFINE prio == GetPrioCpu
<1>1. prio \in CPU
  BY PrioType DEF TypeInv
<1>2. gnt_busif = BusIfGrant(busif_reg, req_busif, prio)
  BY DEF gnt_busif
<1> HIDE DEF prio
<1> QED BY <1>1, <1>2, BusIfGrantShape DEF RequestersInv

\* The bus interface is driven by the port it is granted to.
LEMMA RequesterPort ==
  ASSUME TypeInv, RequestersInv
  PROVE  /\ \A p \in RP \cap gnt_busif :
              LET r == Requester(gnt_busif)
              IN  /\ r.op = RpBusIfOp(p) /\ r.adr = rp_adr[p] /\ r.nolinelock = FALSE
         /\ \A w \in WP : IDX_WP(w) \in gnt_busif =>
              LET r == Requester(gnt_busif)
              IN  /\ r.op = WpBusIfOp(w) /\ r.adr = wp_in[w].adr /\ r.nolinelock = TRUE
                  /\ r.bsel = wp_in[w].bsel
                  /\ r.data = [b \in Bank |-> wp_in[w].data]
<1> DEFINE c == CHOOSE n \in gnt_busif : TRUE
<1>1. ASSUME NEW n \in gnt_busif PROVE c = n
  <2>1. c \in gnt_busif
    BY <1>1
  <2> HIDE DEF c
  <2> QED BY <2>1, BusIfGrants
<1>2. ASSUME NEW p \in RP \cap gnt_busif
      PROVE LET r == Requester(gnt_busif)
            IN  /\ r.op = RpBusIfOp(p) /\ r.adr = rp_adr[p] /\ r.nolinelock = FALSE
  <2>1. c = p /\ p < RPORTS /\ gnt_busif # {}
    BY <1>1, <1>2, PortNumbers DEF RP
  <2> QED BY <2>1 DEF Requester
<1>3. ASSUME NEW w \in WP, IDX_WP(w) \in gnt_busif
      PROVE  LET r == Requester(gnt_busif)
             IN  /\ r.op = WpBusIfOp(w) /\ r.adr = wp_in[w].adr /\ r.nolinelock = TRUE
                 /\ r.bsel = wp_in[w].bsel
                 /\ r.data = [b \in Bank |-> wp_in[w].data]
  <2>1. c = IDX_WP(w) /\ gnt_busif # {}
    BY <1>1, <1>3
  <2>2. ~(c < RPORTS) /\ c - RPORTS = w
    <3>1. RPORTS \in Nat /\ w \in Nat /\ IDX_WP(w) = RPORTS + w
      BY PortNumbers DEF IDX_WP, WP
    <3> HIDE DEF c
    <3> QED BY <2>1, <3>1
  <2> QED BY <2>1, <2>2 DEF Requester
<1> QED BY <1>2, <1>3

\* An idle bus interface takes the operation of that port.
LEMMA BusIfAccepts ==
  ASSUME TypeInv, Next, ~busif_busy
  PROVE  LET r == Requester(gnt_busif)
         IN  /\ r.op = "nothing" => ~busif_busy' /\ adr_reg' = adr_reg
             /\ r.op # "nothing" =>
                  /\ bi_op' = r.op /\ bi_state' = "start" /\ adr_reg' = r.adr
                  /\ nolinelock_reg' = r.nolinelock /\ bsel_reg' = r.bsel
                  /\ odata_reg' = r.data
             /\ UNCHANGED <<idata_reg, idata_valid_reg>>
<1> DEFINE in == BusIfLines
<1>1. BusIfEdge(in) /\ bi_op = "nothing" /\ bi_state \in {"idle", "ack"}
  BY NextParts DEF BusIfLines, TypeInv, BusIfJob, busif_busy
<1>2. /\ in.op = Requester(gnt_busif).op /\ in.adr = Requester(gnt_busif).adr
      /\ in.nolinelock = Requester(gnt_busif).nolinelock
      /\ in.bsel = Requester(gnt_busif).bsel /\ in.data = Requester(gnt_busif).data
  BY DEF BusIfLines, BusIfInputs
<1> HIDE DEF in
<1>3. Idle(in) \/ Unlock(in)
  BY <1>1 DEF BusIfEdge, Start, DirectRead, DirectReadDone, DirectWrite, GotLineLock,
     GotTagR, CaptureTag, Dispatch, Fetch, ReadBank, GotTagWInv, WriteInvalidTag,
     InvalidTagDone, WriteBank, GotTagW, WriteNewTag, NewTagDone, StartWriteBack,
     WriteBack, Waiting
<1>4. AcceptNewOp(in) /\ UNCHANGED <<idata_reg, idata_valid_reg>>
  BY <1>3 DEF Idle, Unlock
<1> QED BY <1>1, <1>2, <1>4 DEF AcceptNewOp, Goto, opVars, busif_busy

\* What a read port does with the bus interface and the tag RAM.
LEMMA RpMoves ==
  ASSUME TypeInv, Next, NEW p \in RP
  PROVE  /\ rp_state'[p] \in {"miss_request_tag", "miss_read_tag"} =>
              \/ rp_state[p] = "miss_wait_busif" /\ p \in gnt_busif /\ ~busif_busy
              \/ rp_state[p] \in {"miss_request_tag", "miss_read_tag"}
         /\ rp_state'[p] = "miss_replace" =>
              \/ rp_state[p] = "miss_read_tag" /\ ~rp_tag_in(p).valid
              \/ rp_state[p] = "miss_replace" /\ p \notin busif_hit
         /\ rp_state'[p] \in {"read_tag", "miss_read_tag"} =>
              \/ p \in gnt_tagr
              \/ rp_state[p] \in {"read_tag", "miss_read_tag"}
         /\ rp_state'[p] \in CachedRead => rp_adr'[p] = rp_adr[p]
<1> DEFINE tag == rp_tag_in(p)
           tagr == p \in gnt_tagr
           bank == p \in RpBanks(gnt_bank)
           busif == p \in gnt_busif
<1>1. rp_state'[p] = RpNextState(p, busif_hit, tag, tagr, bank, busif, busif_busy)
  BY NextParts DEF ReadPortEdge, rp_tag_in
<1>2. rp_state[p] \in ReadPortState
  BY DEF TypeInv, TypeOK
<1>3. ASSUME rp_state'[p] \in CachedRead PROVE rp_adr'[p] = rp_adr[p]
  <2>1. p \in rp_rd /\ p \notin rp_ack(gnt_bank)
    BY <1>3, ReadAcknowledged DEF CachedRead
  <2> QED BY <2>1, ReadRequestsHeld
<1> HIDE DEF tag, tagr, bank, busif
<1>4. /\ rp_state'[p] \in {"miss_request_tag", "miss_read_tag"} =>
           \/ rp_state[p] = "miss_wait_busif" /\ busif /\ ~busif_busy
           \/ rp_state[p] \in {"miss_request_tag", "miss_read_tag"}
      /\ rp_state'[p] = "miss_replace" =>
           \/ rp_state[p] = "miss_read_tag" /\ ~tag.valid
           \/ rp_state[p] = "miss_replace" /\ p \notin busif_hit
      /\ rp_state'[p] \in {"read_tag", "miss_read_tag"} =>
           tagr \/ rp_state[p] \in {"read_tag", "miss_read_tag"}
  BY <1>1, <1>2 DEF RpNextState, NextInit, NextReadTag, NextMissWait, ReadPortState
<1> QED BY <1>3, <1>4 DEF tag, tagr, busif

\* A fetch starts with the word that was asked for.
LEMMA FirstWord ==
  ASSUME BusIfType, BusIfJob, bi_state = "fetch", bi_count = CACHE_BANKS
  PROVE  wb_adr_o = adr_reg /\ wb_bank = GetBankOfAdr(adr_reg)
<1>1. adr_reg \in LineAdr
  BY DEF BusIfJob, LineState, BusIfState
<1>2. PICK d \in CachedAdr : adr_reg \in LineOf(d)
  BY <1>1 DEF LineAdr
<1>3. PICK b \in Bank : adr_reg = ComposeAdress(GetTagOfAdr(d), GetIndexOfAdr(d), b)
  BY <1>2 DEF LineOf
<1>4. d \in Nat /\ GetTagOfAdr(d) \in Nat /\ GetIndexOfAdr(d) \in Index
  BY AdrParts, DataAssumption
<1>5. adr_reg \in Nat /\ adr_reg % 4 = 0
  BY <1>3, <1>4, ComposeParts
<1>6. wb_bank = GetBankOfAdr(adr_reg)
  <2>1. GetBankOfAdr(adr_reg) \in 0 .. CACHE_BANKS - 1 /\ CACHE_BANKS \in Nat \ {0}
    BY <1>5, AdrParts, ConfigAssumption DEF Bank
  <2> QED BY <2>1 DEF wb_bank, adrOfs
<1> QED BY <1>5, <1>6, ComposeOfParts DEF wb_adr_o

\* What the bus interface does for a read port that waits for its word.
LEMMA BusIfForwards ==
  ASSUME BusIfType, BusIfJob, RequestersInv, NEW in, BusIfEdge(in)
  PROVE  /\ idata_valid_reg' # {} => bi_state' \in {"dread_ack", "fetch"} \cup BusIfFetched
         /\ bi_state' = "dread_ack" => idata_valid_reg' = {GetBankOfAdr(adr_reg')}
         /\ bi_state' = "fetch" => (idata_valid_reg' = {} <=> bi_count' = CACHE_BANKS)
         /\ /\ bi_op = "replace"
            /\ \/ bi_state \in {"start", "linelock", "tagr", "tagr2", "tag_done"}
               \/ bi_state = "fetch" /\ idata_valid_reg = {}
            => /\ bi_op' = "replace" /\ adr_reg' = adr_reg
               /\ \/ bi_state' \in {"start", "linelock", "tagr", "tagr2", "tag_done"}
                  \/ bi_state' = "fetch" /\ idata_valid_reg' = {}
                  \/ GetBankOfAdr(adr_reg') \in idata_valid_reg'
<1> USE DEF Goto, opVars, idataVars, bankVars, BusIfFetched
<1>0. /\ bi_state \in BusIfState
      /\ idata_valid_reg # {} => bi_state \in {"dread_ack", "fetch"} \cup BusIfFetched
      /\ bi_state = "dread_ack" => idata_valid_reg = {GetBankOfAdr(adr_reg)}
      /\ bi_state = "fetch" => (idata_valid_reg = {} <=> bi_count = CACHE_BANKS)
      /\ bi_state \in {"dread", "dread_ack"} => bi_op = "direct_read"
      /\ bi_state \in {"idle", "ack"} => bi_op = "nothing"
  BY DEF BusIfType, RequestersInv, BusIfJob
<1>1. CASE Idle(in) \/ Unlock(in)
  BY <1>0, <1>1 DEF Idle, Unlock, AcceptNewOp
<1>2. CASE Start
  BY <1>0, <1>2 DEF Start
<1>3. CASE DirectRead(in) \/ DirectWrite(in)
  BY <1>0, <1>3 DEF DirectRead, DirectWrite
<1>4. CASE DirectReadDone
  BY <1>0, <1>4 DEF DirectReadDone
<1>5. CASE GotLineLock(in) \/ GotTagR(in) \/ CaptureTag(in)
  BY <1>0, <1>5 DEF GotLineLock, GotTagR, CaptureTag
<1>6. CASE Dispatch
  BY <1>0, <1>6 DEF Dispatch, GotoAfterFetch, SaveOldLine, AfterSave
<1>7. CASE Fetch(in)
  <2>1. /\ bi_state = "fetch" /\ wb_bank \in Bank
        /\ bi_count \in 1 .. CACHE_BANKS /\ CACHE_BANKS \in Nat
    BY <1>7, BusAddress, ConfigAssumption DEF Fetch, BusIfType, BusIfJob
  <2>2. bi_count = CACHE_BANKS => wb_adr_o = adr_reg /\ wb_bank = GetBankOfAdr(adr_reg)
    BY <2>1, FirstWord
  <2>3. /\ bi_state' \in {"fetch"} \cup BusIfFetched /\ bi_op' = bi_op
        /\ idata_valid_reg' = idata_valid_reg \cup {wb_bank} /\ adr_reg' = wb_adr_o
        /\ bi_count' = bi_count - 1
    BY <1>7 DEF Fetch, GotoAfterFetch, SaveOldLine, AfterSave
  <2> QED BY <1>0, <2>1, <2>2, <2>3
<1>8. CASE ReadBank(in)
  BY <1>0, <1>8 DEF ReadBank, AfterSave
<1>9. CASE GotTagWInv(in) \/ WriteInvalidTag \/ InvalidTagDone
  BY <1>0, <1>9 DEF GotTagWInv, WriteInvalidTag, InvalidTagDone
<1>10. CASE WriteBank(in)
  BY <1>0, <1>10 DEF WriteBank
<1>11. CASE GotTagW(in) \/ WriteNewTag
  BY <1>0, <1>11 DEF GotTagW, WriteNewTag
<1>12. CASE NewTagDone
  BY <1>0, <1>12 DEF NewTagDone, Acknowledge
<1>13. CASE StartWriteBack \/ WriteBack(in)
  BY <1>0, <1>13 DEF StartWriteBack, WriteBack, Acknowledge
<1>14. CASE Waiting(in)
  BY <1>0, <1>14 DEF Waiting, busIfVars
<1> QED BY BusIfEdge(in), <1>1, <1>2, <1>3, <1>4, <1>5, <1>6, <1>7, <1>8, <1>9,
           <1>10, <1>11, <1>12, <1>13, <1>14 DEF BusIfEdge

\* A port that asks the bus interface for nothing, or for an operation.
LEMMA PortOperations ==
  ASSUME TypeInv
  PROVE  /\ \A p \in RP :
              /\ rp_state[p] \in {"miss_wait_busif", "miss_request_tag", "miss_read_tag"} =>
                   RpBusIfOp(p) = "nothing"
              /\ rp_state[p] = "miss_replace" => RpBusIfOp(p) = "replace"
              /\ rp_state[p] \in {"miss_request_tag", "miss_read_tag", "miss_replace"} =>
                   p \in req_busif
         /\ \A w \in WP :
              /\ wp_state[w] \in {"miss", "recheck", "recheck_read_tag"} =>
                   WpBusIfOp(w) = "nothing"
              /\ NewDirect(w) => WpBusIfOp(w) = "direct_write"
              /\ wp_state[w] = "replace" => WpBusIfOp(w) = "replace"
              /\ wp_state[w] \in {"recheck", "recheck_read_tag", "replace"} =>
                   IDX_WP(w) \in req_busif
BY DEF RpBusIfOp, NewRead, req_busif, RpReqBusIf, WpBusIfOp, WpReqBusIf, NewDirect, Initial

\* A write port goes on with the bus interface when that is free.
LEMMA WpFreeMoves ==
  ASSUME TypeInv, Next, NEW w \in WP
  PROVE  /\ wp_state'[w] \in {"recheck", "recheck_read_tag"} =>
              \/ wp_state[w] = "miss" /\ IDX_WP(w) \in gnt_busif /\ ~busif_busy
              \/ wp_state[w] \in {"recheck", "recheck_read_tag"}
         /\ wp_state'[w] = "direct" =>
              \/ NewDirect(w) /\ IDX_WP(w) \in gnt_busif /\ ~busif_busy
              \/ wp_state[w] = "direct" /\ ~busif_busy
         /\ wp_state'[w] = "replace" =>
              \/ wp_state[w] = "recheck_read_tag" /\ ~tag_out[w].valid
              \/ wp_state[w] = "replace" /\ ~busif_busy
<1> DEFINE g == WpGrant(w)
<1>1. wp_state'[w] = WpNextState(w, tag_out[w], g)
  BY WriteAcknowledged
<1>2. (g.busif <=> IDX_WP(w) \in gnt_busif) /\ (g.busy <=> busif_busy)
  BY DEF WpGrant, WpGrants
<1>3. wp_state[w] \in WritePortState
  BY DEF TypeInv, TypeOK
<1> HIDE DEF g
<1>4. CASE wp_state[w] = "init"
  BY <1>1, <1>2, <1>4 DEF WpNextState, NextFromInit, NextDirect
<1>5. CASE wp_state[w] # "init"
  BY <1>1, <1>2, <1>3, <1>5 DEF WpNextState, NextAfterTag, NextWrite, NextMiss,
                               WritePortState
<1> QED BY <1>4, <1>5

LEMMA RequestersInvNext ==
  ASSUME TypeInv, LockInv, RequestersInv, Next
  PROVE  RequestersInv'
<1> DEFINE in == BusIfLines
           r == Requester(gnt_busif)
<1>1. BusIfEdge(in) /\ BusIfType /\ BusIfJob /\ busif_reg' = gnt_busif
  BY NextParts, BusIfOfType DEF BusIfLines, TypeInv
<1>2. /\ idata_valid_reg' # {} => bi_state' \in {"dread_ack", "fetch"} \cup BusIfFetched
      /\ bi_state' = "dread_ack" => idata_valid_reg' = {GetBankOfAdr(adr_reg')}
      /\ bi_state' = "fetch" => (idata_valid_reg' = {} <=> bi_count' = CACHE_BANKS)
  <2> HIDE DEF in
  <2> QED BY <1>1, BusIfForwards
<1>3. ~busif_busy /\ r.op = "nothing" => ~busif_busy'
  BY BusIfAccepts
<1>4. ASSUME NEW p \in RP, rp_state'[p] \in {"miss_request_tag", "miss_read_tag"}
      PROVE  p \in gnt_busif /\ ~busif_busy'
  <2>1. /\ rp_state[p] \in {"miss_wait_busif", "miss_request_tag", "miss_read_tag"}
        /\ p \in gnt_busif /\ ~busif_busy
    BY <1>4, RpMoves, BusIfGrants, PortOperations DEF RequestersInv
  <2>2. r.op = "nothing"
    BY <2>1, RequesterPort, PortOperations
  <2> QED BY <1>3, <2>1, <2>2
<1>5. ASSUME NEW p \in RP, rp_state'[p] = "miss_replace"
      PROVE  p \in gnt_busif /\ (busif_busy' => ReplacesFor(p)')
  <2>1. rp_adr'[p] = rp_adr[p]
    BY <1>5, RpMoves DEF CachedRead
  <2>2. CASE rp_state[p] = "miss_read_tag"
    <3>1. p \in gnt_busif /\ ~busif_busy
      BY <2>2, BusIfGrants, PortOperations DEF RequestersInv
    <3>2. r.op = "nothing"
      BY <2>2, <3>1, RequesterPort, PortOperations
    <3> QED BY <1>3, <3>1, <3>2
  <2>3. CASE rp_state[p] = "miss_replace" /\ p \notin busif_hit
    <3>1. p \in gnt_busif
      BY <2>3, BusIfGrants, PortOperations DEF RequestersInv
    <3>2. CASE ~busif_busy
      <4>1. r.op = "replace" /\ r.adr = rp_adr[p]
        BY <2>3, <3>1, RequesterPort, PortOperations
      <4>2. bi_op' = "replace" /\ bi_state' = "start" /\ adr_reg' = rp_adr[p]
        BY <3>2, <4>1, BusIfAccepts
      <4> QED BY <2>1, <3>1, <4>2 DEF ReplacesFor
    <3>3. CASE busif_busy
      <4>1. ReplacesFor(p) /\ p \notin busif_hit
        BY <2>3, <3>3 DEF RequestersInv
      <4>2. \/ bi_state \in {"start", "linelock", "tagr", "tagr2", "tag_done"}
            \/ bi_state = "fetch" /\ idata_valid_reg = {}
        BY <4>1 DEF ReplacesFor, busif_hit, BusIfHit, busif_adr_out
      <4>3. bi_op = "replace" /\ adr_reg = rp_adr[p]
        BY <4>1 DEF ReplacesFor
      <4> HIDE DEF in
      <4>4. /\ bi_op' = "replace" /\ adr_reg' = adr_reg
            /\ \/ bi_state' \in {"start", "linelock", "tagr", "tagr2", "tag_done"}
               \/ bi_state' = "fetch" /\ idata_valid_reg' = {}
               \/ GetBankOfAdr(adr_reg') \in idata_valid_reg'
        BY <1>1, <4>2, <4>3, BusIfForwards
      <4>5. ReplacesFor(p)'
        BY <2>1, <4>3, <4>4 DEF ReplacesFor
      <4> QED BY <3>1, <4>5
    <3> QED BY <3>2, <3>3
  <2> QED BY <1>5, <2>2, <2>3, RpMoves
<1>6. ASSUME NEW w \in WP, wp_state'[w] \in {"recheck", "recheck_read_tag"}
      PROVE  ~busif_busy'
  <2>1. CASE wp_state[w] = "miss" /\ IDX_WP(w) \in gnt_busif /\ ~busif_busy
    <3>1. r.op = "nothing"
      BY <2>1, RequesterPort, PortOperations
    <3> QED BY <1>3, <2>1, <3>1
  <2>2. CASE wp_state[w] \in {"recheck", "recheck_read_tag"}
    <3>1. IDX_WP(w) \in gnt_busif /\ ~busif_busy
      BY <2>2, BusIfGrants, PortOperations DEF RequestersInv, LockInv
    <3>2. r.op = "nothing"
      BY <2>2, <3>1, RequesterPort, PortOperations
    <3> QED BY <1>3, <3>1, <3>2
  <2> QED BY <1>6, <2>1, <2>2, WpFreeMoves
<1>7. ASSUME NEW w \in WP, wp_state'[w] = "direct" PROVE busif_busy'
  <2>1. NewDirect(w) /\ IDX_WP(w) \in gnt_busif /\ ~busif_busy
    BY <1>7, WpFreeMoves DEF RequestersInv
  <2>2. r.op = "direct_write"
    BY <2>1, RequesterPort, PortOperations
  <2>3. bi_op' = "direct_write"
    BY <2>1, <2>2, BusIfAccepts
  <2> QED BY <2>3 DEF busif_busy
<1>8. \A m, n \in busif_reg' : m = n
  BY <1>1, BusIfGrants
<1> HIDE DEF r, in
<1> QED BY <1>1, <1>2, <1>4, <1>5, <1>6, <1>7, <1>8 DEF RequestersInv

-----------------------------------------------------------------------------
(* Misses.                                                                 *)

NoWayHolds(adr) == \A v \in Way : ~HoldsLine(adr, v)

\* The states after the tag of the new line has been written.
BusIfNew == {"tagw2", "wb_start", "writeback"}

\* What a read port has read of a tag is true, and a line that is fetched is not in
\* the cache.
MissesInv ==
  /\ tagr_reg # {} => tagram_ready
  /\ \A p \in RP : rp_state[p] \in {"read_tag", "miss_read_tag"} =>
       /\ p \in tagr_reg
       /\ rp_tag_in(p).valid => HoldsLine(rp_adr[p], rp_tag_in(p).way)
       /\ ~rp_tag_in(p).valid => NoWayHolds(rp_adr[p])
  /\ \A p \in RP : rp_state[p] = "miss_replace" /\ ~busif_busy => NoWayHolds(rp_adr[p])
  /\ \A w \in WP :
       \/ wp_state[w] = "recheck_read_tag" /\ ~tag_out[w].valid
       \/ wp_state[w] = "replace" /\ ~busif_busy
       => NoWayHolds(wp_in[w].adr)
  /\ bi_op = "replace" /\ bi_state \notin BusIfNew => NoWayHolds(adr_reg)

\* What a read of a read port returns.
LEMMA RpTagRead ==
  ASSUME TypeInv, TagRamInv, TagsKnown, Next, NEW p \in RP, p \in gnt_tagr
  PROVE  /\ p % CPU_CORES \in CPU
         /\ tag_out'[p % CPU_CORES] = ReadTag(TagEntry(rp_adr[p]), rp_adr[p])
         /\ \A i \in Index : tag_ram'[i].way = tag_ram[i].way
<1> DEFINE c == p % CPU_CORES
           adr == tagram_adr(gnt_tagr, NextTagW)
<1>1. c \in CPU /\ (p = IDX_RP(c) \/ (p = IDX_IP(c) /\ IDX_RP(c) # p))
  <2>1. CPU_CORES \in Nat \ {0} /\ p \in 0 .. 2 * CPU_CORES - 1
    BY ConfigAssumption DEF RP, RPORTS
  <2>2. CASE p < CPU_CORES
    BY <2>1, <2>2 DEF CPU, IDX_RP
  <2>3. CASE ~(p < CPU_CORES)
    <3>1. c = p - CPU_CORES
      BY <2>1, <2>3
    <3> HIDE DEF c
    <3> QED BY <2>1, <2>3, <3>1 DEF CPU, IDX_RP, IDX_IP, WPORTS
  <2> QED BY <2>2, <2>3
<1> HIDE DEF c
<1>2. /\ IDX_RP(c) \in TagPort(c) /\ IDX_IP(c) \in TagPort(c) /\ IDX_WP(c) \in TagPort(c)
      /\ c = CPU_CORES - 1 => IDX_BUSIF \in TagPort(c)
  BY DEF TagPort
<1>3. \A n \in gnt_tagr \cap TagPort(c) : n = p
  <2>1. tagram_ready \in BOOLEAN
    BY DEF TypeInv, TypeOK
  <2> QED BY <1>1, <1>2, <2>1, TagPortReaders
<1>4. IDX_WP(c) # p /\ IDX_BUSIF # p
  BY <1>1, PortNumbers
<1>5. NextTagW = {} /\ ~tag_busy
  BY TagGrants
<1>6. adr[c] = rp_adr[p]
  <2>1. IDX_WP(c) \notin gnt_tagr /\ (c = CPU_CORES - 1 => IDX_BUSIF \notin gnt_tagr)
    BY <1>2, <1>3, <1>4
  <2>2. IDX_RP(c) \in gnt_tagr => IDX_RP(c) = p
    BY <1>2, <1>3
  <2>3. adr[c] = IF IDX_RP(c) \in gnt_tagr THEN rp_adr[IDX_RP(c)]
                 ELSE IF IDX_IP(c) \in gnt_tagr THEN rp_adr[IDX_IP(c)] ELSE DontCare
    BY <1>1, <1>5, <2>1 DEF tagram_adr
  <2> QED BY <1>1, <2>2, <2>3
<1>7. c \in tagram_rd
  <2>1. p \in req_tagr
    BY GrantsType DEF TypeInv
  <2>2. RpReqTagR(p, busif_hit)
    BY <2>1, PortNumbers DEF req_tagr
  <2> QED BY <1>1, <2>2 DEF tagram_rd
<1>8. TagRamServe(tagram_rd, tagram_wr(NextTagW), adr, tagram_tag_in(NextTagW))
  BY <1>5, NextParts DEF TagRamEdge
<1> HIDE DEF adr
<1>9. tag_out'[c] = ReadTag(tag_ram[IndexOf(adr[c])], adr[c])
  BY <1>1, <1>7, <1>8 DEF TagRamServe
<1>10. tag_out'[c] = ReadTag(TagEntry(rp_adr[p]), rp_adr[p])
  <2>1. rp_adr[p] \in Nat
    BY ReadAddresses
  <2> QED BY <1>6, <1>9, <2>1 DEF IndexOf, DontCare, TagEntry
<1>11. \A i \in Index : tag_ram'[i].way = tag_ram[i].way
  BY TagRead
<1> QED BY <1>1, <1>10, <1>11 DEF c

\* An edge leaves the tag of a way as it is, marks it dirty for a write port that
\* has found its line there, or writes the tag of the bus interface.
LEMMA WayChange ==
  ASSUME TypeInv, TagRamInv, TagsInv, Next, NEW i \in Index, NEW v \in Way
  PROVE  \/ tag_ram'[i].way[v] = tag_ram[i].way[v]
         \/ /\ \E w \in WP : /\ wp_state[w] \in {"write_tag1_and_bank", "write_tag1"}
                             /\ i = GetIndexOfAdr(wp_in[w].adr)
                             /\ v = wp_tag_reg[w].way
            /\ tag_ram'[i].way[v].valid = tag_ram[i].way[v].valid
            /\ tag_ram'[i].way[v].tadr = tag_ram[i].way[v].tadr
            /\ tag_ram'[i].way[v].dirty
         \/ /\ bi_state \in BusIfTagWrite1
            /\ i = GetIndexOfAdr(adr_reg) /\ v = bi_tag_reg.way
<1>1. /\ tag_ram[i].way \in [Way -> [valid : BOOLEAN, dirty : BOOLEAN, tadr : TagAdr]]
      /\ wp_tag_reg \in [WP -> Tag] /\ bi_tag_reg \in Tag
  BY DEF TypeInv, TypeOK
<1>2. CASE \A j \in Index : tag_ram'[j].way = tag_ram[j].way
  BY <1>2
<1>3. ASSUME NEW w \in WP, wp_state[w] \in {"write_tag1_and_bank", "write_tag1"},
             w \in NextTagW,
             WritesWay(wp_in[w].adr, [wp_tag_reg[w] EXCEPT !.dirty = TRUE])
      PROVE  \/ tag_ram'[i].way[v] = tag_ram[i].way[v]
             \/ /\ i = GetIndexOfAdr(wp_in[w].adr) /\ v = wp_tag_reg[w].way
                /\ tag_ram'[i].way[v].valid = tag_ram[i].way[v].valid
                /\ tag_ram'[i].way[v].tadr = tag_ram[i].way[v].tadr
                /\ tag_ram'[i].way[v].dirty
  <2>1. wp_tag_reg[w] \in Tag
    BY <1>1
  <2>2. tag_ram'[i].way =
          IF i = GetIndexOfAdr(wp_in[w].adr)
          THEN [tag_ram[i].way EXCEPT ![wp_tag_reg[w].way] =
                 [valid |-> wp_tag_reg[w].valid, dirty |-> TRUE,
                  tadr |-> wp_tag_reg[w].tadr]]
          ELSE tag_ram[i].way
    BY <1>3, <2>1 DEF WritesWay, Tag
  <2>3. CASE i = GetIndexOfAdr(wp_in[w].adr) /\ v = wp_tag_reg[w].way
    <3>1. tag_ram'[i].way[v] = [valid |-> wp_tag_reg[w].valid, dirty |-> TRUE,
                                tadr |-> wp_tag_reg[w].tadr]
      BY <1>1, <2>2, <2>3
    <3>2. tag_ram'[i].way[v].dirty = TRUE
      BY <3>1
    <3>3. bi_state \notin BusIfTagWrite1
      <4>1. bi_state \in BusIfTagWrite1 => LOCK_BUSIF \in NextTagW
        BY TagGrants DEF TagRamInv, req_tagw, bi_req_tagw, BusIfTagWrite1
      <4> QED BY <1>3, <4>1, TagGrants, PortNumbers
    <3> QED BY <2>3, <3>2, <3>3, LinesHeld
  <2>4. CASE ~(i = GetIndexOfAdr(wp_in[w].adr) /\ v = wp_tag_reg[w].way)
    BY <1>1, <2>2, <2>4
  <2> QED BY <2>3, <2>4
<1>4. ASSUME bi_state \in BusIfTagWrite1, WritesWay(adr_reg, bi_tag_out)
      PROVE  \/ tag_ram'[i].way[v] = tag_ram[i].way[v]
             \/ i = GetIndexOfAdr(adr_reg) /\ v = bi_tag_reg.way
  <2>1. bi_tag_out.way = bi_tag_reg.way
    BY <1>1, <1>4 DEF bi_tag_out, new_tag, BusIfTagWrite1, Tag
  <2> QED BY <1>1, <1>4, <2>1 DEF WritesWay
<1>5. CASE \E w \in WP : /\ w \in NextTagW
                        /\ wp_state[w] \in {"write_tag1_and_bank", "write_tag1"}
                        /\ WritesWay(wp_in[w].adr, [wp_tag_reg[w] EXCEPT !.dirty = TRUE])
  BY <1>3, <1>5
<1>6. CASE bi_state \in BusIfTagWrite1 /\ WritesWay(adr_reg, bi_tag_out)
  BY <1>4, <1>6
<1> QED BY <1>2, <1>5, <1>6, TagRamChange

\* A tag that is written gets the contents of the writer's tag lines.
LEMMA BusIfWritesWay ==
  ASSUME TypeInv, TagRamInv, TagsInv, Next, bi_state \in BusIfTagWrite1
  PROVE  LET new == tag_ram'[GetIndexOfAdr(adr_reg)].way[bi_tag_reg.way]
         IN  /\ new.valid = bi_tag_out.valid /\ new.dirty = bi_tag_out.dirty
             /\ new.tadr = bi_tag_out.tadr
<1> DEFINE i == GetIndexOfAdr(adr_reg)
<1>1. i \in Index
  BY BusAddress, BusIfOfType, AdrParts DEF TypeInv
<1>2. /\ tag_ram[i].way \in [Way -> [valid : BOOLEAN, dirty : BOOLEAN, tadr : TagAdr]]
      /\ bi_tag_reg.way \in Way
  BY <1>1 DEF TypeInv, TypeOK, Tag
<1>3. LOCK_BUSIF \in NextTagW
  BY TagGrants DEF TagRamInv, req_tagw, bi_req_tagw, BusIfTagWrite1
<1>4. WritesWay(adr_reg, bi_tag_out)
  BY <1>3, TagRamChange, TagGrants, PortNumbers
<1>5. bi_tag_out.way = bi_tag_reg.way
  BY DEF bi_tag_out, new_tag, BusIfTagWrite1, TypeInv, TypeOK, Tag
<1>6. tag_ram'[i].way = [tag_ram[i].way EXCEPT ![bi_tag_reg.way] =
        [valid |-> bi_tag_out.valid, dirty |-> bi_tag_out.dirty, tadr |-> bi_tag_out.tadr]]
  BY <1>1, <1>4, <1>5 DEF WritesWay
<1> QED BY <1>2, <1>6

LEMMA WpWritesWay ==
  ASSUME TypeInv, TagRamInv, TagsInv, Next, NEW w \in WP, w \in NextTagW,
         wp_state[w] \in {"write_tag1_and_bank", "write_tag1"}
  PROVE  tag_ram'[GetIndexOfAdr(wp_in[w].adr)].way[wp_tag_reg[w].way].dirty = TRUE
<1> DEFINE i == GetIndexOfAdr(wp_in[w].adr)
<1>1. i \in Index
  BY WriteRequests, AdrParts
<1>2. /\ tag_ram[i].way \in [Way -> [valid : BOOLEAN, dirty : BOOLEAN, tadr : TagAdr]]
      /\ wp_tag_reg[w] \in Tag
  BY <1>1 DEF TypeInv, TypeOK
<1>3. WritesWay(wp_in[w].adr, [wp_tag_reg[w] EXCEPT !.dirty = TRUE])
  <2>1. bi_state \in BusIfTagWrite1 => LOCK_BUSIF \in NextTagW
    BY TagGrants DEF TagRamInv, req_tagw, bi_req_tagw, BusIfTagWrite1
  <2>2. ASSUME NEW v \in WP, v \in NextTagW PROVE v = w
    BY <2>2, TagGrants
  <2>3. bi_state \notin BusIfTagWrite1
    BY <2>1, TagGrants, PortNumbers
  <2> QED BY <2>2, <2>3, TagRamChange
<1>4. tag_ram'[i].way = [tag_ram[i].way EXCEPT ![wp_tag_reg[w].way] =
        [valid |-> wp_tag_reg[w].valid, dirty |-> TRUE, tadr |-> wp_tag_reg[w].tadr]]
  BY <1>1, <1>2, <1>3 DEF WritesWay, Tag
<1>5. wp_tag_reg[w].way \in Way
  BY <1>2 DEF Tag
<1> QED BY <1>2, <1>4, <1>5

\* The steps of the bus interface through a replacement.
LEMMA BusIfLineMoves ==
  ASSUME BusIfType, BusIfJob, NEW in, BusIfEdge(in), bi_state \notin {"idle", "ack"}
  PROVE  /\ GetIndexOfAdr(adr_reg') = GetIndexOfAdr(adr_reg)
         /\ GetTagOfAdr(adr_reg') = GetTagOfAdr(adr_reg)
         /\ bi_state \in BusIfNew => bi_state' \in BusIfNew \/ bi_op' = "nothing"
         /\ bi_state = "tagw1" => bi_state' = "tagw2"
         /\ bi_state = "tagw_inv1" => bi_state' = "tagw_inv2"
<1> USE DEF Goto, opVars, idataVars, bankVars, BusIfNew
<1>0. bi_state \in BusIfState
  BY DEF BusIfType
<1>1. CASE Idle(in) \/ Unlock(in)
  BY <1>1 DEF Idle, Unlock
<1>2. CASE Start
  BY <1>2 DEF Start
<1>3. CASE DirectRead(in) \/ DirectReadDone \/ DirectWrite(in)
  BY <1>3 DEF DirectRead, DirectReadDone, DirectWrite
<1>4. CASE GotLineLock(in) \/ GotTagR(in) \/ CaptureTag(in)
  BY <1>4 DEF GotLineLock, GotTagR, CaptureTag
<1>5. CASE Dispatch
  BY <1>5 DEF Dispatch, GotoAfterFetch, SaveOldLine, AfterSave
<1>6. CASE Fetch(in)
  <2>1. bi_state = "fetch"
    BY <1>6 DEF Fetch
  <2>2. /\ GetIndexOfAdr(wb_adr_o) = GetIndexOfAdr(adr_reg)
        /\ GetTagOfAdr(wb_adr_o) = GetTagOfAdr(adr_reg)
    BY <2>1, BusAddress
  <2> QED BY <1>6, <2>1, <2>2 DEF Fetch, GotoAfterFetch, SaveOldLine, AfterSave
<1>7. CASE ReadBank(in)
  BY <1>7 DEF ReadBank, AfterSave
<1>8. CASE GotTagWInv(in) \/ WriteInvalidTag \/ InvalidTagDone
  BY <1>8 DEF GotTagWInv, WriteInvalidTag, InvalidTagDone
<1>9. CASE WriteBank(in)
  BY <1>9 DEF WriteBank
<1>10. CASE GotTagW(in) \/ WriteNewTag
  BY <1>10 DEF GotTagW, WriteNewTag
<1>11. CASE NewTagDone
  BY <1>11 DEF NewTagDone, Acknowledge
<1>12. CASE StartWriteBack \/ WriteBack(in)
  BY <1>12 DEF StartWriteBack, WriteBack, Acknowledge
<1>13. CASE Waiting(in)
  BY <1>13 DEF Waiting, busIfVars
<1> QED BY BusIfEdge(in), <1>1, <1>2, <1>3, <1>4, <1>5, <1>6, <1>7, <1>8, <1>9,
           <1>10, <1>11, <1>12, <1>13 DEF BusIfEdge

\* As long as the bus interface writes no tag, no line comes into the cache; when it
\* writes an invalid tag, none does either.
LEMMA NoLineComes ==
  ASSUME TypeInv, TagRamInv, TagsInv, Next, bi_op \notin SpecialOp, bi_state # "tagw1",
         NEW a \in Nat, NoWayHolds(a)
  PROVE  \A v \in Way : ~(/\ tag_ram'[GetIndexOfAdr(a)].way[v].valid
                          /\ tag_ram'[GetIndexOfAdr(a)].way[v].tadr = GetTagOfAdr(a))
<1> DEFINE i == GetIndexOfAdr(a)
<1>1. i \in Index
  BY AdrParts
<1> SUFFICES ASSUME NEW v \in Way
             PROVE  ~(tag_ram'[i].way[v].valid /\ tag_ram'[i].way[v].tadr = GetTagOfAdr(a))
  OBVIOUS
<1>2. CASE bi_state \in BusIfTagWrite1 /\ i = GetIndexOfAdr(adr_reg) /\ v = bi_tag_reg.way
  <2>1. bi_state = "tagw_inv1"
    BY <1>2 DEF BusIfTagWrite1
  <2>2. bi_tag_out.valid = FALSE
    BY <2>1 DEF bi_tag_out, TypeInv, TypeOK, Tag
  <2>3. tag_ram'[i].way[v].valid = bi_tag_out.valid
    BY <1>2, BusIfWritesWay
  <2> QED BY <2>2, <2>3
<1>3. CASE ~(bi_state \in BusIfTagWrite1 /\ i = GetIndexOfAdr(adr_reg) /\ v = bi_tag_reg.way)
  <2>1. /\ tag_ram'[i].way[v].valid = tag_ram[i].way[v].valid
        /\ tag_ram'[i].way[v].tadr = tag_ram[i].way[v].tadr
    BY <1>1, <1>3, LinesHeld
  <2> QED BY <2>1 DEF NoWayHolds, HoldsLine, TagEntry
<1> QED BY <1>2, <1>3

\* A line that is asked for is not in the cache.
LEMMA RequestedLine ==
  ASSUME TypeInv, RequestersInv, MissesInv, ~busif_busy,
         Requester(gnt_busif).op = "replace"
  PROVE  NoWayHolds(Requester(gnt_busif).adr)
<1> DEFINE r == Requester(gnt_busif)
<1>1. gnt_busif \subseteq Port \ {IDX_BUSIF}
  BY GrantsType, RequestsType DEF TypeInv
<1>2. gnt_busif # {}
  BY DEF Requester
<1>3. PICK n \in gnt_busif : TRUE
  BY <1>2
<1>4. CASE n \in RP
  <2>1. r.op = RpBusIfOp(n) /\ r.adr = rp_adr[n]
    BY <1>3, <1>4, RequesterPort
  <2>2. rp_state[n] = "miss_replace"
    BY <1>4, <2>1, ReadOperation
  <2> QED BY <1>4, <2>1, <2>2 DEF MissesInv
<1>5. CASE n \notin RP
  <2>1. PICK w \in WP : n = IDX_WP(w)
    BY <1>1, <1>3, <1>5, PortNumbers
  <2>2. r.op = WpBusIfOp(w) /\ r.adr = wp_in[w].adr
    BY <1>3, <2>1, RequesterPort
  <2>3. wp_state[w] = "replace"
    BY <2>2, WriteOperation
  <2> QED BY <2>2, <2>3 DEF MissesInv
<1> QED BY <1>4, <1>5

LEMMA MissesInvNext ==
  ASSUME AccessInv, RequestersInv, MissesInv, Next
  PROVE  MissesInv'
<1> USE DEF AccessInv
<1> DEFINE in == BusIfLines
           r == Requester(gnt_busif)
<1>1. BusIfEdge(in) /\ BusIfType /\ BusIfJob /\ tagr_reg' = gnt_tagr
        /\ tagram_ready' = TRUE /\ bi_op \notin SpecialOp
  BY NextParts, BusIfOfType DEF BusIfLines, TypeInv, TagRamEdge, LockInv
<1>2. ~busif_busy => bi_state # "tagw1"
  BY DEF TypeInv, BusIfJob, busif_busy
<1>3. ASSUME NEW a \in Nat, NoWayHolds(a), NEW a2, a2 = a, bi_state # "tagw1"
      PROVE  \A v \in Way : ~(/\ tag_ram'[GetIndexOfAdr(a2)].way[v].valid
                              /\ tag_ram'[GetIndexOfAdr(a2)].way[v].tadr = GetTagOfAdr(a2))
  BY <1>1, <1>3, NoLineComes
<1>4. ASSUME NEW p \in RP, rp_state'[p] \in {"read_tag", "miss_read_tag"}
      PROVE  /\ p \in gnt_tagr
             /\ rp_tag_in(p)'.valid => HoldsLine(rp_adr[p], rp_tag_in(p).way)'
             /\ ~rp_tag_in(p)'.valid => NoWayHolds(rp_adr[p])'
  <2>1. p \in gnt_tagr
    <3>1. CASE rp_state[p] \in {"read_tag", "miss_read_tag"}
      <4>1. p \in tagr_reg /\ tagram_ready = TRUE
        BY <3>1 DEF MissesInv, TypeInv, TypeOK
      <4>2. p \in req_tagr
        BY <3>1 DEF req_tagr, RpReqTagR
      <4> QED BY <4>1, <4>2, TagReadersShape DEF gnt_tagr
    <3> QED BY <1>4, <3>1, RpMoves
  <2>2. rp_adr'[p] = rp_adr[p] /\ rp_adr[p] \in Nat /\ GetIndexOfAdr(rp_adr[p]) \in Index
    BY <1>4, RpMoves, ReadAddresses, AdrParts DEF CachedRead
  <2>3. /\ tag_out'[p % CPU_CORES] = ReadTag(TagEntry(rp_adr[p]), rp_adr[p])
        /\ \A i \in Index : tag_ram'[i].way = tag_ram[i].way
    BY <2>1, RpTagRead DEF TagsInv
  <2> DEFINE t == ReadTag(TagEntry(rp_adr[p]), rp_adr[p])
  <2>4. /\ t.way \in Way /\ (t.valid => HoldsLine(rp_adr[p], t.way))
        /\ \A v \in Way : HoldsLine(rp_adr[p], v) => t.valid
    BY <2>2, ReadTagHit DEF TagsInv
  <2>5. rp_tag_in(p)' = t
    BY <2>3 DEF rp_tag_in
  <2>6. ASSUME ~t.valid PROVE NoWayHolds(rp_adr[p])'
    BY <2>2, <2>3, <2>4, <2>6 DEF NoWayHolds, HoldsLine, TagEntry
  <2> HIDE DEF t
  <2>7. ASSUME t.valid PROVE HoldsLine(rp_adr[p], rp_tag_in(p).way)'
    BY <2>2, <2>3, <2>4, <2>5, <2>7 DEF HoldsLine, TagEntry
  <2> QED BY <2>1, <2>5, <2>6, <2>7
<1>5. ASSUME NEW p \in RP, rp_state'[p] = "miss_replace", ~busif_busy'
      PROVE  NoWayHolds(rp_adr[p])'
  <2>1. rp_adr'[p] = rp_adr[p] /\ rp_adr[p] \in Nat
    BY <1>5, RpMoves, ReadAddresses DEF CachedRead
  <2>2. CASE rp_state[p] = "miss_read_tag" /\ ~rp_tag_in(p).valid
    <3>1. NoWayHolds(rp_adr[p]) /\ ~busif_busy
      BY <2>2 DEF MissesInv, RequestersInv
    <3> QED BY <1>2, <1>3, <2>1, <3>1 DEF NoWayHolds, HoldsLine, TagEntry
  <2>3. CASE rp_state[p] = "miss_replace" /\ p \notin busif_hit
    <3>1. p \in gnt_busif
      BY <2>3, BusIfGrants, PortOperations DEF RequestersInv
    <3>2. CASE ~busif_busy
      <4>1. r.op = "replace"
        BY <2>3, <3>1, RequesterPort, PortOperations
      <4> QED BY <1>5, <3>2, <4>1, BusIfAccepts DEF busif_busy
    <3>3. CASE busif_busy
      <4>1. ReplacesFor(p)
        BY <2>3, <3>3 DEF RequestersInv
      <4>2. \/ bi_state \in {"start", "linelock", "tagr", "tagr2", "tag_done"}
            \/ bi_state = "fetch" /\ idata_valid_reg = {}
        BY <2>3, <4>1 DEF ReplacesFor, busif_hit, BusIfHit, busif_adr_out
      <4>3. bi_op = "replace"
        BY <4>1 DEF ReplacesFor
      <4> HIDE DEF in
      <4>4. bi_op' = "replace"
        BY <1>1, <4>2, <4>3, BusIfForwards
      <4> QED BY <1>5, <4>4 DEF busif_busy
    <3> QED BY <3>2, <3>3
  <2> QED BY <1>5, <2>2, <2>3, RpMoves
<1>6. ASSUME NEW w \in WP, wp_state'[w] = "recheck_read_tag", ~tag_out'[w].valid
      PROVE  NoWayHolds(wp_in[w].adr)'
  <2>1. IDX_WP(w) \in gnt_tagr /\ wp_in'[w] = wp_in[w]
    BY <1>6, WpTagMoves DEF WpReadsTag
  <2>2. /\ \A i \in Index : tag_ram'[i].way = tag_ram[i].way
        /\ tag_out'[w] = ReadTag(TagEntry(wp_in[w].adr), wp_in[w].adr)
    BY <2>1, TagRead DEF TagsInv
  <2>3. wp_in[w].adr \in Nat /\ GetIndexOfAdr(wp_in[w].adr) \in Index
    BY WriteRequests, AdrParts
  <2>4. NoWayHolds(wp_in[w].adr)
    BY <1>6, <2>2, <2>3, ReadTagHit DEF TagsInv, NoWayHolds
  <2> QED BY <2>1, <2>2, <2>3, <2>4 DEF NoWayHolds, HoldsLine, TagEntry
<1>7. ASSUME NEW w \in WP, wp_state'[w] = "replace", ~busif_busy'
      PROVE  NoWayHolds(wp_in[w].adr)'
  <2>1. wp_in'[w] = wp_in[w] /\ wp_in[w].adr \in Nat
    <3>1. WpWrites(w) /\ w \notin wp_ack(gnt_bank)
      BY <1>7, WriteAcknowledged DEF CachedWrite, SpecialState, WritePortState
    <3> QED BY <3>1, WriteRequestsHeld, WriteRequests DEF WpWrites
  <2>2. CASE wp_state[w] = "recheck_read_tag" /\ ~tag_out[w].valid
    <3>1. NoWayHolds(wp_in[w].adr) /\ ~busif_busy
      BY <2>2 DEF MissesInv, RequestersInv
    <3> QED BY <1>2, <1>3, <2>1, <3>1 DEF NoWayHolds, HoldsLine, TagEntry
  <2>3. CASE wp_state[w] = "replace" /\ ~busif_busy
    <3>1. IDX_WP(w) \in gnt_busif
      BY <2>3, BusIfGrants, PortOperations DEF LockInv, WpReplaces
    <3>2. r.op = "replace"
      BY <2>3, <3>1, RequesterPort, PortOperations
    <3> QED BY <1>7, <2>3, <3>2, BusIfAccepts DEF busif_busy
  <2> QED BY <1>7, <2>2, <2>3, WpFreeMoves
<1>8. ASSUME bi_op' = "replace", bi_state' \notin BusIfNew
      PROVE  NoWayHolds(adr_reg)'
  <2>1. CASE ~busif_busy
    <3>1. r.op = "replace" /\ adr_reg' = r.adr
      BY <1>8, <2>1, BusIfAccepts DEF busif_busy
    <3>2. NoWayHolds(r.adr)
      BY <2>1, <3>1, RequestedLine
    <3>3. r.adr \in Nat
      BY RequesterType, MemAdrParts
    <3> HIDE DEF r
    <3> QED BY <1>2, <1>3, <2>1, <3>1, <3>2, <3>3 DEF NoWayHolds, HoldsLine, TagEntry
  <2>2. CASE busif_busy
    <3>1. bi_op = "replace" /\ bi_state \notin {"idle", "ack"}
      <4>1. bi_state \notin {"idle", "ack"}
        BY <2>2 DEF TypeInv, BusIfJob, busif_busy
      <4> HIDE DEF in
      <4> QED BY <1>1, <1>8, <4>1, BusIfMoves
    <3>2. /\ GetIndexOfAdr(adr_reg') = GetIndexOfAdr(adr_reg)
          /\ GetTagOfAdr(adr_reg') = GetTagOfAdr(adr_reg)
          /\ bi_state \notin BusIfNew /\ bi_state # "tagw1"
      <4> HIDE DEF in
      <4> QED BY <1>1, <1>8, <3>1, BusIfLineMoves DEF BusIfNew
    <3>3. NoWayHolds(adr_reg) /\ adr_reg \in Nat
      BY <1>1, <3>1, <3>2, BusAddress DEF MissesInv
    <3> QED BY <1>1, <3>2, <3>3, NoLineComes DEF NoWayHolds, HoldsLine, TagEntry
  <2> QED BY <2>1, <2>2
<1> HIDE DEF in, r
<1> QED BY <1>1, <1>4, <1>5, <1>6, <1>7, <1>8 DEF MissesInv

-----------------------------------------------------------------------------
(* The victim and the new line.                                            *)

\* The old tag is in the tag RAM; it is invalid; the new tag is there (BusIfNew).
BusIfOld     == {"tag_done", "fetch", "read_bank", "tagw_inv_req", "tagw_inv1"}
BusIfInvalid == {"tagw_inv2", "write_bank", "tagw_req", "tagw1"}

\* The way the bus interface works on.
OldWay == TagEntry(adr_reg).way[bi_tag_reg.way]

\* A dirty line is saved, and written back.
VictimSaved ==
  /\ bi_state = "read_bank" => bi_tag_reg.dirty
  /\ bi_state \in {"dread", "dread_ack", "dwrite", "linelock", "tagr", "tagr2", "tag_done",
                   "fetch", "read_bank"} => ~write_victim
  /\ bi_state \in {"tagw_inv_req", "tagw_inv1"} \cup BusIfInvalid \cup BusIfNew =>
       (write_victim <=> bi_tag_reg.dirty)
  /\ bi_state \in {"wb_start", "writeback"} => write_victim

\* The way that is replaced holds the tag the bus interface has read, then an invalid
\* tag, then that of the new line; no other way has an invalid tag marked dirty.
VictimInv ==
  /\ VictimSaved
  /\ \A i \in Index : \A v \in Way :
       tag_ram[i].way[v].dirty /\ ~tag_ram[i].way[v].valid =>
         bi_state \in BusIfInvalid /\ i = GetIndexOfAdr(adr_reg) /\ v = bi_tag_reg.way
  /\ bi_state = "tagr2" =>
       LET t == tag_out[CPU_CORES - 1]
       IN  /\ t.dirty = TagEntry(adr_reg).way[t.way].dirty
           /\ t.tadr  = TagEntry(adr_reg).way[t.way].tadr
  /\ bi_state \in BusIfOld =>
       bi_tag_reg.dirty = OldWay.dirty /\ bi_tag_reg.tadr = OldWay.tadr
  /\ bi_state \in BusIfInvalid => ~OldWay.valid
  /\ bi_state \in BusIfNew => HoldsLine(adr_reg, bi_tag_reg.way) /\ ~OldWay.dirty
  /\ bi_state \in BusIfOld \cup BusIfInvalid \cup BusIfNew /\ bi_tag_reg.dirty =>
       bi_tag_reg.tadr # GetTagOfAdr(adr_reg)

\* What the bus interface does with the tag of the way it replaces.
LEMMA BusIfWayMoves ==
  ASSUME BusIfType, BusIfJob, bi_op \notin SpecialOp, VictimSaved, NEW in, BusIfEdge(in)
  PROVE  /\ VictimSaved'
         /\ bi_state' \in BusIfOld =>
              \/ bi_state = "tagr2" /\ bi_tag_reg' = in.tag
              \/ bi_state \in BusIfOld \ {"tagw_inv1"} /\ bi_tag_reg' = bi_tag_reg
         /\ bi_state' \in BusIfInvalid =>
              bi_state \in BusIfInvalid \cup {"tagw_inv1"} /\ bi_state # "tagw1"
         /\ bi_state' \in BusIfNew => bi_state \in BusIfNew \cup {"tagw1"}
         /\ bi_state \in BusIfInvalid \ {"tagw1"} => bi_state' \in BusIfInvalid
         /\ bi_state \in BusIfOld \cup BusIfInvalid \cup BusIfNew => bi_tag_reg' = bi_tag_reg
<1> USE DEF Goto, opVars, idataVars, bankVars, BusIfOld, BusIfInvalid, BusIfNew, VictimSaved
<1>0. /\ bi_state \in BusIfState /\ write_victim \in BOOLEAN
      /\ bi_state \in LineState => bi_op = "replace"
      /\ bi_op = "nothing" <=> bi_state \in {"idle", "ack"}
  BY DEF BusIfType, BusIfJob, LineOp, SpecialOp
<1>1. CASE Idle(in) \/ Unlock(in)
  BY <1>1 DEF Idle, Unlock, AcceptNewOp
<1>2. CASE Start
  BY <1>2 DEF Start
<1>3. CASE DirectRead(in) \/ DirectReadDone \/ DirectWrite(in)
  BY <1>3 DEF DirectRead, DirectReadDone, DirectWrite
<1>4. CASE GotLineLock(in) \/ GotTagR(in) \/ CaptureTag(in)
  BY <1>4 DEF GotLineLock, GotTagR, CaptureTag
<1>5. CASE Dispatch
  BY <1>0, <1>5 DEF Dispatch, GotoAfterFetch, SaveOldLine, AfterSave, LineState
<1>6. CASE Fetch(in)
  BY <1>0, <1>6 DEF Fetch, GotoAfterFetch, SaveOldLine, AfterSave, LineState
<1>7. CASE ReadBank(in)
  BY <1>0, <1>7 DEF ReadBank, AfterSave, LineState
<1>8. CASE GotTagWInv(in) \/ WriteInvalidTag \/ InvalidTagDone
  BY <1>8 DEF GotTagWInv, WriteInvalidTag, InvalidTagDone
<1>9. CASE WriteBank(in)
  BY <1>9 DEF WriteBank
<1>10. CASE GotTagW(in) \/ WriteNewTag
  BY <1>10 DEF GotTagW, WriteNewTag
<1>11. CASE NewTagDone
  BY <1>0, <1>11 DEF NewTagDone, Acknowledge
<1>12. CASE StartWriteBack \/ WriteBack(in)
  BY <1>0, <1>12 DEF StartWriteBack, WriteBack, Acknowledge
<1>13. CASE Waiting(in)
  BY <1>13 DEF Waiting, busIfVars
<1> QED BY BusIfEdge(in), <1>1, <1>2, <1>3, <1>4, <1>5, <1>6, <1>7, <1>8, <1>9,
           <1>10, <1>11, <1>12, <1>13 DEF BusIfEdge

\* While the bus interface works on a line, no write port works on one of that index.
LEMMA LinesApart ==
  ASSUME TypeInv, LockInv, bi_state \in BusIfUsesLine \cup {"tagr"},
         NEW w \in WP, wp_state[w] \in (WpReadsTag \cup WpHasTag) \ {"write_tag2"}
  PROVE  GetIndexOfAdr(wp_in[w].adr) # GetIndexOfAdr(adr_reg)
<1>1. w \in linelock_reg /\ ~WpReplaces(w)
  BY DEF LockInv, WpUsesLine, WpReadsTag, WpHasTag, WpReplaces
<1>2. bi_op \in LineOp
  BY DEF BusIfUsesLine, TypeInv, BusIfJob, LineState, BusIfState
<1>3. ~nolinelock_reg
  <2>1. ASSUME nolinelock_reg PROVE FALSE
    <3>1. PICK v \in WP : WpReplaces(v)
      BY <1>2, <2>1 DEF LockInv
    <3>2. v \in linelock_reg
      BY <3>1 DEF LockInv, WpReplaces, WpUsesLine
    <3> QED BY <1>1, <3>1, <3>2, PortNumbers DEF LockInv
  <2> QED BY <2>1
<1>4. LOCK_BUSIF \in linelock_reg /\ bi_req_linelock
  BY <1>3 DEF LockInv, bi_req_linelock, BusIfUsesLine
<1>5. WpReqLineLock(w, FALSE)
  BY DEF WpReqLineLock, LastAccess, WpReadsTag, WpHasTag
<1>6. lock_idx[w] # lock_idx[LOCK_BUSIF]
  BY <1>1, <1>4, <1>5 DEF LockInv
<1> QED BY <1>6, PortNumbers DEF lock_idx, busif_adr_out

\* Of the line it works on, the bus interface alone writes the tags.
LEMMA BusIfLineHeld ==
  ASSUME TypeInv, TagRamInv, LockInv, TagsInv, Next, NEW v \in Way,
         bi_state \in BusIfUsesLine \cup {"tagr"}, bi_state \notin BusIfTagWrite1
  PROVE  tag_ram'[GetIndexOfAdr(adr_reg)].way[v] = tag_ram[GetIndexOfAdr(adr_reg)].way[v]
<1>1. GetIndexOfAdr(adr_reg) \in Index
  BY BusAddress, BusIfOfType, AdrParts DEF TypeInv
<1>2. \A w \in WP : wp_state[w] \in {"write_tag1_and_bank", "write_tag1"} =>
        GetIndexOfAdr(wp_in[w].adr) # GetIndexOfAdr(adr_reg)
  BY LinesApart DEF WpHasTag
<1> QED BY <1>1, <1>2, WayChange

\* Of the line it works on, a write port alone writes the tags.
LEMMA WpLineHeld ==
  ASSUME TypeInv, TagRamInv, LockInv, TagsInv, Next, NEW v \in Way,
         NEW w \in WP, wp_state[w] \in (WpReadsTag \cup WpHasTag) \ {"write_tag2"}
  PROVE  LET i == GetIndexOfAdr(wp_in[w].adr)
         IN  \/ tag_ram'[i].way[v] = tag_ram[i].way[v]
             \/ /\ wp_state[w] \in {"write_tag1_and_bank", "write_tag1"}
                /\ v = wp_tag_reg[w].way /\ tag_ram'[i].way[v].dirty
<1> DEFINE i == GetIndexOfAdr(wp_in[w].adr)
<1>1. i \in Index
  BY WriteRequests, AdrParts
<1>2. bi_state \in BusIfTagWrite1 => i # GetIndexOfAdr(adr_reg)
  BY TagWritesApart
<1>3. \A x \in WP : wp_state[x] \in {"write_tag1_and_bank", "write_tag1"} => x = w
  BY PortNumbers DEF LockInv, WpUsesLine, WpReadsTag, WpHasTag
<1> HIDE DEF i
<1>4. \/ tag_ram'[i].way[v] = tag_ram[i].way[v]
      \/ /\ \E x \in WP : /\ wp_state[x] \in {"write_tag1_and_bank", "write_tag1"}
                          /\ v = wp_tag_reg[x].way
         /\ tag_ram'[i].way[v].dirty
  BY <1>1, <1>2, WayChange
<1> QED BY <1>3, <1>4 DEF i

LEMMA VictimInvNext ==
  ASSUME AccessInv, MissesInv, VictimInv, Next
  PROVE  VictimInv'
<1> USE DEF AccessInv
<1> DEFINE in == BusIfLines
           i == GetIndexOfAdr(adr_reg)
<1>1. BusIfEdge(in) /\ BusIfType /\ BusIfJob /\ bi_op \notin SpecialOp /\ VictimSaved
        /\ in.tag = tag_out[CPU_CORES - 1]
        /\ adr_reg \in Nat /\ i \in Index /\ bi_tag_reg.way \in Way
  BY NextParts, BusIfOfType, BusAddress, AdrParts
     DEF BusIfLines, BusIfInputs, TypeInv, LockInv, VictimInv, BusIfType, Tag
<1> HIDE DEF in
<1>2. /\ VictimSaved'
      /\ bi_state' \in BusIfOld =>
           \/ bi_state = "tagr2" /\ bi_tag_reg' = tag_out[CPU_CORES - 1]
           \/ bi_state \in BusIfOld \ {"tagw_inv1"} /\ bi_tag_reg' = bi_tag_reg
      /\ bi_state' \in BusIfInvalid =>
           bi_state \in BusIfInvalid \cup {"tagw_inv1"} /\ bi_state # "tagw1"
      /\ bi_state' \in BusIfNew => bi_state \in BusIfNew \cup {"tagw1"}
      /\ bi_state \in BusIfInvalid \ {"tagw1"} => bi_state' \in BusIfInvalid
      /\ bi_state \in BusIfOld \cup BusIfInvalid \cup BusIfNew => bi_tag_reg' = bi_tag_reg
  BY <1>1, BusIfWayMoves
<1>3. bi_state \notin {"idle", "ack"} =>
        GetIndexOfAdr(adr_reg') = i /\ GetTagOfAdr(adr_reg') = GetTagOfAdr(adr_reg)
  BY <1>1, BusIfLineMoves
<1>4. bi_state \in LineState => bi_op = "replace"
  BY <1>1 DEF BusIfJob, LineOp, SpecialOp
<1>5. tag_ram \in [Index -> Entry] /\ tag_ram' \in [Index -> Entry]
  BY TypeInvNext DEF TypeInv, TypeOK, Entry
<1>6. bi_state = "tagw_inv1" =>
        bi_tag_out.valid = FALSE /\ tag_ram'[i].way[bi_tag_reg.way].valid = FALSE
  <2>1. bi_state = "tagw_inv1" => bi_tag_out.valid = FALSE
    BY <1>1 DEF bi_tag_out, BusIfType, Tag
  <2> QED BY <2>1, BusIfWritesWay DEF BusIfTagWrite1
<1>7. bi_state = "tagw1" =>
        LET new == tag_ram'[i].way[bi_tag_reg.way]
        IN  new.valid = TRUE /\ new.dirty = FALSE /\ new.tadr = GetTagOfAdr(adr_reg)
  <2>1. bi_state = "tagw1" => bi_tag_out = new_tag /\ bi_op = "replace"
    BY <1>4 DEF bi_tag_out, LineState, BusIfState
  <2>2. bi_op = "replace" => new_tag.valid = TRUE
    BY DEF new_tag
  <2>3. new_tag.dirty = FALSE /\ new_tag.tadr = GetTagOfAdr(adr_reg)
    BY DEF new_tag
  <2> QED BY <2>1, <2>2, <2>3, BusIfWritesWay DEF BusIfTagWrite1
<1>8. ASSUME bi_state \in BusIfUsesLine, bi_state \notin BusIfTagWrite1, NEW v \in Way
      PROVE  tag_ram'[i].way[v] = tag_ram[i].way[v]
  BY <1>8, BusIfLineHeld
<1>9. ASSUME NEW j \in Index, NEW v \in Way, tag_ram'[j].way[v].dirty,
             ~tag_ram'[j].way[v].valid
      PROVE  bi_state' \in BusIfInvalid /\ j = GetIndexOfAdr(adr_reg') /\ v = bi_tag_reg'.way
  <2>1. CASE tag_ram'[j].way[v] = tag_ram[j].way[v]
    <3>1. bi_state \in BusIfInvalid /\ j = i /\ v = bi_tag_reg.way
      BY <1>9, <2>1 DEF VictimInv
    <3>2. bi_state # "tagw1"
      BY <1>7, <1>9, <3>1
    <3> QED BY <1>2, <1>3, <3>1, <3>2 DEF BusIfInvalid
  <2>2. ASSUME NEW w \in WP, wp_state[w] \in {"write_tag1_and_bank", "write_tag1"},
               j = GetIndexOfAdr(wp_in[w].adr), v = wp_tag_reg[w].way,
               tag_ram'[j].way[v].valid = tag_ram[j].way[v].valid
        PROVE  FALSE
    BY <1>9, <2>2 DEF TagsInv, TagsKnown, WpHasTag, HoldsLine, TagEntry
  <2>3. CASE bi_state \in BusIfTagWrite1 /\ j = i /\ v = bi_tag_reg.way
    <3>1. bi_state = "tagw_inv1"
      BY <1>7, <1>9, <2>3 DEF BusIfTagWrite1
    <3>2. bi_state' = "tagw_inv2"
      BY <1>1, <3>1, BusIfLineMoves
    <3> QED BY <1>2, <1>3, <2>3, <3>1, <3>2 DEF BusIfInvalid, BusIfOld
  <2> QED BY <2>1, <2>2, <2>3, WayChange
<1>10. ASSUME bi_state' = "tagr2"
       PROVE  LET t == tag_out'[CPU_CORES - 1]
              IN  /\ t.dirty = tag_ram'[GetIndexOfAdr(adr_reg')].way[t.way].dirty
                  /\ t.tadr  = tag_ram'[GetIndexOfAdr(adr_reg')].way[t.way].tadr
  <2>1. IDX_BUSIF \in gnt_tagr /\ adr_reg' = adr_reg
    <3>1. in.gnt_tagr <=> IDX_BUSIF \in gnt_tagr
      BY DEF in, BusIfLines, BusIfInputs
    <3> QED BY <1>1, <1>10, <3>1, BusIfTagMoves
  <2>2. /\ \A j \in Index : tag_ram'[j].way = tag_ram[j].way
        /\ tag_out'[CPU_CORES - 1] = ReadTag(TagEntry(adr_reg), adr_reg)
    BY <2>1, TagRead DEF TagsInv
  <2> DEFINE t == ReadTag(TagEntry(adr_reg), adr_reg)
  <2>3. t.dirty = TagEntry(adr_reg).way[t.way].dirty /\ t.tadr = TagEntry(adr_reg).way[t.way].tadr
    BY <1>1, ReadTagHit DEF TagsInv
  <2> HIDE DEF t
  <2> QED BY <1>1, <2>1, <2>2, <2>3 DEF TagEntry, t
<1>11. ASSUME bi_state' \in BusIfOld
       PROVE  LET new == tag_ram'[GetIndexOfAdr(adr_reg')].way[bi_tag_reg'.way]
              IN  bi_tag_reg'.dirty = new.dirty /\ bi_tag_reg'.tadr = new.tadr
  <2>1. GetIndexOfAdr(adr_reg') = i
    BY <1>2, <1>3, <1>11 DEF BusIfOld
  <2>2. CASE bi_state = "tagr2" /\ bi_tag_reg' = tag_out[CPU_CORES - 1]
    <3>1. tag_out[CPU_CORES - 1].way \in Way
      BY ConfigAssumption DEF TypeInv, TypeOK, Tag, CPU
    <3> QED BY <1>8, <2>1, <2>2, <3>1
        DEF VictimInv, BusIfUsesLine, BusIfTagWrite1, TagEntry
  <2>3. CASE bi_state \in BusIfOld \ {"tagw_inv1"} /\ bi_tag_reg' = bi_tag_reg
    BY <1>1, <1>8, <2>1, <2>3
       DEF VictimInv, BusIfOld, BusIfUsesLine, BusIfTagWrite1, TagEntry, OldWay
  <2> QED BY <1>2, <1>11, <2>2, <2>3
<1>12. ASSUME bi_state' \in BusIfInvalid
       PROVE  ~tag_ram'[GetIndexOfAdr(adr_reg')].way[bi_tag_reg'.way].valid
  <2>1. GetIndexOfAdr(adr_reg') = i /\ bi_tag_reg' = bi_tag_reg
    BY <1>2, <1>3, <1>12 DEF BusIfOld, BusIfInvalid
  <2>2. CASE bi_state = "tagw_inv1"
    BY <1>6, <2>1, <2>2
  <2>3. CASE bi_state \in BusIfInvalid \ {"tagw1"}
    BY <1>1, <1>8, <2>1, <2>3
       DEF VictimInv, BusIfInvalid, BusIfUsesLine, BusIfTagWrite1, TagEntry, OldWay
  <2> QED BY <1>2, <1>12, <2>2, <2>3
<1>13. ASSUME bi_state' \in BusIfNew
       PROVE  LET new == tag_ram'[GetIndexOfAdr(adr_reg')].way[bi_tag_reg'.way]
              IN  new.valid /\ new.tadr = GetTagOfAdr(adr_reg') /\ ~new.dirty
  <2>1. /\ GetIndexOfAdr(adr_reg') = i /\ GetTagOfAdr(adr_reg') = GetTagOfAdr(adr_reg)
        /\ bi_tag_reg' = bi_tag_reg
    BY <1>2, <1>3, <1>13 DEF BusIfNew, BusIfInvalid
  <2>2. CASE bi_state = "tagw1"
    BY <1>7, <2>1, <2>2
  <2>3. CASE bi_state \in BusIfNew
    BY <1>1, <1>8, <2>1, <2>3
       DEF VictimInv, BusIfNew, BusIfUsesLine, BusIfTagWrite1, TagEntry, OldWay, HoldsLine
  <2> QED BY <1>2, <1>13, <2>2, <2>3
<1>14. ASSUME bi_state' \in BusIfOld \cup BusIfInvalid \cup BusIfNew, bi_tag_reg'.dirty
       PROVE  bi_tag_reg'.tadr # GetTagOfAdr(adr_reg')
  <2>1. GetTagOfAdr(adr_reg') = GetTagOfAdr(adr_reg)
    BY <1>2, <1>3, <1>14 DEF BusIfOld, BusIfInvalid, BusIfNew
  <2>2. CASE bi_state = "tagr2" /\ bi_tag_reg' = tag_out[CPU_CORES - 1]
    <3> DEFINE t == tag_out[CPU_CORES - 1]
    <3>1. t.way \in Way
      BY ConfigAssumption DEF TypeInv, TypeOK, Tag, CPU
    <3> HIDE DEF t
    <3>2. t.dirty = TagEntry(adr_reg).way[t.way].dirty /\ t.tadr = TagEntry(adr_reg).way[t.way].tadr
      BY <2>2 DEF VictimInv, t
    <3>3. TagEntry(adr_reg).way[t.way].valid
      BY <1>1, <1>14, <2>2, <3>1, <3>2 DEF VictimInv, BusIfInvalid, TagEntry, t
    <3>4. NoWayHolds(adr_reg)
      BY <1>4, <2>2 DEF MissesInv, LineState, BusIfState, BusIfNew
    <3>5. t.tadr # GetTagOfAdr(adr_reg)
      BY <3>1, <3>2, <3>3, <3>4 DEF NoWayHolds, HoldsLine
    <3> QED BY <2>1, <2>2, <3>5 DEF t
  <2>3. CASE bi_state \in BusIfOld \cup BusIfInvalid \cup BusIfNew
    <3>1. bi_tag_reg' = bi_tag_reg
      BY <1>2, <2>3
    <3> QED BY <1>14, <2>1, <2>3, <3>1 DEF VictimInv
  <2> QED BY <1>2, <1>14, <2>2, <2>3 DEF BusIfOld, BusIfInvalid
<1> HIDE DEF i
<1> QED BY <1>2, <1>9, <1>10, <1>11, <1>12, <1>13, <1>14
         DEF VictimInv, TagEntry, OldWay, HoldsLine

\* What a write port knows of the dirty bit of its line.
DirtyInv ==
  \A w \in WP :
    LET a == wp_in[w].adr
    IN  /\ wp_state[w] \in WpReadsTag /\ tag_out[w].valid =>
             tag_out[w].dirty = TagEntry(a).way[tag_out[w].way].dirty
        /\ wp_state[w] \in {"have_tag_request_bank", "read_bank"} =>
             wp_tag_reg[w].dirty = TagEntry(a).way[wp_tag_reg[w].way].dirty
        /\ wp_state[w] \in {"write_tag2_and_bank", "write_tag2", "write_bank"} =>
             TagEntry(a).way[wp_tag_reg[w].way].dirty

\* What a write port knows when it takes the next step on its line.
LEMMA WpDirtyMoves ==
  ASSUME TypeInv, Next, NEW w \in WP
  PROVE  /\ wp_state'[w] \in {"have_tag_request_bank", "read_bank"} =>
              \/ /\ wp_state[w] \in WpReadsTag /\ tag_out[w].valid
                 /\ wp_tag_reg'[w] = tag_out[w]
              \/ /\ wp_state[w] = "have_tag_request_bank"
                 /\ wp_tag_reg'[w] = wp_tag_reg[w]
         /\ wp_state'[w] \in {"write_tag2_and_bank", "write_tag2", "write_bank"} =>
              \/ /\ wp_state[w] \in WpReadsTag /\ tag_out[w].valid /\ tag_out[w].dirty
                 /\ wp_tag_reg'[w] = tag_out[w]
              \/ /\ \/ wp_state[w] = "read_bank" /\ wp_tag_reg[w].dirty
                    \/ wp_state[w] \in {"write_tag2_and_bank", "write_bank"}
                    \/ /\ wp_state[w] \in {"write_tag1_and_bank", "write_tag1"}
                       /\ w \in NextTagW
                 /\ wp_tag_reg'[w] = wp_tag_reg[w]
<1> DEFINE g == WpGrant(w)
<1>1. wp_state'[w] = WpNextState(w, tag_out[w], g)
  BY WriteAcknowledged
<1>2. g.tagw <=> w \in NextTagW
  BY DEF WpGrant, WpGrants
<1>3. wp_state[w] \in WritePortState
  BY DEF TypeInv, TypeOK
<1>4. wp_tag_reg'[w] = IF wp_state[w] \in WpReadsTag THEN tag_out[w] ELSE wp_tag_reg[w]
  BY NextParts DEF WritePortEdge, WpReadsTag
<1> HIDE DEF g
<1> USE DEF WpReadsTag
<1>5. CASE wp_state[w] = "init"
  BY <1>1, <1>5 DEF WpNextState, NextFromInit, NextDirect
<1>6. CASE wp_state[w] # "init"
  BY <1>1, <1>2, <1>3, <1>4, <1>6 DEF WpNextState, NextAfterTag, NextWrite, NextMiss,
                                     WritePortState
<1> QED BY <1>5, <1>6

LEMMA DirtyInvNext ==
  ASSUME AccessInv, DirtyInv, Next
  PROVE  DirtyInv'
<1> USE DEF AccessInv
<1> SUFFICES ASSUME NEW w \in WP
             PROVE  LET i == GetIndexOfAdr(wp_in'[w].adr)
                    IN  /\ wp_state'[w] \in WpReadsTag /\ tag_out'[w].valid =>
                             tag_out'[w].dirty = tag_ram'[i].way[tag_out'[w].way].dirty
                        /\ wp_state'[w] \in {"have_tag_request_bank", "read_bank"} =>
                             wp_tag_reg'[w].dirty = tag_ram'[i].way[wp_tag_reg'[w].way].dirty
                        /\ wp_state'[w] \in {"write_tag2_and_bank", "write_tag2", "write_bank"} =>
                             tag_ram'[i].way[wp_tag_reg'[w].way].dirty
  BY DEF DirtyInv, TagEntry
<1> DEFINE i == GetIndexOfAdr(wp_in[w].adr)
<1>1. wp_in[w].adr \in Nat /\ i \in Index /\ tag_out[w].way \in Way /\ wp_tag_reg[w].way \in Way
  BY WriteRequests, AdrParts, PortNumbers DEF TypeInv, TypeOK, Tag
<1>2. wp_state'[w] \in WpReadsTag \cup WpHasTag => wp_in'[w] = wp_in[w]
  BY WpTagMoves
<1>3. ASSUME wp_state'[w] \in WpReadsTag
      PROVE  tag_out'[w].dirty = tag_ram'[i].way[tag_out'[w].way].dirty
  <2>1. /\ \A j \in Index : tag_ram'[j].way = tag_ram[j].way
        /\ tag_out'[w] = ReadTag(TagEntry(wp_in[w].adr), wp_in[w].adr)
    BY <1>3, WpTagMoves, TagRead DEF TagsInv
  <2> DEFINE t == ReadTag(TagEntry(wp_in[w].adr), wp_in[w].adr)
  <2>2. t.dirty = TagEntry(wp_in[w].adr).way[t.way].dirty
    BY <1>1, ReadTagHit DEF TagsInv
  <2> HIDE DEF t
  <2> QED BY <1>1, <2>1, <2>2 DEF TagEntry, t
<1>4. ASSUME wp_state[w] \in (WpReadsTag \cup WpHasTag) \ {"write_tag2"},
             wp_state[w] \notin {"write_tag1_and_bank", "write_tag1"}, NEW v \in Way
      PROVE  tag_ram'[i].way[v] = tag_ram[i].way[v]
  BY <1>4, WpLineHeld
<1>5. ASSUME wp_state'[w] \in {"have_tag_request_bank", "read_bank"}
      PROVE  wp_tag_reg'[w].dirty = tag_ram'[i].way[wp_tag_reg'[w].way].dirty
  <2>1. CASE /\ wp_state[w] \in WpReadsTag /\ tag_out[w].valid
             /\ wp_tag_reg'[w] = tag_out[w]
    BY <1>1, <1>4, <2>1 DEF DirtyInv, TagEntry, WpReadsTag
  <2>2. CASE /\ wp_state[w] = "have_tag_request_bank"
             /\ wp_tag_reg'[w] = wp_tag_reg[w]
    BY <1>1, <1>4, <2>2 DEF DirtyInv, TagEntry, WpHasTag
  <2> QED BY <1>5, <2>1, <2>2, WpDirtyMoves
<1>6. ASSUME wp_state'[w] \in {"write_tag2_and_bank", "write_tag2", "write_bank"}
      PROVE  tag_ram'[i].way[wp_tag_reg'[w].way].dirty
  <2>1. CASE /\ wp_state[w] \in WpReadsTag /\ tag_out[w].valid /\ tag_out[w].dirty
             /\ wp_tag_reg'[w] = tag_out[w]
    BY <1>1, <1>4, <2>1 DEF DirtyInv, TagEntry, WpReadsTag
  <2>2. CASE /\ \/ wp_state[w] = "read_bank" /\ wp_tag_reg[w].dirty
                \/ wp_state[w] \in {"write_tag2_and_bank", "write_bank"}
             /\ wp_tag_reg'[w] = wp_tag_reg[w]
    BY <1>1, <1>4, <2>2 DEF DirtyInv, TagEntry, WpHasTag
  <2>3. CASE /\ wp_state[w] \in {"write_tag1_and_bank", "write_tag1"} /\ w \in NextTagW
             /\ wp_tag_reg'[w] = wp_tag_reg[w]
    BY <2>3, WpWritesWay
  <2> QED BY <1>6, <2>1, <2>2, <2>3, WpDirtyMoves
<1> HIDE DEF i
<1> QED BY <1>2, <1>3, <1>5, <1>6 DEF WpHasTag, i

-----------------------------------------------------------------------------
(* The bank RAMs.                                                          *)

\* A read port gives up its grant of a bank with the acknowledgement, and the other
\* ports that share a RAM port are served one by one.
BankPortsInv ==
  \A b \in Bank :
    /\ \A p \in RP \cap bank_reg[b] : rp_state[p] = "read_bank"
    /\ \A m, n \in bank_reg[b] \ RP : RAMPORT(m) = RAMPORT(n) => m = n

\* Ports that are no read ports are granted a bank one by one, and every granted port
\* finds its own address on the RAM port.
LEMMA BankGrants ==
  ASSUME TypeInv, BankPortsInv, NEW b \in Bank
  PROVE  /\ gnt_bank[b] \subseteq req_bank[b]
         /\ \A m, n \in gnt_bank[b] \ RP : RAMPORT(m) = RAMPORT(n) => m = n
         /\ \A n \in gnt_bank[b] : /\ RAMPORT(n) \in RamPort
                                   /\ bankram_wiadr[b][RAMPORT(n)] = wiadr[n]
         /\ IDX_BUSIF \in bank_reg[b] \cap req_bank[b] => IDX_BUSIF \in gnt_bank[b]
<1> DEFINE reg == bank_reg[b]
           req == req_bank[b]
           wi == wiadr
           prio == GetPrioCpu
<1>1. prio \in CPU /\ req \subseteq Port /\ reg \subseteq Port
  BY PrioType, RequestsType DEF TypeInv, TypeOK
<1>2. gnt_bank[b] = BankGrant(reg, req, wi, prio)
  BY DEF gnt_bank
<1>3. gnt_bank[b] \subseteq req
  BY GrantsType DEF TypeInv
<1>4. \A n \in Port \ RP : n >= RPORTS
  BY PortNumbers DEF Port, RP
<1>5. \A m, n \in reg \cap req : RAMPORT(m) = RAMPORT(n) => m = n
  <2>1. ASSUME NEW p \in RP \cap reg PROVE p \notin req
    <3>1. rp_state[p] = "read_bank"
      BY <2>1 DEF BankPortsInv
    <3>2. ~RpReqBank(p, rp_tag_in(p))
      BY <3>1 DEF RpReqBank
    <3> QED BY <2>1, <3>2, PortNumbers DEF req_bank
  <2> QED BY <2>1 DEF BankPortsInv
<1> HIDE DEF reg, req, prio, wi
<1>6. ASSUME NEW n \in gnt_bank[b]
      PROVE  /\ RAMPORT(n) \in RamPort
             /\ bankram_wiadr[b][RAMPORT(n)] = wiadr[n]
  <2>1. RAMPORT(n) \in RamPort
    BY <1>1, <1>3, <1>6, RamPortType
  <2>2. wi[n] = BankAddress(RAMPORT(n), reg, req, wi, prio)
    BY <1>1, <1>2, <1>5, <1>6, BankGrantRouted
  <2>3. bankram_wiadr[b][RAMPORT(n)] = BankAddress(RAMPORT(n), reg, req, wi, prio)
    BY <2>1 DEF bankram_wiadr, reg, req, wi, prio
  <2> QED BY <2>1, <2>2, <2>3 DEF wi
<1>7. ASSUME NEW m \in gnt_bank[b] \ RP, NEW n \in gnt_bank[b] \ RP, RAMPORT(m) = RAMPORT(n)
      PROVE  m = n
  BY <1>1, <1>2, <1>3, <1>4, <1>7 DEF BankGrant
<1>8. ASSUME IDX_BUSIF \in reg \cap req PROVE IDX_BUSIF \in gnt_bank[b]
  <2>1. SelectedPort(RAMPORT(IDX_BUSIF), reg, req, prio) = IDX_BUSIF
    BY <1>1, <1>5, <1>8, SelectedPortKept
  <2>2. SelectedWriter(RAMPORT(IDX_BUSIF), reg, req, wi, prio) = IDX_BUSIF
    BY <2>1 DEF SelectedWriter
  <2>3. IDX_BUSIF \in PreGranted(reg, req, wi, prio)
    BY <1>8 DEF PreGranted
  <2> QED BY <1>2, <2>2, <2>3 DEF BankGrant
<1> QED BY <1>3, <1>6, <1>7, <1>8 DEF reg, req

LEMMA BankPortsInvNext ==
  ASSUME TypeInv, BankPortsInv, Next
  PROVE  BankPortsInv'
<1> SUFFICES ASSUME NEW b \in Bank
             PROVE  /\ \A p \in RP \cap gnt_bank[b] : rp_state'[p] = "read_bank"
                    /\ \A m, n \in gnt_bank[b] \ RP : RAMPORT(m) = RAMPORT(n) => m = n
  BY NextParts DEF BankPortsInv
<1>1. ASSUME NEW p \in RP \cap gnt_bank[b] PROVE rp_state'[p] = "read_bank"
  <2>1. p \in req_bank[b]
    BY <1>1, BankGrants
  <2>2. RpReqBank(p, rp_tag_in(p)) /\ GetBankOfAdr(rp_adr[p]) = b
    BY <1>1, <2>1, PortNumbers DEF req_bank
  <2>3. p \in RpBanks(gnt_bank)
    BY <1>1, <2>2 DEF RpBanks
  <2>4. /\ rp_state'[p] = RpNextState(p, busif_hit, rp_tag_in(p), p \in gnt_tagr,
                                     p \in RpBanks(gnt_bank), p \in gnt_busif, busif_busy)
    BY <1>1, NextParts DEF ReadPortEdge, rp_tag_in
  <2> QED BY <2>2, <2>3, <2>4 DEF RpNextState, NextReadTag, RpReqBank
<1> QED BY <1>1, BankGrants

\* Two addresses that share a word of a bank RAM are in the same set and way.
LEMMA WayIndexParts ==
  ASSUME NEW a \in Nat, NEW c \in Nat, NEW u \in Way, NEW v \in Way
  PROVE  /\ GetWayIndexOfAdr(a, u) \in WayIndex
         /\ GetWayIndexOfAdr(a, u) = GetWayIndexOfAdr(c, v) <=>
              GetIndexOfAdr(a) = GetIndexOfAdr(c) /\ u = v
<1> DEFINE i == GetIndexOfAdr(a)
           j == GetIndexOfAdr(c)
<1>1. i \in 0 .. CACHE_SETS - 1 /\ j \in 0 .. CACHE_SETS - 1 /\ CACHE_SETS \in Nat \ {0}
  BY AdrParts, ConfigAssumption DEF Index
<1> SUFFICES /\ i + u * CACHE_SETS \in WayIndex
             /\ i + u * CACHE_SETS = j + v * CACHE_SETS <=> i = j /\ u = v
  BY DEF GetWayIndexOfAdr
<1> HIDE DEF i, j
<1>2. CASE CACHE_WAYS = 1
  BY <1>1, <1>2 DEF Way, WayIndex
<1>3. CASE CACHE_WAYS = 2
  <2>1. u \in {0, 1} /\ v \in {0, 1}
    BY <1>3 DEF Way
  <2> QED BY <1>1, <1>3, <2>1 DEF WayIndex
<1>4. CASE CACHE_WAYS = 4
  <2>1. u \in {0, 1, 2, 3} /\ v \in {0, 1, 2, 3}
    BY <1>4 DEF Way
  <2> QED BY <1>1, <1>4, <2>1 DEF WayIndex
<1> QED BY <1>2, <1>3, <1>4, WaysAssumption

\* The states in which a write port writes its bank.
WpWritesBank == {"write_tag1_and_bank", "write_tag2_and_bank", "write_bank"}

\* The words that are written in this cycle.
WpWritesWord(w, b, wi) ==
  /\ wp_state[w] \in WpWritesBank /\ w \in WpBanks(gnt_bank)
  /\ b = GetBankOfAdr(wp_in[w].adr)
  /\ wi = GetWayIndexOfAdr(wp_in[w].adr, wp_tag_reg[w].way)

BusIfWritesWord(b, wi) ==
  /\ bi_state = "write_bank" /\ IDX_BUSIF \in gnt_bank[b]
  /\ wi = GetWayIndexOfAdr(adr_reg, bi_tag_reg.way)

\* Whom a port drives the bank RAM for.
LEMMA BankDriven ==
  ASSUME TypeInv
  PROVE  /\ \A w \in WP : wp_state[w] # "read_tag" =>
              wiadr[IDX_WP(w)] = GetWayIndexOfAdr(wp_in[w].adr, wp_tag_reg[w].way)
         /\ \A w \in WP : wp_state[w] = "read_tag" =>
              wiadr[IDX_WP(w)] = GetWayIndexOfAdr(wp_in[w].adr, tag_out[w].way)
         /\ wiadr[IDX_BUSIF] = GetWayIndexOfAdr(adr_reg, bi_tag_reg.way)
         /\ \A p \in RP : wiadr[p] = GetWayIndexOfAdr(rp_adr[p], rp_tag_in(p).way)
<1>1. ASSUME NEW w \in WP
      PROVE  wiadr[IDX_WP(w)] = GetWayIndexOfAdr(wp_in[w].adr, WpTagOut(w, tag_out[w]).way)
  <2>1. ~(IDX_WP(w) < RPORTS) /\ IDX_WP(w) < IDX_BUSIF /\ IDX_WP(w) - RPORTS = w
        /\ IDX_WP(w) \in Port
    BY PortNumbers DEF IDX_WP, IDX_BUSIF, WP
  <2> QED BY <2>1 DEF wiadr
<1>2. ASSUME NEW w \in WP, wp_state[w] # "read_tag"
      PROVE  WpTagOut(w, tag_out[w]).way = wp_tag_reg[w].way
  BY <1>2 DEF WpTagOut, TypeInv, TypeOK, Tag
<1>3. ASSUME NEW w \in WP, wp_state[w] = "read_tag"
      PROVE  WpTagOut(w, tag_out[w]).way = tag_out[w].way
  BY <1>3 DEF WpTagOut
<1>4. wiadr[IDX_BUSIF] = GetWayIndexOfAdr(adr_reg, bi_tag_out.way)
  <2>1. ~(IDX_BUSIF < RPORTS) /\ ~(IDX_BUSIF < IDX_BUSIF) /\ IDX_BUSIF \in Port
    BY PortNumbers DEF IDX_BUSIF
  <2> QED BY <2>1 DEF wiadr, busif_adr_out
<1>5. bi_tag_out.way = bi_tag_reg.way
  BY DEF bi_tag_out, new_tag, TypeInv, TypeOK, Tag
<1>6. ASSUME NEW p \in RP PROVE wiadr[p] = GetWayIndexOfAdr(rp_adr[p], rp_tag_in(p).way)
  <2>1. p < RPORTS /\ p \in Port
    BY PortNumbers DEF RP
  <2> QED BY <2>1 DEF wiadr
<1> QED BY <1>1, <1>2, <1>3, <1>4, <1>5, <1>6

\* One write port at most writes a bank, and not where the bus interface writes.
LEMMA WritersApart ==
  ASSUME TypeInv, LockInv, NEW w \in WP, wp_state[w] \in WpWritesBank
  PROVE  /\ \A v \in WP : wp_state[v] \in (WpReadsTag \cup WpHasTag) \ {"write_tag2"} => v = w
         /\ bi_state \in BusIfUsesLine \cup {"tagr"} =>
              \A u, v \in Way :
                GetWayIndexOfAdr(wp_in[w].adr, u) # GetWayIndexOfAdr(adr_reg, v)
<1>1. ASSUME NEW v \in WP, wp_state[v] \in (WpReadsTag \cup WpHasTag) \ {"write_tag2"}
      PROVE  v = w
  <2>1. v \in linelock_reg \ {LOCK_BUSIF} /\ w \in linelock_reg \ {LOCK_BUSIF}
    BY <1>1, PortNumbers DEF LockInv, WpUsesLine, WpReadsTag, WpHasTag, WpWritesBank
  <2> QED BY <2>1 DEF LockInv
<1>2. ASSUME bi_state \in BusIfUsesLine \cup {"tagr"}, NEW u \in Way, NEW v \in Way
      PROVE  GetWayIndexOfAdr(wp_in[w].adr, u) # GetWayIndexOfAdr(adr_reg, v)
  <2>1. GetIndexOfAdr(wp_in[w].adr) # GetIndexOfAdr(adr_reg)
    BY <1>2, LinesApart DEF WpHasTag, WpWritesBank
  <2>2. wp_in[w].adr \in Nat /\ adr_reg \in Nat
    BY WriteRequests, BusAddress, BusIfOfType DEF TypeInv
  <2> QED BY <2>1, <2>2, WayIndexParts
<1> QED BY <1>1, <1>2

\* Each word of the bank RAMs is written by one port or by none.
LEMMA BankWritten ==
  ASSUME TypeInv, LockInv, BankPortsInv, Next, NEW b \in Bank, NEW wi \in WayIndex
  PROVE  /\ \A w \in WP : WpWritesWord(w, b, wi) => bank_ram'[b][wi] = WpBankData(w)
         /\ BusIfWritesWord(b, wi) => bank_ram'[b][wi] = idata_reg[b]
         /\ (\A w \in WP : ~WpWritesWord(w, b, wi)) /\ ~BusIfWritesWord(b, wi) =>
              bank_ram'[b][wi] = bank_ram[b][wi]
<1> DEFINE gb == gnt_bank
           wr == bankram_wr(gb)[b]
           adr == bankram_wiadr[b]
           ports == {p \in wr : adr[p] = wi}
           writers == BankWriters(b, gb)
<1>1. bank_ram'[b][wi] =
        IF ports = {} THEN bank_ram[b][wi]
        ELSE BankWData(b, CHOOSE p \in ports : \A q \in ports : q <= p, gb)
  <2>1. bank_ram' = [c \in Bank |-> [k \in WayIndex |->
          LET at == {p \in bankram_wr(gnt_bank)[c] : bankram_wiadr[c][p] = k}
          IN  IF at = {} THEN bank_ram[c][k]
              ELSE BankWData(c, CHOOSE p \in at : \A q \in at : q <= p, gnt_bank)]]
    BY NextParts DEF BankEdge
  <2> QED BY <2>1
<1>2. wr = {RAMPORT(w) : w \in writers}
             \cup (IF IDX_BUSIF \in gb[b] /\ b \in bi_bank_wr THEN {RAMPORT_BUSIF} ELSE {})
  BY DEF bankram_wr
<1>3. ASSUME NEW w \in writers
      PROVE  /\ w \in WP /\ wp_state[w] \in WpWritesBank /\ w \in WpBanks(gb)
             /\ IDX_WP(w) \in gb[b] /\ b = GetBankOfAdr(wp_in[w].adr)
             /\ RAMPORT(w) = RAMPORT(IDX_WP(w))
             /\ adr[RAMPORT(w)] = GetWayIndexOfAdr(wp_in[w].adr, wp_tag_reg[w].way)
  <2>1. /\ w \in WP /\ IDX_WP(w) \in gb[b] /\ w \in WpBanks(gb)
        /\ wp_state[w] \in WpWritesBank
    BY <1>3 DEF BankWriters, WpBankWr, WpWritesBank
  <2>2. IDX_WP(w) \in req_bank[b]
    BY <2>1, BankGrants
  <2>3. b = GetBankOfAdr(wp_in[w].adr)
    BY <2>1, <2>2, PortNumbers DEF req_bank, IDX_WP, WP
  <2>4. RAMPORT(w) = RAMPORT(IDX_WP(w))
    BY <2>1, RamPortOfWriter, PortNumbers
  <2>5. adr[RAMPORT(w)] = wiadr[IDX_WP(w)]
    BY <2>1, <2>4, BankGrants
  <2>6. wiadr[IDX_WP(w)] = GetWayIndexOfAdr(wp_in[w].adr, wp_tag_reg[w].way)
    BY <2>1, BankDriven DEF WpWritesBank
  <2> QED BY <2>1, <2>3, <2>4, <2>5, <2>6
<1>4. ASSUME NEW w \in WP, WpWritesWord(w, b, wi) PROVE w \in writers
  BY <1>4 DEF WpWritesWord, BankWriters, WpBankWr, WpWritesBank, WpBanks
<1>5. RAMPORT(IDX_BUSIF) = RAMPORT_BUSIF
  BY DEF RAMPORT
<1>6. IDX_BUSIF \in gb[b] => adr[RAMPORT_BUSIF] = GetWayIndexOfAdr(adr_reg, bi_tag_reg.way)
  BY <1>5, BankGrants, BankDriven
<1>7. b \in bi_bank_wr => bi_state = "write_bank"
  BY DEF bi_bank_wr
<1>8. BusIfWritesWord(b, wi) => IDX_BUSIF \in gb[b] /\ b \in bi_bank_wr
  <2>1. ASSUME BusIfWritesWord(b, wi) PROVE IDX_BUSIF \in gb[b] /\ b \in bi_bank_wr
    <3>1. IDX_BUSIF \in gb[b] /\ bi_state = "write_bank"
      BY <2>1 DEF BusIfWritesWord
    <3>2. IDX_BUSIF \in req_bank[b]
      BY <3>1, BankGrants
    <3>3. b \in bi_bank_rd \cup bi_bank_wr
      BY <3>2, PortNumbers DEF req_bank
    <3> QED BY <3>1, <3>3 DEF bi_bank_rd
  <2> QED BY <2>1
<1>9. \A v, w \in writers : v = w
  <2> HIDE DEF writers, gb
  <2> QED BY <1>3, WritersApart DEF WpWritesBank, WpHasTag
<1>10. bi_tag_reg.way \in Way /\ \A w \in WP : wp_tag_reg[w].way \in Way
  BY DEF TypeInv, TypeOK, Tag
<1>11. ASSUME NEW w \in writers, IDX_BUSIF \in gb[b] PROVE RAMPORT(w) # RAMPORT_BUSIF
  BY <1>3, <1>5, <1>11, BankGrants, PortNumbers
<1>12. ASSUME NEW w \in writers, b \in bi_bank_wr, IDX_BUSIF \in gb[b]
       PROVE  adr[RAMPORT(w)] # adr[RAMPORT_BUSIF]
  <2> HIDE DEF writers, adr, gb
  <2> QED BY <1>3, <1>6, <1>7, <1>10, <1>12, WritersApart DEF BusIfUsesLine
<1>13. \A p \in wr : p \in Int
  <2>1. \A n \in gb[b] : RAMPORT(n) \in Int
    BY BankGrants DEF RamPort
  <2> HIDE DEF wr, writers, gb, adr
  <2> QED BY <1>2, <1>3, <1>5, <2>1
<1>14. ASSUME NEW w \in WP, WpWritesWord(w, b, wi)
       PROVE  bank_ram'[b][wi] = WpBankData(w)
  <2>1. w \in writers /\ adr[RAMPORT(w)] = wi /\ RAMPORT(w) \in wr
    BY <1>2, <1>3, <1>4, <1>14 DEF WpWritesWord
  <2> HIDE DEF wr, writers, gb, adr
  <2>2. ports = {RAMPORT(w)}
    BY <1>2, <1>9, <1>12, <2>1
  <2>3. RAMPORT(w) \in Int
    BY <1>13, <2>1
  <2> HIDE DEF ports
  <2>4. (CHOOSE p \in ports : \A q \in ports : q <= p) = RAMPORT(w)
    BY <2>2, <2>3
  <2>5. bank_ram'[b][wi] = BankWData(b, RAMPORT(w), gb)
    BY <1>1, <2>2, <2>4
  <2>6. BankWData(b, RAMPORT(w), gb)
          = WpBankData(CHOOSE v \in writers : RAMPORT(v) = RAMPORT(w))
    BY <1>11, <2>1 DEF BankWData, writers
  <2>7. (CHOOSE v \in writers : RAMPORT(v) = RAMPORT(w)) = w
    BY <1>9, <2>1
  <2> QED BY <2>5, <2>6, <2>7
<1>15. ASSUME BusIfWritesWord(b, wi)
       PROVE  bank_ram'[b][wi] = idata_reg[b]
  <2>1. IDX_BUSIF \in gb[b] /\ b \in bi_bank_wr /\ adr[RAMPORT_BUSIF] = wi /\ RAMPORT_BUSIF \in wr
    BY <1>2, <1>6, <1>8, <1>15 DEF BusIfWritesWord
  <2> HIDE DEF wr, writers, gb, adr
  <2>2. ports = {RAMPORT_BUSIF}
    BY <1>2, <1>12, <2>1
  <2>3. RAMPORT_BUSIF \in Int
    BY <1>13, <2>1
  <2> HIDE DEF ports
  <2>4. (CHOOSE p \in ports : \A q \in ports : q <= p) = RAMPORT_BUSIF
    BY <2>2, <2>3
  <2>5. bank_ram'[b][wi] = BankWData(b, RAMPORT_BUSIF, gb)
    BY <1>1, <2>2, <2>4
  <2> QED BY <2>1, <2>5 DEF BankWData
<1>16. ASSUME \A w \in WP : ~WpWritesWord(w, b, wi), ~BusIfWritesWord(b, wi)
       PROVE  bank_ram'[b][wi] = bank_ram[b][wi]
  <2>1. ASSUME NEW w \in writers PROVE adr[RAMPORT(w)] # wi
    <3> HIDE DEF adr, writers
    <3> QED BY <1>3, <1>16, <2>1 DEF WpWritesWord
  <2>2. IDX_BUSIF \in gb[b] /\ b \in bi_bank_wr => adr[RAMPORT_BUSIF] # wi
    BY <1>6, <1>7, <1>16 DEF BusIfWritesWord
  <2> HIDE DEF wr, writers, gb, adr
  <2>3. ports = {}
    BY <1>2, <2>1, <2>2
  <2> QED BY <1>1, <2>3
<1> QED BY <1>14, <1>15, <1>16

\* A bank that is granted for reading returns the word as it is after the edge.
LEMMA BankRead ==
  ASSUME TypeInv, BankPortsInv, Next, NEW b \in Bank, NEW n \in gnt_bank[b],
         n = IDX_BUSIF => b \in bi_bank_rd
  PROVE  bankram_rdata'[b][RAMPORT(n)] = bank_ram'[b][wiadr[n]]
<1>1. bankram_rdata' = [c \in Bank |-> [p \in RamPort |->
        IF p \in bankram_rd(gnt_bank)[c] THEN bank_ram'[c][bankram_wiadr[c][p]]
        ELSE bankram_rdata[c][p]]]
  <2> DEFINE ram == [c \in Bank |-> [k \in WayIndex |->
               LET at == {p \in bankram_wr(gnt_bank)[c] : bankram_wiadr[c][p] = k}
               IN  IF at = {} THEN bank_ram[c][k]
                   ELSE BankWData(c, CHOOSE p \in at : \A q \in at : q <= p, gnt_bank)]]
  <2>1. /\ bank_ram' = ram
        /\ bankram_rdata' = [c \in Bank |-> [p \in RamPort |->
             IF p \in bankram_rd(gnt_bank)[c] THEN ram[c][bankram_wiadr[c][p]]
             ELSE bankram_rdata[c][p]]]
    BY NextParts DEF BankEdge
  <2> HIDE DEF ram
  <2> QED BY <2>1
<1>2. RAMPORT(n) \in bankram_rd(gnt_bank)[b]
  BY DEF bankram_rd
<1>3. RAMPORT(n) \in RamPort /\ bankram_wiadr[b][RAMPORT(n)] = wiadr[n]
  BY BankGrants
<1> QED BY <1>1, <1>2, <1>3

\* Of the line it works on, the bus interface alone or the write port alone writes
\* the words.
LEMMA LineWords ==
  ASSUME TypeInv, LockInv, BankPortsInv, Next, NEW b \in Bank, NEW v \in Way
  PROVE  /\ bi_state \in BusIfUsesLine \cup {"tagr"} =>
              LET wi == GetWayIndexOfAdr(adr_reg, v)
              IN  bank_ram'[b][wi] = IF BusIfWritesWord(b, wi) THEN idata_reg[b]
                                     ELSE bank_ram[b][wi]
         /\ \A w \in WP : wp_state[w] \in (WpReadsTag \cup WpHasTag) \ {"write_tag2"} =>
              LET wi == GetWayIndexOfAdr(wp_in[w].adr, v)
              IN  bank_ram'[b][wi] = IF WpWritesWord(w, b, wi) THEN WpBankData(w)
                                     ELSE bank_ram[b][wi]
<1>1. adr_reg \in Nat /\ bi_tag_reg.way \in Way
      /\ \A w \in WP : wp_in[w].adr \in Nat /\ wp_tag_reg[w].way \in Way
  BY WriteRequests, BusAddress, BusIfOfType DEF TypeInv, TypeOK, Tag
<1>2. ASSUME bi_state \in BusIfUsesLine \cup {"tagr"}
      PROVE  LET wi == GetWayIndexOfAdr(adr_reg, v)
             IN  bank_ram'[b][wi] = IF BusIfWritesWord(b, wi) THEN idata_reg[b]
                                    ELSE bank_ram[b][wi]
  <2> DEFINE wi == GetWayIndexOfAdr(adr_reg, v)
  <2>1. wi \in WayIndex
    BY <1>1, WayIndexParts
  <2>2. \A w \in WP : ~WpWritesWord(w, b, wi)
    BY <1>1, <1>2, WritersApart DEF WpWritesWord
  <2> HIDE DEF wi
  <2>3. bank_ram'[b][wi] = IF BusIfWritesWord(b, wi) THEN idata_reg[b] ELSE bank_ram[b][wi]
    BY <2>1, <2>2, BankWritten
  <2> QED BY <2>3 DEF wi
<1>3. ASSUME NEW w \in WP, wp_state[w] \in (WpReadsTag \cup WpHasTag) \ {"write_tag2"}
      PROVE  LET wi == GetWayIndexOfAdr(wp_in[w].adr, v)
             IN  bank_ram'[b][wi] = IF WpWritesWord(w, b, wi) THEN WpBankData(w)
                                    ELSE bank_ram[b][wi]
  <2> DEFINE wi == GetWayIndexOfAdr(wp_in[w].adr, v)
  <2>1. wi \in WayIndex
    BY <1>1, WayIndexParts
  <2>2. ASSUME NEW x \in WP, WpWritesWord(x, b, wi) PROVE x = w
    BY <1>3, <2>2, WritersApart DEF WpWritesWord
  <2>3. ~BusIfWritesWord(b, wi)
    <3>1. ASSUME bi_state = "write_bank"
          PROVE  wi # GetWayIndexOfAdr(adr_reg, bi_tag_reg.way)
      <4>1. GetIndexOfAdr(wp_in[w].adr) # GetIndexOfAdr(adr_reg)
        BY <1>3, <3>1, LinesApart DEF BusIfUsesLine
      <4> QED BY <1>1, <4>1, WayIndexParts
    <3> HIDE DEF wi
    <3> QED BY <3>1 DEF BusIfWritesWord
  <2> HIDE DEF wi
  <2>4. bank_ram'[b][wi] = IF WpWritesWord(w, b, wi) THEN WpBankData(w) ELSE bank_ram[b][wi]
    BY <2>1, <2>2, <2>3, BankWritten
  <2> QED BY <2>4 DEF wi
<1> QED BY <1>2, <1>3

\* A write port reads the word of its line, to merge a partial write into it.
MergeInv ==
  \A w \in WP :
    LET a == wp_in[w].adr
        b == GetBankOfAdr(a)
        wi == GetWayIndexOfAdr(a, wp_tag_reg[w].way)
    IN  /\ wp_state[w] = "read_bank" =>
             bankram_rdata[b][RAMPORT(w)] = bank_ram[b][wi]
        /\ wp_state[w] \in WpWritesBank /\ WpPartial(w) =>
             data_reg[w] = bank_ram[b][wi]

\* How a write port gets to read its bank, and from there to write it.
LEMMA WpBankMoves ==
  ASSUME TypeInv, Next, NEW w \in WP
  PROVE  /\ wp_state'[w] = "read_bank" =>
              \/ /\ wp_state[w] = "read_tag" /\ w \in WpBanks(gnt_bank)
                 /\ wp_tag_reg'[w] = tag_out[w]
              \/ /\ wp_state[w] = "have_tag_request_bank" /\ w \in WpBanks(gnt_bank)
                 /\ wp_tag_reg'[w] = wp_tag_reg[w]
         /\ wp_state'[w] \in WpWritesBank =>
              \/ wp_state[w] \in WpReadsTag /\ ~WpPartial(w)
              \/ wp_state[w] = "read_bank" /\ wp_tag_reg'[w] = wp_tag_reg[w]
                   /\ data_reg'[w] = wp_bank_data_in[w]
              \/ wp_state[w] \in WpWritesBank /\ w \notin WpBanks(gnt_bank)
                   /\ wp_tag_reg'[w] = wp_tag_reg[w] /\ data_reg'[w] = data_reg[w]
<1> DEFINE g == WpGrant(w)
<1>1. wp_state'[w] = WpNextState(w, tag_out[w], g)
  BY WriteAcknowledged
<1>2. g.bank <=> w \in WpBanks(gnt_bank)
  BY DEF WpGrant, WpGrants
<1>3. wp_state[w] \in WritePortState
  BY DEF TypeInv, TypeOK
<1>4. /\ wp_tag_reg'[w] = IF wp_state[w] \in WpReadsTag THEN tag_out[w] ELSE wp_tag_reg[w]
      /\ data_reg'[w] = IF wp_state[w] = "read_bank" THEN wp_bank_data_in[w] ELSE data_reg[w]
  BY NextParts DEF WritePortEdge, WpReadsTag
<1> HIDE DEF g
<1> USE DEF WpReadsTag, WpWritesBank
<1>5. CASE wp_state[w] = "init"
  BY <1>1, <1>5 DEF WpNextState, NextFromInit, NextDirect
<1>6. CASE wp_state[w] # "init"
  BY <1>1, <1>2, <1>3, <1>4, <1>6 DEF WpNextState, NextAfterTag, NextWrite, NextMiss,
                                     WritePortState
<1> QED BY <1>5, <1>6

LEMMA MergeInvNext ==
  ASSUME AccessInv, BankPortsInv, MergeInv, Next
  PROVE  MergeInv'
<1> USE DEF AccessInv
<1> SUFFICES ASSUME NEW w \in WP
             PROVE  LET a == wp_in'[w].adr
                        b == GetBankOfAdr(a)
                        wi == GetWayIndexOfAdr(a, wp_tag_reg'[w].way)
                    IN  /\ wp_state'[w] = "read_bank" =>
                             bankram_rdata'[b][RAMPORT(w)] = bank_ram'[b][wi]
                        /\ wp_state'[w] \in WpWritesBank /\ WpPartial(w)' =>
                             data_reg'[w] = bank_ram'[b][wi]
  BY DEF MergeInv
<1> DEFINE a == wp_in[w].adr
           b == GetBankOfAdr(a)
           wi == GetWayIndexOfAdr(a, wp_tag_reg[w].way)
<1>1. a \in Nat /\ b \in Bank /\ wp_tag_reg[w].way \in Way
  BY WriteRequests, AdrParts DEF TypeInv, TypeOK, Tag
<1>2. wp_state'[w] \in WpHasTag => wp_in'[w] = wp_in[w]
  BY WpTagMoves
<1>3. (wp_state[w] \in WpWritesBank /\ w \notin WpBanks(gnt_bank)) \/ wp_state[w] = "read_bank" =>
        bank_ram'[b][wi] = bank_ram[b][wi]
  <2>1. ASSUME \/ wp_state[w] \in WpWritesBank /\ w \notin WpBanks(gnt_bank)
               \/ wp_state[w] = "read_bank"
        PROVE  bank_ram'[b][wi] = bank_ram[b][wi]
    <3>1. wp_state[w] \in (WpReadsTag \cup WpHasTag) \ {"write_tag2"}
          /\ ~WpWritesWord(w, b, wi)
      BY <2>1 DEF WpWritesBank, WpHasTag, WpWritesWord
    <3> QED BY <1>1, <3>1, LineWords
  <2> QED BY <2>1
<1>4. ASSUME wp_state'[w] = "read_bank"
      PROVE  /\ wp_in'[w] = wp_in[w]
             /\ bankram_rdata'[b][RAMPORT(w)]
                  = bank_ram'[b][GetWayIndexOfAdr(a, wp_tag_reg'[w].way)]
  <2> DEFINE n == IDX_WP(w)
  <2>1. \/ /\ wp_state[w] = "read_tag" /\ w \in WpBanks(gnt_bank)
           /\ wp_tag_reg'[w] = tag_out[w]
        \/ /\ wp_state[w] = "have_tag_request_bank" /\ w \in WpBanks(gnt_bank)
           /\ wp_tag_reg'[w] = wp_tag_reg[w]
    BY <1>4, WpBankMoves
  <2>2. n \in gnt_bank[b] /\ n # IDX_BUSIF
    BY <2>1, PortNumbers DEF WpBanks
  <2>3. RAMPORT(n) = RAMPORT(w)
    BY RamPortOfWriter, PortNumbers
  <2>4. wiadr[n] = GetWayIndexOfAdr(a, wp_tag_reg'[w].way)
    BY <2>1, BankDriven
  <2> HIDE DEF n, b, a
  <2>5. bankram_rdata'[b][RAMPORT(n)] = bank_ram'[b][wiadr[n]]
    BY <1>1, <2>2, BankRead
  <2> QED BY <1>2, <1>4, <2>3, <2>4, <2>5 DEF WpHasTag
<1>5. ASSUME wp_state'[w] \in WpWritesBank, WpPartial(w)'
      PROVE  /\ wp_in'[w] = wp_in[w] /\ wp_tag_reg'[w] = wp_tag_reg[w]
             /\ data_reg'[w] = bank_ram'[b][wi]
  <2>1. wp_in'[w] = wp_in[w] /\ WpPartial(w)
    BY <1>2, <1>5 DEF WpWritesBank, WpHasTag, WpPartial
  <2>2. CASE /\ wp_state[w] = "read_bank" /\ wp_tag_reg'[w] = wp_tag_reg[w]
             /\ data_reg'[w] = wp_bank_data_in[w]
    <3>1. data_reg'[w] = bankram_rdata[b][RAMPORT(w)]
      BY <2>2 DEF wp_bank_data_in
    <3> QED BY <1>3, <2>1, <2>2, <3>1 DEF MergeInv
  <2>3. CASE /\ wp_state[w] \in WpWritesBank /\ w \notin WpBanks(gnt_bank)
             /\ wp_tag_reg'[w] = wp_tag_reg[w] /\ data_reg'[w] = data_reg[w]
    BY <1>3, <2>1, <2>3 DEF MergeInv
  <2> QED BY <1>5, <2>1, <2>2, <2>3, WpBankMoves
<1> HIDE DEF a, b, wi
<1>6. wp_state'[w] = "read_bank" =>
        LET c == wp_in'[w].adr
        IN  bankram_rdata'[GetBankOfAdr(c)][RAMPORT(w)]
              = bank_ram'[GetBankOfAdr(c)][GetWayIndexOfAdr(c, wp_tag_reg'[w].way)]
  BY <1>4 DEF a, b, wi
<1>7. wp_state'[w] \in WpWritesBank /\ WpPartial(w)' =>
        LET c == wp_in'[w].adr
        IN  data_reg'[w]
              = bank_ram'[GetBankOfAdr(c)][GetWayIndexOfAdr(c, wp_tag_reg'[w].way)]
  BY <1>5 DEF a, b, wi
<1> QED BY <1>6, <1>7

-----------------------------------------------------------------------------
(* The line the bus interface fetches and the line it saves.               *)

\* Once its tag is invalid, the line that is replaced is not in the cache.
VictimGone ==
  bi_state \in BusIfInvalid \cup BusIfNew /\ bi_tag_reg.dirty =>
    \A v \in Way : ~(/\ TagEntry(adr_reg).way[v].valid
                     /\ TagEntry(adr_reg).way[v].tadr = bi_tag_reg.tadr)

LEMMA VictimGoneNext ==
  ASSUME AccessInv, VictimInv, VictimGone, Next
  PROVE  VictimGone'
<1> USE DEF AccessInv
<1> DEFINE in == BusIfLines
           i == GetIndexOfAdr(adr_reg)
           k == bi_tag_reg.way
<1>1. BusIfEdge(in) /\ BusIfType /\ BusIfJob /\ bi_op \notin SpecialOp /\ VictimSaved
        /\ adr_reg \in Nat /\ i \in Index /\ k \in Way
  BY NextParts, BusIfOfType, BusAddress, AdrParts
     DEF BusIfLines, BusIfInputs, TypeInv, LockInv, VictimInv, BusIfType, Tag
<1> HIDE DEF in
<1> SUFFICES ASSUME bi_state' \in BusIfInvalid \cup BusIfNew, bi_tag_reg'.dirty,
                    NEW v \in Way
             PROVE  LET new == tag_ram'[GetIndexOfAdr(adr_reg')].way[v]
                    IN  ~(new.valid /\ new.tadr = bi_tag_reg'.tadr)
  BY DEF VictimGone, TagEntry
<1>2. bi_state \in BusIfInvalid \cup BusIfNew \cup {"tagw_inv1"}
  BY <1>1, BusIfWayMoves DEF BusIfInvalid
<1>3. bi_tag_reg' = bi_tag_reg /\ GetIndexOfAdr(adr_reg') = i
  BY <1>1, <1>2, BusIfWayMoves, BusIfLineMoves DEF BusIfOld, BusIfInvalid, BusIfNew
<1>4. bi_state \in BusIfTagWrite1 => v = k \/
        (/\ tag_ram'[i].way[v].valid = tag_ram[i].way[v].valid
         /\ tag_ram'[i].way[v].tadr = tag_ram[i].way[v].tadr)
  BY <1>1, LinesHeld
<1>5. CASE bi_state = "tagw_inv1"
  <2>1. CASE v = k
    <3>1. bi_tag_out.valid = FALSE
      BY <1>1, <1>5 DEF bi_tag_out, BusIfType, Tag
    <3>2. tag_ram'[i].way[v].valid = FALSE
      BY <1>5, <2>1, <3>1, BusIfWritesWay DEF BusIfTagWrite1
    <3> QED BY <1>3, <3>2
  <2>2. CASE v # k
    <3>1. bi_tag_reg.dirty = tag_ram[i].way[k].dirty /\ bi_tag_reg.tadr = tag_ram[i].way[k].tadr
      BY <1>5 DEF VictimInv, BusIfOld, OldWay, TagEntry
    <3>2. tag_ram[i].way[k].valid
      BY <1>1, <1>3, <1>5, <3>1 DEF VictimInv, BusIfInvalid
    <3>3. ~(tag_ram[i].way[v].valid /\ tag_ram[i].way[v].tadr = bi_tag_reg.tadr)
      BY <1>1, <2>2, <3>1, <3>2 DEF TagsInv, OneWayPerLine
    <3> QED BY <1>3, <1>4, <1>5, <2>2, <3>3 DEF BusIfTagWrite1
  <2> QED BY <2>1, <2>2
<1>6. CASE bi_state = "tagw1"
  <2>1. CASE v = k
    <3>1. bi_tag_out.tadr = GetTagOfAdr(adr_reg)
      BY <1>1, <1>6 DEF bi_tag_out, new_tag
    <3>2. tag_ram'[i].way[v].tadr = GetTagOfAdr(adr_reg)
      BY <1>6, <2>1, <3>1, BusIfWritesWay DEF BusIfTagWrite1
    <3>3. bi_tag_reg.tadr # GetTagOfAdr(adr_reg)
      BY <1>3, <1>6 DEF VictimInv, BusIfInvalid
    <3> QED BY <1>3, <3>2, <3>3
  <2>2. CASE v # k
    BY <1>1, <1>3, <1>4, <1>6, <2>2 DEF VictimGone, TagEntry, BusIfInvalid, BusIfTagWrite1
  <2> QED BY <2>1, <2>2
<1>7. CASE bi_state \in (BusIfInvalid \cup BusIfNew) \ {"tagw1"}
  <2>1. tag_ram'[i].way[v] = tag_ram[i].way[v]
    BY <1>7, BusIfLineHeld DEF BusIfInvalid, BusIfNew, BusIfUsesLine, BusIfTagWrite1
  <2> QED BY <1>3, <1>7, <2>1 DEF VictimGone, TagEntry
<1> QED BY <1>2, <1>5, <1>6, <1>7

LineWord(adr, b) == ComposeAdress(GetTagOfAdr(adr), GetIndexOfAdr(adr), b)
SavedWord(b)     == ComposeAdress(bi_tag_reg.tadr, GetIndexOfAdr(adr_reg), b)

\* The words of these lines.
LEMMA LineWordParts ==
  ASSUME TypeInv, NEW b \in Bank
  PROVE  /\ LET c == LineWord(adr_reg, b)
            IN  /\ c \in Nat /\ GetTagOfAdr(c) = GetTagOfAdr(adr_reg)
                /\ GetIndexOfAdr(c) = GetIndexOfAdr(adr_reg) /\ GetBankOfAdr(c) = b
         /\ bi_op \in LineOp => LineWord(adr_reg, b) \in LineAdr
         /\ LET c == SavedWord(b)
            IN  /\ c \in Nat /\ c % 4 = 0 /\ GetTagOfAdr(c) = bi_tag_reg.tadr
                /\ GetIndexOfAdr(c) = GetIndexOfAdr(adr_reg) /\ GetBankOfAdr(c) = b
<1>1. /\ adr_reg \in Nat /\ GetTagOfAdr(adr_reg) \in Nat /\ GetIndexOfAdr(adr_reg) \in Index
  BY BusAddress, BusIfOfType, AdrParts DEF TypeInv
<1>2. bi_tag_reg.tadr \in Nat
  <2>1. TagAdr \subseteq Nat
    BY AdrParts, DataAssumption DEF TagAdr
  <2> QED BY <2>1 DEF TypeInv, TypeOK, Tag
<1>3. bi_op \in LineOp => LineWord(adr_reg, b) \in LineAdr
  <2>1. bi_op \in LineOp => adr_reg \in LineAdr
    BY DEF TypeInv, BusIfJob
  <2> QED BY <2>1, LineParts DEF LineWord
<1> QED BY <1>1, <1>2, <1>3, ComposeParts DEF LineWord, SavedWord

\* Memory is written by a direct write and by the write-back of a line.
LEMMA MemoryWritten ==
  ASSUME TypeInv, Next, NEW a \in MemAdr
  PROVE  /\ bi_state = "dwrite" /\ wb_ack_i /\ a = adr_reg =>
              mem'[a] = CombineData(bsel_reg, mem[a], odata_reg[GetBankOfAdr(a)])
         /\ bi_state = "writeback" /\ wb_ack_i /\ a = SavedWord(wb_bank) =>
              mem'[a] = odata_reg[wb_bank]
         /\ \/ bi_state = "dwrite" /\ wb_ack_i /\ a = adr_reg
            \/ bi_state = "writeback" /\ wb_ack_i /\ a = SavedWord(wb_bank)
            \/ mem'[a] = mem[a]
<1>1. /\ mem \in [MemAdr -> Word] /\ odata_reg \in [Bank -> Word] /\ wb_bank \in Bank
      /\ mem' = IF wb_we_o /\ wb_ack_i
                THEN [mem EXCEPT ![wb_adr_o] = CombineData(wb_sel_o, @, wb_dat_o)]
                ELSE mem
  BY NextParts, BusAddress, BusIfOfType DEF MemoryEdge, TypeInv, TypeOK
<1>2. CASE bi_state = "dwrite"
  <2>1. /\ wb_we_o /\ wb_adr_o = adr_reg /\ wb_sel_o = bsel_reg
        /\ wb_dat_o = odata_reg[GetBankOfAdr(adr_reg)]
    BY <1>2 DEF wb_we_o, wb_adr_o, wb_sel_o, wb_dat_o, wb_bank, adrOfs
  <2> QED BY <1>1, <1>2, <2>1
<1>3. CASE bi_state = "writeback"
  <2>1. /\ wb_we_o /\ wb_adr_o = SavedWord(wb_bank) /\ wb_sel_o = Lane
        /\ wb_dat_o = odata_reg[wb_bank]
    BY <1>3 DEF wb_we_o, wb_adr_o, wb_sel_o, wb_dat_o, SavedWord
  <2>2. CombineData(Lane, mem[a], odata_reg[wb_bank]) = odata_reg[wb_bank]
    BY <1>1 DEF CombineData, Word
  <2> QED BY <1>1, <1>3, <2>1, <2>2
<1>4. CASE bi_state \notin {"dwrite", "writeback"}
  BY <1>1, <1>4 DEF wb_we_o
<1> QED BY <1>2, <1>3, <1>4

\* What the bus interface forwards is what memory holds, and a fetch reads the banks
\* in turn.
FetchInv ==
  /\ bi_state = "dread_ack" => idata_reg[GetBankOfAdr(adr_reg)] = mem[adr_reg]
  /\ bi_state \in {"fetch"} \cup BusIfFetched =>
       \A b \in idata_valid_reg : idata_reg[b] = mem[LineWord(adr_reg, b)]
  /\ bi_state = "fetch" /\ bi_count # CACHE_BANKS =>
       \A b \in Bank \ idata_valid_reg : \E k \in 1 .. bi_count :
         b = adrOfs + k \/ b = adrOfs + k - CACHE_BANKS
  /\ bi_state \in BusIfFetched => idata_valid_reg = Bank

\* The bank of the next word of a fetch.
LEMMA BanksInTurn ==
  ASSUME NEW ofs \in Bank, NEW left \in 1 .. CACHE_BANKS, NEW valid, valid \subseteq Bank,
         NEW next, next = (IF left = CACHE_BANKS THEN ofs ELSE ofs + 1) % CACHE_BANKS,
         left # CACHE_BANKS =>
           \A b \in Bank \ valid : \E k \in 1 .. left :
             b = ofs + k \/ b = ofs + k - CACHE_BANKS
  PROVE  \A b \in Bank \ (valid \cup {next}) : \E k \in 1 .. left - 1 :
           b = next + k \/ b = next + k - CACHE_BANKS
<1>1. CACHE_BANKS \in Nat \ {0} /\ ofs \in 0 .. CACHE_BANKS - 1 /\ left \in Nat
  BY ConfigAssumption DEF Bank
<1> SUFFICES ASSUME NEW b \in Bank, b \notin valid, b # next
             PROVE  \E k \in 1 .. left - 1 : b = next + k \/ b = next + k - CACHE_BANKS
  OBVIOUS
<1>2. b \in 0 .. CACHE_BANKS - 1
  BY DEF Bank
<1>3. CASE left = CACHE_BANKS
  <2>1. next = ofs
    BY <1>1, <1>3
  <2>2. CASE b > ofs
    <3>1. b - ofs \in 1 .. left - 1 /\ b = next + (b - ofs)
      BY <1>1, <1>2, <1>3, <2>1, <2>2
    <3> QED BY <3>1
  <2>3. CASE b < ofs
    <3>1. b - ofs + CACHE_BANKS \in 1 .. left - 1
          /\ b = next + (b - ofs + CACHE_BANKS) - CACHE_BANKS
      BY <1>1, <1>2, <1>3, <2>1, <2>3
    <3> QED BY <3>1
  <2> QED BY <1>1, <1>2, <2>1, <2>2, <2>3
<1>4. CASE left # CACHE_BANKS
  <2>1. PICK k \in 1 .. left : b = ofs + k \/ b = ofs + k - CACHE_BANKS
    BY <1>4
  <2>2. next = ofs + 1 \/ next = ofs + 1 - CACHE_BANKS
    BY <1>1, <1>4
  <2>3. next \in 0 .. CACHE_BANKS - 1 /\ (next = ofs + 1 - CACHE_BANKS => next = 0)
    BY <1>1, <1>4
  <2>4. k # 1
    BY <1>1, <1>2, <2>1, <2>2, <2>3
  <2>5. k - 1 \in 1 .. left - 1
    BY <1>1, <2>1, <2>4
  <2>6. b = next + (k - 1) \/ b = next + (k - 1) - CACHE_BANKS
    BY <1>1, <1>2, <2>1, <2>2, <2>3, <2>5
  <2> QED BY <2>5, <2>6
<1> QED BY <1>3, <1>4

\* What the bus interface reads from the bus.
LEMMA BusIfReads ==
  ASSUME TypeInv, RequestersInv, FetchInv, bi_op \notin SpecialOp,
         NEW in, BusIfEdge(in), wb_stb_o => in.dat = mem[wb_adr_o]
  PROVE  /\ bi_state' = "dread_ack" =>
              /\ bi_state = "dread" /\ adr_reg' = adr_reg
              /\ idata_reg'[GetBankOfAdr(adr_reg)] = mem[adr_reg]
         /\ bi_state' \in {"fetch"} \cup BusIfFetched =>
              /\ bi_state \in {"tag_done", "fetch"} \cup BusIfFetched
              /\ \A b \in idata_valid_reg' : idata_reg'[b] = mem[LineWord(adr_reg, b)]
         /\ bi_state' = "fetch" /\ bi_count' # CACHE_BANKS =>
              \A b \in Bank \ idata_valid_reg' : \E k \in 1 .. bi_count' :
                b = GetBankOfAdr(adr_reg') + k \/ b = GetBankOfAdr(adr_reg') + k - CACHE_BANKS
         /\ bi_state' \in BusIfFetched => idata_valid_reg' = Bank
<1> USE DEF Goto, opVars, idataVars, bankVars, BusIfFetched
<1>0. /\ BusIfType /\ BusIfJob /\ bi_state \in BusIfState
      /\ bi_state \in LineState => bi_op = "replace"
      /\ bi_op = "nothing" <=> bi_state \in {"idle", "ack"}
      /\ idata_valid_reg # {} => bi_state \in {"dread_ack", "fetch"} \cup BusIfFetched
      /\ idata_reg \in [Bank -> Word] /\ idata_valid_reg \subseteq Bank
  BY BusIfOfType DEF TypeInv, TypeOK, RequestersInv, BusIfJob, LineOp, SpecialOp
<1>00. /\ bi_state \in {"fetch"} \cup BusIfFetched =>
            \A b \in idata_valid_reg : idata_reg[b] = mem[LineWord(adr_reg, b)]
       /\ bi_state = "fetch" /\ bi_count # CACHE_BANKS =>
            \A b \in Bank \ idata_valid_reg : \E k \in 1 .. bi_count :
              b = adrOfs + k \/ b = adrOfs + k - CACHE_BANKS
       /\ bi_state \in BusIfFetched => idata_valid_reg = Bank
  BY DEF FetchInv
<1>1. CASE Idle(in) \/ Unlock(in)
  BY <1>1 DEF Idle, Unlock, AcceptNewOp
<1>2. CASE Start
  BY <1>2 DEF Start
<1>3. CASE DirectRead(in)
  <2>1. wb_stb_o /\ wb_adr_o = adr_reg /\ GetBankOfAdr(adr_reg) \in Bank
    BY <1>0, <1>3, BusAddress DEF DirectRead, wb_stb_o, adrOfs
  <2> QED BY <1>0, <1>3, <2>1 DEF DirectRead
<1>4. CASE DirectReadDone \/ DirectWrite(in)
  BY <1>4 DEF DirectReadDone, DirectWrite
<1>5. CASE GotLineLock(in) \/ GotTagR(in) \/ CaptureTag(in)
  BY <1>5 DEF GotLineLock, GotTagR, CaptureTag
<1>6. CASE Dispatch
  BY <1>0, <1>6 DEF Dispatch, LineState
<1>7. CASE Fetch(in)
  <2>1. /\ bi_state = "fetch" /\ wb_bank \in Bank /\ adrOfs \in Bank
        /\ bi_count \in 1 .. CACHE_BANKS /\ CACHE_BANKS \in Nat \ {0}
        /\ GetBankOfAdr(wb_adr_o) = wb_bank /\ wb_adr_o = LineWord(adr_reg, wb_bank)
        /\ wb_stb_o
        /\ wb_bank = (IF bi_count = CACHE_BANKS THEN adrOfs ELSE adrOfs + 1) % CACHE_BANKS
    BY <1>0, <1>7, BusAddress, ConfigAssumption
       DEF Fetch, BusIfType, BusIfJob, wb_stb_o, wb_adr_o, wb_bank, LineWord
  <2>2. /\ bi_state' \in {"fetch"} \cup BusIfFetched
        /\ idata_reg' = [idata_reg EXCEPT ![wb_bank] = in.dat]
        /\ idata_valid_reg' = idata_valid_reg \cup {wb_bank} /\ adr_reg' = wb_adr_o
        /\ bi_count' = bi_count - 1
        /\ bi_count = 1 <=> bi_state' # "fetch"
    BY <1>7 DEF Fetch, GotoAfterFetch, SaveOldLine, AfterSave
  <2>3. \A b \in Bank \ idata_valid_reg' : \E k \in 1 .. bi_count - 1 :
          b = wb_bank + k \/ b = wb_bank + k - CACHE_BANKS
    <3> DEFINE next  == wb_bank
               ofs   == adrOfs
               left  == bi_count
               valid == idata_valid_reg
    <3>1. /\ ofs \in Bank /\ left \in 1 .. CACHE_BANKS /\ valid \subseteq Bank
          /\ next = (IF left = CACHE_BANKS THEN ofs ELSE ofs + 1) % CACHE_BANKS
          /\ left # CACHE_BANKS =>
               \A b \in Bank \ valid : \E k \in 1 .. left :
                 b = ofs + k \/ b = ofs + k - CACHE_BANKS
      BY <1>0, <1>00, <2>1
    <3> HIDE DEF next, ofs, left, valid
    <3>2. \A b \in Bank \ (valid \cup {next}) : \E k \in 1 .. left - 1 :
            b = next + k \/ b = next + k - CACHE_BANKS
      BY <3>1, BanksInTurn
    <3> QED BY <2>2, <3>2 DEF next, left, valid
  <2>4. bi_state' # "fetch" => idata_valid_reg' = Bank
    <3>1. bi_count = 1 => 1 .. bi_count - 1 = {}
      BY <2>1
    <3>2. idata_valid_reg' \subseteq Bank
      BY <1>0, <2>1, <2>2
    <3> QED BY <2>2, <2>3, <3>1, <3>2
  <2>5. \A b \in idata_valid_reg' : idata_reg'[b] = mem[LineWord(adr_reg, b)]
    BY <1>0, <1>00, <2>1, <2>2
  <2>6. /\ bi_state' # "dread_ack" /\ bi_count' = bi_count - 1
        /\ GetBankOfAdr(adr_reg') = wb_bank
    BY <2>1, <2>2
  <2>7. \A b \in Bank \ idata_valid_reg' : \E k \in 1 .. bi_count' :
          b = GetBankOfAdr(adr_reg') + k \/ b = GetBankOfAdr(adr_reg') + k - CACHE_BANKS
    BY <2>3, <2>6
  <2>8. bi_state' \in BusIfFetched => idata_valid_reg' = Bank
    BY <2>4
  <2> QED BY <2>1, <2>2, <2>5, <2>6, <2>7, <2>8
<1>8. CASE ReadBank(in)
  BY <1>0, <1>00, <1>8 DEF ReadBank, AfterSave, LineState
<1>9. CASE GotTagWInv(in) \/ WriteInvalidTag \/ InvalidTagDone
  BY <1>0, <1>00, <1>9 DEF GotTagWInv, WriteInvalidTag, InvalidTagDone
<1>10. CASE WriteBank(in)
  BY <1>0, <1>00, <1>10 DEF WriteBank
<1>11. CASE GotTagW(in) \/ WriteNewTag
  BY <1>0, <1>00, <1>11 DEF GotTagW, WriteNewTag
<1>12. CASE NewTagDone
  BY <1>0, <1>00, <1>12 DEF NewTagDone, Acknowledge
<1>13. CASE StartWriteBack \/ WriteBack(in)
  BY <1>0, <1>00, <1>13 DEF StartWriteBack, WriteBack, Acknowledge
<1>14. CASE Waiting(in)
  BY <1>0, <1>00, <1>14 DEF Waiting, busIfVars, adrOfs
<1> QED BY BusIfEdge(in), <1>1, <1>2, <1>3, <1>4, <1>5, <1>6, <1>7, <1>8, <1>9,
           <1>10, <1>11, <1>12, <1>13, <1>14 DEF BusIfEdge

LEMMA FetchInvNext ==
  ASSUME AccessInv, RequestersInv, VictimInv, FetchInv, Next
  PROVE  FetchInv'
<1> USE DEF AccessInv
<1> DEFINE in == BusIfLines
<1>1. BusIfEdge(in) /\ BusIfType /\ BusIfJob /\ bi_op \notin SpecialOp
      /\ in.dat = IF wb_stb_o THEN mem[wb_adr_o] ELSE AnyWord
  BY NextParts, BusIfOfType DEF BusIfLines, BusIfInputs, TypeInv, LockInv
<1> HIDE DEF in
<1>2. /\ bi_state' = "dread_ack" =>
           /\ bi_state = "dread" /\ adr_reg' = adr_reg
           /\ idata_reg'[GetBankOfAdr(adr_reg)] = mem[adr_reg]
      /\ bi_state' \in {"fetch"} \cup BusIfFetched =>
           /\ bi_state \in {"tag_done", "fetch"} \cup BusIfFetched
           /\ \A b \in idata_valid_reg' : idata_reg'[b] = mem[LineWord(adr_reg, b)]
      /\ bi_state' = "fetch" /\ bi_count' # CACHE_BANKS =>
           \A b \in Bank \ idata_valid_reg' : \E k \in 1 .. bi_count' :
             b = GetBankOfAdr(adr_reg') + k \/ b = GetBankOfAdr(adr_reg') + k - CACHE_BANKS
      /\ bi_state' \in BusIfFetched => idata_valid_reg' = Bank
  BY <1>1, BusIfReads
<1>3. ~wb_we_o => mem' = mem
  BY NextParts DEF MemoryEdge
<1>4. ASSUME bi_state' \in {"fetch"} \cup BusIfFetched, NEW b \in idata_valid_reg'
      PROVE  idata_reg'[b] = mem'[LineWord(adr_reg', b)]
  <2>1. /\ bi_state \in {"tag_done", "fetch"} \cup BusIfFetched
        /\ idata_reg'[b] = mem[LineWord(adr_reg, b)]
    BY <1>2, <1>4
  <2>2. b \in Bank
    BY TypeInvNext DEF TypeInv, TypeOK
  <2>3. LineWord(adr_reg', b) = LineWord(adr_reg, b)
    BY <1>1, <2>1, BusIfLineMoves DEF LineWord, BusIfFetched
  <2>4. mem'[LineWord(adr_reg, b)] = mem[LineWord(adr_reg, b)]
    <3>1. CASE bi_state # "writeback"
      BY <1>3, <2>1, <3>1 DEF wb_we_o, BusIfFetched
    <3>2. CASE bi_state = "writeback"
      <4>1. bi_tag_reg.tadr # GetTagOfAdr(adr_reg) /\ bi_op \in LineOp
        BY <1>1, <3>2 DEF VictimInv, VictimSaved, BusIfNew, BusIfJob, LineState, BusIfState
      <4>2. LineWord(adr_reg, b) \in MemAdr /\ wb_bank \in Bank
        BY <1>1, <2>2, <4>1, LineWordParts, BusAddress DEF LineAdr, MemAdr
      <4>3. LineWord(adr_reg, b) # SavedWord(wb_bank)
        BY <2>2, <4>1, <4>2, LineWordParts
      <4> QED BY <3>2, <4>2, <4>3, MemoryWritten
    <3> QED BY <3>1, <3>2
  <2> QED BY <2>1, <2>3, <2>4
<1>5. bi_state' = "dread_ack" => idata_reg'[GetBankOfAdr(adr_reg')] = mem'[adr_reg']
  BY <1>2, <1>3 DEF wb_we_o
<1> QED BY <1>2, <1>4, <1>5 DEF FetchInv, adrOfs

OldWord(b) == bank_ram[b][GetWayIndexOfAdr(adr_reg, bi_tag_reg.way)]

\* The old line is copied to odata_reg and the new one to the banks, bank by bank;
\* then the old line is written to memory.
CopyInv ==
  /\ bi_state = "read_bank" =>
       /\ banksLeft \subseteq bi_req_bank
       /\ \A b \in Bank \ bi_req_bank : odata_reg[b] = OldWord(b)
       /\ \A b \in bi_req_bank \ banksLeft :
            IDX_BUSIF \in bank_reg[b] /\ bankram_rdata[b][RAMPORT_BUSIF] = OldWord(b)
  /\ bi_state \in {"tagw_inv_req", "tagw_inv1"} /\ write_victim =>
       \A b \in Bank : odata_reg[b] = OldWord(b)
  /\ bi_state = "write_bank" =>
       /\ bi_req_bank = banksLeft
       /\ \A b \in Bank \ banksLeft : OldWord(b) = idata_reg[b]
  /\ bi_state \in {"tagw_req", "tagw1"} => \A b \in Bank : OldWord(b) = idata_reg[b]
  /\ bi_state = "writeback" =>
       \A b \in Bank : b + bi_count < CACHE_BANKS /\ SavedWord(b) \in MemAdr =>
         mem[SavedWord(b)] = odata_reg[b]

\* What the bus interface copies.
LEMMA BusIfCopies ==
  ASSUME BusIfType, BusIfJob, bi_op \notin SpecialOp, VictimSaved, NEW in, BusIfEdge(in)
  PROVE  /\ bi_state' = "read_bank" =>
              \/ bi_req_bank' = Bank /\ banksLeft' = Bank
              \/ /\ bi_state = "read_bank" /\ bi_req_bank' = banksLeft
                 /\ banksLeft' = banksLeft \ in.gnt_bank
         /\ bi_state = "read_bank" =>
              odata_reg' = [b \in Bank |-> IF b \in in.gnt_bank THEN in.bank_data[b]
                                           ELSE odata_reg[b]]
         /\ bi_state' \in {"tagw_inv_req", "tagw_inv1"} /\ write_victim' =>
              \/ bi_state = "read_bank" /\ banksLeft = {}
              \/ bi_state \in {"tagw_inv_req", "tagw_inv1"} /\ write_victim
         /\ bi_state' = "write_bank" =>
              /\ bi_req_bank' = banksLeft'
              /\ \/ banksLeft' = Bank
                 \/ bi_state = "write_bank" /\ banksLeft' = banksLeft \ in.gnt_bank
         /\ bi_state' \in {"tagw_req", "tagw1"} =>
              \/ bi_state = "write_bank" /\ banksLeft \ in.gnt_bank = {}
              \/ bi_state \in {"tagw_req", "tagw1"}
         /\ bi_state \in BusIfFetched =>
              /\ idata_reg' = idata_reg
              /\ bi_state = "read_bank" \/ (odata_reg' = odata_reg /\ write_victim' = write_victim)
         /\ bi_state' = "writeback" =>
              \/ bi_count' = CACHE_BANKS
              \/ /\ bi_state = "writeback"
                 /\ \/ bi_count' = bi_count /\ ~in.ack
                    \/ bi_count' = bi_count - 1 /\ in.ack
<1> USE DEF Goto, opVars, idataVars, bankVars, BusIfFetched
<1>0. /\ bi_state \in BusIfState
      /\ bi_state \in LineState => bi_op = "replace"
      /\ bi_op = "nothing" <=> bi_state \in {"idle", "ack"}
      /\ bi_state \in {"dread", "dread_ack", "dwrite", "linelock", "tagr", "tagr2", "tag_done",
                       "fetch", "read_bank"} => ~write_victim
  BY DEF BusIfType, BusIfJob, LineOp, SpecialOp, VictimSaved
<1>1. CASE Idle(in) \/ Unlock(in)
  BY <1>1 DEF Idle, Unlock, AcceptNewOp
<1>2. CASE Start
  BY <1>2 DEF Start
<1>3. CASE DirectRead(in) \/ DirectReadDone \/ DirectWrite(in)
  BY <1>3 DEF DirectRead, DirectReadDone, DirectWrite
<1>4. CASE GotLineLock(in) \/ GotTagR(in) \/ CaptureTag(in)
  BY <1>4 DEF GotLineLock, GotTagR, CaptureTag
<1>5. CASE Dispatch
  BY <1>0, <1>5 DEF Dispatch, GotoAfterFetch, SaveOldLine, AfterSave, LineState
<1>6. CASE Fetch(in)
  BY <1>0, <1>6 DEF Fetch, GotoAfterFetch, SaveOldLine, AfterSave, LineState
<1>7. CASE ReadBank(in)
  BY <1>0, <1>7 DEF ReadBank, AfterSave, LineState
<1>8. CASE GotTagWInv(in) \/ WriteInvalidTag \/ InvalidTagDone
  BY <1>8 DEF GotTagWInv, WriteInvalidTag, InvalidTagDone
<1>9. CASE WriteBank(in)
  BY <1>9 DEF WriteBank
<1>10. CASE GotTagW(in) \/ WriteNewTag
  BY <1>10 DEF GotTagW, WriteNewTag
<1>11. CASE NewTagDone
  BY <1>0, <1>11 DEF NewTagDone, Acknowledge
<1>12. CASE StartWriteBack \/ WriteBack(in)
  BY <1>0, <1>12 DEF StartWriteBack, WriteBack, Acknowledge
<1>13. CASE Waiting(in)
  BY <1>13 DEF Waiting, busIfVars
<1> QED BY BusIfEdge(in), <1>1, <1>2, <1>3, <1>4, <1>5, <1>6, <1>7, <1>8, <1>9,
           <1>10, <1>11, <1>12, <1>13 DEF BusIfEdge

LEMMA CopyInvNext ==
  ASSUME AccessInv, BankPortsInv, VictimInv, CopyInv, Next
  PROVE  CopyInv'
<1> USE DEF AccessInv
<1> DEFINE in  == BusIfLines
           gnt == {b \in Bank : IDX_BUSIF \in gnt_bank[b]}
           wi  == GetWayIndexOfAdr(adr_reg, bi_tag_reg.way)
           new == GetWayIndexOfAdr(adr_reg', bi_tag_reg'.way)
<1>1. /\ BusIfEdge(in) /\ BusIfType /\ BusIfJob /\ bi_op \notin SpecialOp /\ VictimSaved
      /\ in.gnt_bank = gnt /\ (in.ack <=> wb_ack_i)
      /\ in.bank_data = [b \in Bank |-> bankram_rdata[b][RAMPORT_BUSIF]]
      /\ adr_reg \in Nat /\ bi_tag_reg.way \in Way
  BY NextParts, BusIfOfType, BusAddress
     DEF BusIfLines, BusIfInputs, TypeInv, LockInv, VictimInv, BusIfType, Tag
<1> HIDE DEF in
<1>2. bi_state \in BusIfFetched =>
        /\ new = wi /\ GetIndexOfAdr(adr_reg') = GetIndexOfAdr(adr_reg)
        /\ bi_tag_reg' = bi_tag_reg /\ idata_reg' = idata_reg
        /\ bi_state = "read_bank" \/ odata_reg' = odata_reg
  <2>1. ASSUME bi_state \in BusIfFetched
        PROVE  /\ GetIndexOfAdr(adr_reg') = GetIndexOfAdr(adr_reg) /\ bi_tag_reg' = bi_tag_reg
               /\ idata_reg' = idata_reg
               /\ bi_state = "read_bank" \/ odata_reg' = odata_reg
    BY <1>1, <2>1, BusIfLineMoves, BusIfWayMoves, BusIfCopies
       DEF BusIfFetched, BusIfOld, BusIfInvalid, BusIfNew
  <2> QED BY <2>1 DEF GetWayIndexOfAdr
<1>3. ASSUME bi_state \in BusIfFetched, NEW b \in Bank
      PROVE  bank_ram'[b][wi] = IF bi_state = "write_bank" /\ b \in gnt THEN idata_reg[b]
                                ELSE bank_ram[b][wi]
  <2>1. bi_state \in BusIfUsesLine
    BY <1>3 DEF BusIfFetched, BusIfUsesLine
  <2>2. bank_ram'[b][wi] = IF BusIfWritesWord(b, wi) THEN idata_reg[b] ELSE bank_ram[b][wi]
    BY <1>1, <2>1, LineWords
  <2>3. BusIfWritesWord(b, wi) <=> bi_state = "write_bank" /\ b \in gnt
    BY DEF BusIfWritesWord
  <2> QED BY <2>2, <2>3
<1>4. ASSUME bi_state = "read_bank", NEW b \in Bank
      PROVE  /\ b \in gnt => b \in bi_req_bank
             /\ b \in bi_req_bank /\ IDX_BUSIF \in bank_reg[b] => b \in gnt
             /\ b \in gnt => /\ IDX_BUSIF \in bank_reg'[b]
                             /\ bankram_rdata'[b][RAMPORT_BUSIF] = bank_ram'[b][wi]
  <2>1. bi_bank_rd = bi_req_bank /\ bi_bank_wr = {}
    BY <1>4 DEF bi_bank_rd, bi_bank_wr
  <2>2. IDX_BUSIF \in req_bank[b] <=> b \in bi_req_bank
    BY <2>1, PortNumbers DEF req_bank
  <2>3. /\ gnt_bank[b] \subseteq req_bank[b]
        /\ IDX_BUSIF \in bank_reg[b] \cap req_bank[b] => IDX_BUSIF \in gnt_bank[b]
    BY BankGrants
  <2>4. b \in gnt => bankram_rdata'[b][RAMPORT(IDX_BUSIF)] = bank_ram'[b][wiadr[IDX_BUSIF]]
    BY <2>1, <2>2, <2>3, BankRead
  <2>5. wiadr[IDX_BUSIF] = wi
    BY BankDriven
  <2>6. RAMPORT(IDX_BUSIF) = RAMPORT_BUSIF
    BY DEF RAMPORT
  <2>7. bank_reg' = gnt_bank
    BY NextParts
  <2> QED BY <2>2, <2>3, <2>4, <2>5, <2>6, <2>7
<1>5. ASSUME bi_state = "read_bank", NEW b \in Bank, b \notin banksLeft
      PROVE  odata_reg'[b] = bank_ram'[b][wi]
  <2>1. odata_reg'[b] = IF b \in gnt THEN bankram_rdata[b][RAMPORT_BUSIF] ELSE odata_reg[b]
    BY <1>1, <1>5, BusIfCopies
  <2>2. bank_ram'[b][wi] = bank_ram[b][wi]
    BY <1>3, <1>5 DEF BusIfFetched
  <2> QED BY <1>4, <1>5, <2>1, <2>2 DEF CopyInv, OldWord
<1>6. ASSUME bi_state' = "read_bank"
      PROVE  /\ banksLeft' \subseteq bi_req_bank'
             /\ \A b \in Bank \ bi_req_bank' : odata_reg'[b] = bank_ram'[b][new]
             /\ \A b \in bi_req_bank' \ banksLeft' :
                  IDX_BUSIF \in bank_reg'[b]
                  /\ bankram_rdata'[b][RAMPORT_BUSIF] = bank_ram'[b][new]
  <2>1. CASE bi_req_bank' = Bank /\ banksLeft' = Bank
    BY <2>1
  <2>2. CASE /\ bi_state = "read_bank" /\ bi_req_bank' = banksLeft
             /\ banksLeft' = banksLeft \ gnt
    <3>1. new = wi /\ banksLeft \subseteq Bank
      BY <1>2, <2>2 DEF BusIfFetched, TypeInv, TypeOK
    <3> QED BY <1>4, <1>5, <2>2, <3>1
  <2> QED BY <1>1, <1>6, <2>1, <2>2, BusIfCopies
<1>7. ASSUME bi_state' \in {"tagw_inv_req", "tagw_inv1"}, write_victim', NEW b \in Bank
      PROVE  odata_reg'[b] = bank_ram'[b][new]
  <2>1. CASE bi_state = "read_bank" /\ banksLeft = {}
    BY <1>2, <1>5, <2>1 DEF BusIfFetched
  <2>2. CASE bi_state \in {"tagw_inv_req", "tagw_inv1"} /\ write_victim
    BY <1>2, <1>3, <2>2 DEF BusIfFetched, CopyInv, OldWord
  <2> QED BY <1>1, <1>7, <2>1, <2>2, BusIfCopies
<1>8. ASSUME bi_state = "write_bank", NEW b \in Bank, b \notin banksLeft \ gnt
      PROVE  bank_ram'[b][new] = idata_reg'[b]
  BY <1>2, <1>3, <1>8 DEF BusIfFetched, CopyInv, OldWord
<1>9. ASSUME bi_state' = "write_bank"
      PROVE  /\ bi_req_bank' = banksLeft'
             /\ \A b \in Bank \ banksLeft' : bank_ram'[b][new] = idata_reg'[b]
  BY <1>1, <1>8, <1>9, BusIfCopies
<1>10. ASSUME bi_state' \in {"tagw_req", "tagw1"}, NEW b \in Bank
       PROVE  bank_ram'[b][new] = idata_reg'[b]
  <2>1. CASE bi_state = "write_bank" /\ banksLeft \ gnt = {}
    BY <1>8, <2>1
  <2>2. CASE bi_state \in {"tagw_req", "tagw1"}
    BY <1>2, <1>3, <2>2 DEF BusIfFetched, CopyInv, OldWord
  <2> QED BY <1>1, <1>10, <2>1, <2>2, BusIfCopies
<1>11. ASSUME bi_state' = "writeback", NEW b \in Bank, b + bi_count' < CACHE_BANKS,
              SavedWord(b)' \in MemAdr
       PROVE  mem'[SavedWord(b)'] = odata_reg'[b]
  <2>1. CACHE_BANKS \in Nat /\ b \in Nat /\ bi_count \in Nat
    BY ConfigAssumption DEF Bank, TypeInv, TypeOK
  <2>2. /\ bi_state = "writeback"
        /\ \/ bi_count' = bi_count /\ ~wb_ack_i
           \/ bi_count' = bi_count - 1 /\ wb_ack_i
    <3>1. bi_count' # CACHE_BANKS
      BY <1>11, <2>1
    <3>2. /\ bi_state = "writeback"
          /\ \/ bi_count' = bi_count /\ ~in.ack
             \/ bi_count' = bi_count - 1 /\ in.ack
      BY <1>1, <1>11, <3>1, BusIfCopies
    <3> QED BY <1>1, <3>2
  <2>3. SavedWord(b)' = SavedWord(b) /\ odata_reg' = odata_reg
    BY <1>2, <2>2 DEF SavedWord, BusIfFetched
  <2>4. wb_bank = CACHE_BANKS - bi_count /\ wb_bank \in Bank
    BY <1>1, <2>2, BusAddress DEF wb_bank
  <2>5. CASE b = wb_bank /\ wb_ack_i
    BY <1>11, <2>2, <2>3, <2>5, MemoryWritten
  <2>6. CASE ~(b = wb_bank /\ wb_ack_i)
    <3>1. b + bi_count < CACHE_BANKS
      BY <1>11, <2>1, <2>2, <2>4, <2>6
    <3>2. mem[SavedWord(b)] = odata_reg[b]
      BY <1>11, <2>2, <2>3, <3>1 DEF CopyInv
    <3>3. b # wb_bank => SavedWord(b) # SavedWord(wb_bank)
      BY <2>4, LineWordParts
    <3>4. mem'[SavedWord(b)] = mem[SavedWord(b)]
      BY <1>11, <2>2, <2>3, <2>6, <3>3, MemoryWritten
    <3> QED BY <2>3, <3>2, <3>4
  <2> QED BY <2>5, <2>6
<1> QED BY <1>6, <1>7, <1>9, <1>10, <1>11 DEF CopyInv, OldWord

-----------------------------------------------------------------------------
(* Clean lines.                                                            *)

\* A word of memory is known by its tag, index and bank.
LEMMA SameWord ==
  /\ \A a \in MemAdr : a \in Nat /\ a % 4 = 0
  /\ \A a, c \in MemAdr :
       /\ GetTagOfAdr(a) = GetTagOfAdr(c) /\ GetIndexOfAdr(a) = GetIndexOfAdr(c)
       /\ GetBankOfAdr(a) = GetBankOfAdr(c)
       => a = c
<1>1. ASSUME NEW a \in MemAdr PROVE a \in Nat /\ a % 4 = 0
  <2>1. CASE a \in DirectAdr
    BY <2>1, DataAssumption
  <2>2. CASE a \in LineAdr
    <3>1. PICK d \in CachedAdr : a \in LineOf(d)
      BY <2>2 DEF LineAdr
    <3>2. PICK b \in Bank : a = ComposeAdress(GetTagOfAdr(d), GetIndexOfAdr(d), b)
      BY <3>1 DEF LineOf
    <3>3. d \in Nat /\ GetTagOfAdr(d) \in Nat /\ GetIndexOfAdr(d) \in Index
      BY AdrParts, DataAssumption
    <3> QED BY <3>2, <3>3, ComposeParts
  <2> QED BY <2>1, <2>2, MemAdrParts
<1> QED BY <1>1, ComposeOfParts

BankWord(adr, v) == bank_ram[GetBankOfAdr(adr)][GetWayIndexOfAdr(adr, v)]

\* A line that is not dirty is what memory holds, but for the word of a write port
\* that is about to mark it dirty.
CleanInv ==
  \A a \in LineAdr : \A v \in Way :
    HoldsLine(a, v) =>
      \/ TagEntry(a).way[v].dirty
      \/ BankWord(a, v) = mem[a]
      \/ \E w \in WP : wp_state[w] = "write_tag1" /\ wp_in[w].adr = a

\* A write port that has written its bank goes on to mark the line dirty.
LEMMA WpMarkMoves ==
  ASSUME TypeInv, Next, NEW w \in WP, w \notin NextTagW,
         \/ wp_state[w] = "write_tag1"
         \/ wp_state[w] = "write_tag1_and_bank" /\ w \in WpBanks(gnt_bank)
  PROVE  wp_state'[w] = "write_tag1" /\ wp_in'[w] = wp_in[w]
<1> DEFINE g == WpGrant(w)
<1>1. wp_state'[w] = WpNextState(w, tag_out[w], g)
  BY WriteAcknowledged
<1>2. (g.tagw <=> w \in NextTagW) /\ (g.bank <=> w \in WpBanks(gnt_bank))
  BY DEF WpGrant, WpGrants
<1> HIDE DEF g
<1>3. wp_state'[w] = "write_tag1"
  BY <1>1, <1>2 DEF WpNextState
<1> QED BY <1>3, WpTagMoves DEF WpHasTag

\* What an edge does to a word of a line that is in the cache.
LEMMA CachedWordChange ==
  ASSUME AccessInv, BankPortsInv, VictimInv, VictimGone, Next,
         NEW a \in LineAdr, NEW v \in Way, HoldsLine(a, v)
  PROVE  LET b  == GetBankOfAdr(a)
             wi == GetWayIndexOfAdr(a, v)
         IN  /\ mem'[a] = mem[a]
             /\ \/ bank_ram'[b][wi] = bank_ram[b][wi]
                     /\ \A w \in WP : ~WpWritesWord(w, b, wi)
                \/ \E w \in WP : /\ WpWritesWord(w, b, wi)
                                 /\ wp_in[w].adr = a /\ wp_tag_reg[w].way = v
                                 /\ bank_ram'[b][wi] = WpBankData(w)
<1> USE DEF AccessInv
<1> DEFINE b  == GetBankOfAdr(a)
           wi == GetWayIndexOfAdr(a, v)
<1>1. a \in Nat /\ b \in Bank /\ wi \in WayIndex /\ a \in MemAdr /\ a \notin DirectAdr
  BY LineParts, AdrParts, WayIndexParts
<1>2. adr_reg \in Nat /\ bi_tag_reg.way \in Way
  BY BusAddress, BusIfOfType DEF TypeInv, TypeOK, Tag
<1>3. mem'[a] = mem[a]
  <2>1. bi_state = "dwrite" => adr_reg \in DirectAdr
    BY DEF TypeInv, BusIfJob
  <2>2. ASSUME bi_state = "writeback", a = SavedWord(wb_bank) PROVE FALSE
    <3>1. wb_bank \in Bank
      BY BusAddress, BusIfOfType DEF TypeInv
    <3>2. GetTagOfAdr(a) = bi_tag_reg.tadr /\ GetIndexOfAdr(a) = GetIndexOfAdr(adr_reg)
      BY <2>2, <3>1, LineWordParts
    <3>3. bi_tag_reg.dirty
      BY <2>2 DEF VictimInv, VictimSaved, BusIfNew
    <3> QED BY <2>2, <3>2, <3>3 DEF VictimGone, HoldsLine, TagEntry, BusIfNew
  <2> QED BY <1>1, <2>1, <2>2, MemoryWritten
<1>4. ~BusIfWritesWord(b, wi)
  <2>1. ASSUME bi_state = "write_bank", wi = GetWayIndexOfAdr(adr_reg, bi_tag_reg.way)
        PROVE  FALSE
    <3>1. GetIndexOfAdr(a) = GetIndexOfAdr(adr_reg) /\ v = bi_tag_reg.way
      BY <1>1, <1>2, <2>1, WayIndexParts
    <3> QED BY <2>1, <3>1 DEF VictimInv, OldWay, BusIfInvalid, HoldsLine, TagEntry
  <2> HIDE DEF wi
  <2> QED BY <2>1 DEF BusIfWritesWord
<1>5. ASSUME NEW w \in WP, WpWritesWord(w, b, wi)
      PROVE  wp_in[w].adr = a /\ wp_tag_reg[w].way = v
  <2> DEFINE c == wp_in[w].adr
  <2>1. c \in Nat /\ wp_tag_reg[w].way \in Way
    BY WriteRequests DEF TypeInv, TypeOK, Tag
  <2>2. GetBankOfAdr(c) = b /\ wi = GetWayIndexOfAdr(c, wp_tag_reg[w].way)
        /\ wp_state[w] \in WpWritesBank
    BY <1>5 DEF WpWritesWord
  <2>3. GetIndexOfAdr(c) = GetIndexOfAdr(a) /\ wp_tag_reg[w].way = v
    BY <1>1, <2>1, <2>2, WayIndexParts
  <2>4. HoldsLine(c, v)
    BY <2>2, <2>3 DEF TagsInv, TagsKnown, WpWritesBank, WpHasTag
  <2>5. GetTagOfAdr(c) = GetTagOfAdr(a)
    BY <2>3, <2>4 DEF HoldsLine, TagEntry
  <2>6. c \in MemAdr
    <3>1. wp_state[w] \in CachedWrite
      BY <2>2 DEF CachedWrite, WpWritesBank, SpecialState, WritePortState
    <3>2. WpWrites(w) /\ ~WpDirect(w)
      BY <3>1 DEF TypeInv, WritesHeld
    <3> QED BY <3>2, WriteRequests, MemAdrParts DEF WpDirect, WpWrites
  <2> QED BY <1>1, <2>2, <2>3, <2>5, <2>6, SameWord
<1> HIDE DEF b, wi
<1>6. \/ bank_ram'[b][wi] = bank_ram[b][wi] /\ \A w \in WP : ~WpWritesWord(w, b, wi)
      \/ \E w \in WP : WpWritesWord(w, b, wi) /\ bank_ram'[b][wi] = WpBankData(w)
  BY <1>1, <1>4, BankWritten
<1> QED BY <1>3, <1>5, <1>6 DEF b, wi

LEMMA CleanInvNext ==
  ASSUME AccessInv, BankPortsInv, VictimInv, DirtyInv, VictimGone, FetchInv, CopyInv,
         CleanInv, Next
  PROVE  CleanInv'
<1> USE DEF AccessInv
<1> SUFFICES ASSUME NEW a \in LineAdr, NEW v \in Way,
                    LET new == tag_ram'[GetIndexOfAdr(a)].way[v]
                    IN  new.valid /\ new.tadr = GetTagOfAdr(a) /\ ~new.dirty
             PROVE  LET b  == GetBankOfAdr(a)
                        wi == GetWayIndexOfAdr(a, v)
                    IN  \/ bank_ram'[b][wi] = mem'[a]
                        \/ \E w \in WP : wp_state'[w] = "write_tag1" /\ wp_in'[w].adr = a
  BY DEF CleanInv, HoldsLine, TagEntry, BankWord
<1> DEFINE b   == GetBankOfAdr(a)
           i   == GetIndexOfAdr(a)
           wi  == GetWayIndexOfAdr(a, v)
           new == tag_ram'[i].way[v]
<1>1. a \in Nat /\ b \in Bank /\ i \in Index /\ a \in MemAdr /\ a \notin DirectAdr
  BY LineParts, AdrParts
<1>2. CASE new = tag_ram[i].way[v]
  <2>1. HoldsLine(a, v) /\ ~TagEntry(a).way[v].dirty
    BY <1>2 DEF HoldsLine, TagEntry
  <2>2. \A w \in WP : wp_state[w] \in WpHasTag /\ wp_in[w].adr = a => wp_tag_reg[w].way = v
    <3>1. ASSUME NEW w \in WP, wp_state[w] \in WpHasTag, wp_in[w].adr = a
          PROVE  wp_tag_reg[w].way = v
      <4>1. wp_tag_reg[w].way \in Way /\ HoldsLine(a, wp_tag_reg[w].way)
        BY <3>1 DEF TagsInv, TagsKnown, TypeInv, TypeOK, Tag
      <4> QED BY <1>1, <2>1, <4>1 DEF TagsInv, OneWayPerLine, HoldsLine, TagEntry
    <3> QED BY <3>1
  <2>3. ASSUME NEW w \in WP, wp_in[w].adr = a, wp_state[w] \in {"write_tag1_and_bank", "write_tag1"}
        PROVE  w \notin NextTagW
    <3>1. wp_tag_reg[w].way = v
      BY <2>2, <2>3 DEF WpHasTag
    <3> QED BY <1>2, <2>1, <2>3, <3>1, WpWritesWay DEF TagEntry
  <2>4. CASE \E w \in WP : wp_state[w] = "write_tag1" /\ wp_in[w].adr = a
    <3>1. PICK w \in WP : wp_state[w] = "write_tag1" /\ wp_in[w].adr = a
      BY <2>4
    <3>2. wp_state'[w] = "write_tag1" /\ wp_in'[w] = wp_in[w]
      BY <2>3, <3>1, WpMarkMoves
    <3> QED BY <3>1, <3>2
  <2>5. CASE \E w \in WP : WpWritesWord(w, b, wi) /\ wp_in[w].adr = a /\ wp_tag_reg[w].way = v
    <3>1. PICK w \in WP : WpWritesWord(w, b, wi) /\ wp_in[w].adr = a /\ wp_tag_reg[w].way = v
      BY <2>5
    <3>2. wp_state[w] \in WpWritesBank /\ w \in WpBanks(gnt_bank)
      BY <3>1 DEF WpWritesWord
    <3>3. wp_state[w] = "write_tag1_and_bank"
      BY <2>1, <3>1, <3>2 DEF DirtyInv, WpWritesBank
    <3>4. wp_state'[w] = "write_tag1" /\ wp_in'[w] = wp_in[w]
      BY <2>3, <3>1, <3>2, <3>3, WpMarkMoves
    <3> QED BY <3>1, <3>4
  <2>6. CASE bank_ram'[b][wi] = bank_ram[b][wi]
             /\ ~\E w \in WP : wp_state[w] = "write_tag1" /\ wp_in[w].adr = a
    <3>1. mem'[a] = mem[a]
      BY <2>1, CachedWordChange
    <3>2. bank_ram[b][wi] = mem[a]
      BY <2>1, <2>6 DEF CleanInv, BankWord
    <3> QED BY <2>6, <3>1, <3>2
  <2> QED BY <2>1, <2>4, <2>5, <2>6, CachedWordChange
<1>3. CASE bi_state \in BusIfTagWrite1 /\ i = GetIndexOfAdr(adr_reg) /\ v = bi_tag_reg.way
  <2>1. /\ new.valid = bi_tag_out.valid /\ new.tadr = bi_tag_out.tadr
    BY <1>3, BusIfWritesWay
  <2>2. bi_state = "tagw1"
    <3>1. bi_state = "tagw_inv1" => bi_tag_out.valid = FALSE
      BY DEF bi_tag_out, TypeInv, TypeOK, Tag
    <3> QED BY <1>3, <2>1, <3>1 DEF BusIfTagWrite1
  <2>3. GetTagOfAdr(a) = GetTagOfAdr(adr_reg) /\ bi_op \in LineOp
    <3>1. bi_tag_out.tadr = GetTagOfAdr(adr_reg)
      BY <2>2 DEF bi_tag_out, new_tag
    <3> QED BY <2>1, <2>2, <3>1 DEF TypeInv, BusIfJob, LineState, BusIfState
  <2>4. a = LineWord(adr_reg, b)
    <3>1. LineWord(adr_reg, b) \in MemAdr
      BY <1>1, <2>3, LineWordParts, MemAdrParts
    <3> QED BY <1>1, <1>3, <2>3, <3>1, LineWordParts, SameWord
  <2>5. bank_ram[b][wi] = idata_reg[b]
    BY <1>1, <1>3, <2>2 DEF CopyInv, OldWord, GetWayIndexOfAdr
  <2>6. idata_reg[b] = mem[a]
    BY <1>1, <2>2, <2>4 DEF FetchInv, BusIfFetched
  <2>7. bank_ram'[b][wi] = bank_ram[b][wi]
    <3> DEFINE k == GetWayIndexOfAdr(adr_reg, v)
    <3>1. k = wi
      BY <1>3 DEF GetWayIndexOfAdr
    <3>2. bank_ram'[b][k] = IF BusIfWritesWord(b, k) THEN idata_reg[b] ELSE bank_ram[b][k]
      BY <1>1, <2>2, LineWords DEF BusIfUsesLine
    <3> HIDE DEF k, wi
    <3> QED BY <2>2, <3>1, <3>2 DEF BusIfWritesWord
  <2>8. mem' = mem
    BY <2>2, NextParts DEF MemoryEdge, wb_we_o
  <2> QED BY <2>5, <2>6, <2>7, <2>8
<1> QED BY <1>1, <1>2, <1>3, WayChange

-----------------------------------------------------------------------------
DataInv ==
  /\ RequestersInv /\ MissesInv /\ VictimInv /\ DirtyInv /\ BankPortsInv
  /\ MergeInv /\ VictimGone /\ FetchInv /\ CopyInv /\ CleanInv

LEMMA DataInit ==
  ASSUME Init
  PROVE  DataInv
<1>1. /\ \A i \in Index : \A v \in Way : ~tag_ram[i].way[v].valid /\ ~tag_ram[i].way[v].dirty
      /\ tagr_reg = {} /\ busif_reg = {} /\ bank_reg = [b \in Bank |-> {}]
      /\ bi_state = "idle" /\ bi_op = "nothing" /\ idata_valid_reg = {}
      /\ \A w \in WP : wp_state[w] = "init"
      /\ \A p \in RP : rp_state[p] = "init"
  BY DEF Init, TagRamInit, BusIfInit, WritePortInit, ReadPortInit
<1>2. RequestersInv
  BY <1>1 DEF RequestersInv
<1>3. MissesInv
  BY <1>1 DEF MissesInv
<1>4. VictimInv
  BY <1>1 DEF VictimInv, VictimSaved, BusIfOld, BusIfInvalid, BusIfNew
<1>5. DirtyInv /\ MergeInv
  BY <1>1 DEF DirtyInv, MergeInv, WpReadsTag, WpWritesBank
<1>6. BankPortsInv
  BY <1>1 DEF BankPortsInv
<1>7. VictimGone /\ FetchInv /\ CopyInv
  BY <1>1 DEF VictimGone, FetchInv, CopyInv, BusIfInvalid, BusIfNew, BusIfFetched
<1>8. CleanInv
  <2>1. \A a \in LineAdr : GetIndexOfAdr(a) \in Index
    BY LineParts, AdrParts
  <2> QED BY <1>1, <2>1 DEF CleanInv, HoldsLine, TagEntry
<1> QED BY <1>2, <1>3, <1>4, <1>5, <1>6, <1>7, <1>8 DEF DataInv

LEMMA DataStutter ==
  ASSUME DataInv, UNCHANGED vars
  PROVE  DataInv'
<1>1. UNCHANGED <<tag_ram, tag_out, tagram_ready, tagr_reg, busif_reg, bank_reg>>
  BY DEF vars, tagRamVars, arbiterVars
<1>2. UNCHANGED <<bi_state, bi_op, adr_reg, idata_reg, idata_valid_reg, odata_reg,
                  bi_tag_reg, bi_req_bank, banksLeft, bi_count, write_victim>>
  BY DEF vars, busIfVars, opVars, idataVars, bankVars
<1>3. UNCHANGED <<rp_state, rp_adr, wp_state, wp_in, wp_tag_reg, data_reg,
                  bank_ram, bankram_rdata, mem>>
  BY DEF vars, readPortVars, writePortVars, cpuVars
<1> USE DEF DataInv
<1>4. RequestersInv'
  BY <1>1, <1>2, <1>3 DEF RequestersInv, ReplacesFor, busif_busy
<1>5. MissesInv'
  BY <1>1, <1>2, <1>3 DEF MissesInv, NoWayHolds, HoldsLine, TagEntry, rp_tag_in, busif_busy
<1>6. VictimInv'
  BY <1>1, <1>2 DEF VictimInv, VictimSaved, HoldsLine, TagEntry, OldWay
<1>7. DirtyInv' /\ MergeInv'
  BY <1>1, <1>3 DEF DirtyInv, MergeInv, TagEntry, WpPartial
<1>8. BankPortsInv'
  BY <1>1, <1>3 DEF BankPortsInv
<1>9. VictimGone' /\ FetchInv' /\ CopyInv'
  BY <1>1, <1>2, <1>3 DEF VictimGone, FetchInv, CopyInv, OldWord, LineWord, SavedWord,
                          TagEntry, adrOfs
<1>10. CleanInv'
  BY <1>1, <1>3 DEF CleanInv, HoldsLine, TagEntry, BankWord
<1> QED BY <1>4, <1>5, <1>6, <1>7, <1>8, <1>9, <1>10

LEMMA DataInvariant ==
  ASSUME NoCacheControl
  PROVE  Spec => [](AccessInv /\ DataInv)
<1> DEFINE IInv == AccessInv /\ DataInv
<1>1. Init => IInv
  BY TypeInvInit, AccessInit, TagsInit, DataInit DEF AccessInv
<1>2. ASSUME IInv, [Next]_vars PROVE IInv'
  <2>1. CASE Next
    <3>1. AccessInv'
      BY <1>2, <2>1, NoCacheControl, TypeInvNext, TagRamInvNext, LockInvNext, TagsInvNext
         DEF AccessInv
    <3>2. RequestersInv' /\ MissesInv' /\ VictimInv' /\ DirtyInv' /\ BankPortsInv'
      BY <1>2, <2>1, RequestersInvNext, MissesInvNext, VictimInvNext, DirtyInvNext,
         BankPortsInvNext DEF AccessInv, DataInv
    <3>3. MergeInv' /\ VictimGone' /\ FetchInv' /\ CopyInv' /\ CleanInv'
      BY <1>2, <2>1, MergeInvNext, VictimGoneNext, FetchInvNext, CopyInvNext, CleanInvNext
         DEF DataInv
    <3> QED BY <3>1, <3>2, <3>3 DEF DataInv
  <2>2. CASE UNCHANGED vars
    BY <1>2, <2>2, TypeInvStutter, AccessStutter, TagsStutter, DataStutter DEF AccessInv
  <2> QED BY <1>2, <2>1, <2>2
<1> QED BY <1>1, <1>2, PTL DEF Spec

\* A line that is valid and not dirty may be dropped at any time: it is what memory
\* holds, but for the word of a write port that is about to mark the line dirty, as
\* long as no CPU uses cache control.
THEOREM CleanLinesTheorem ==
  ASSUME NoCacheControl
  PROVE  Spec => []CleanLinesInMemory
<1>1. AccessInv /\ DataInv => CleanLinesInMemory
  <2> SUFFICES ASSUME AccessInv, DataInv, NEW a \in MemAdr \ DirectAdr,
                      NEW v \in CachedWays(a)
               PROVE  \/ tag_ram[GetIndexOfAdr(a)].way[v].dirty
                      \/ bank_ram[GetBankOfAdr(a)][GetWayIndexOfAdr(a, v)] = mem[a]
                      \/ \E w \in WP : wp_state[w] = "write_tag1" /\ wp_in[w].adr = a
    BY DEF CleanLinesInMemory
  <2>1. a \in LineAdr
    BY MemAdrParts
  <2>2. v \in Way /\ HoldsLine(a, v)
    BY DEF CachedWays, HitWays, HoldsLine, TagEntry
  <2> QED BY <2>1, <2>2 DEF DataInv, CleanInv, TagEntry, BankWord
<1> QED BY <1>1, NoCacheControl, DataInvariant, PTL

-----------------------------------------------------------------------------
(* The lines in the cache.                                                 *)

KnownLine(t, i) == \A b \in Bank : ComposeAdress(t, i, b) \in LineAdr

\* A line in the cache is one of the cached lines, and so is the one that is saved.
LinesInv ==
  /\ \A i \in Index : \A v \in Way :
       tag_ram[i].way[v].valid => KnownLine(tag_ram[i].way[v].tadr, i)
  /\ bi_state \in BusIfOld \cup BusIfInvalid \cup BusIfNew /\ bi_tag_reg.dirty =>
       KnownLine(bi_tag_reg.tadr, GetIndexOfAdr(adr_reg))

LEMMA LinesInvNext ==
  ASSUME AccessInv, VictimInv, VictimInv', LinesInv, Next
  PROVE  LinesInv'
<1> USE DEF AccessInv
<1>1. ASSUME NEW i \in Index, NEW v \in Way, tag_ram'[i].way[v].valid
      PROVE  KnownLine(tag_ram'[i].way[v].tadr, i)
  <2>1. CASE tag_ram'[i].way[v] = tag_ram[i].way[v]
    BY <1>1, <2>1 DEF LinesInv
  <2>2. CASE /\ tag_ram'[i].way[v].valid = tag_ram[i].way[v].valid
             /\ tag_ram'[i].way[v].tadr = tag_ram[i].way[v].tadr
    BY <1>1, <2>2 DEF LinesInv
  <2>3. CASE bi_state \in BusIfTagWrite1 /\ i = GetIndexOfAdr(adr_reg) /\ v = bi_tag_reg.way
    <3>1. /\ tag_ram'[i].way[v].valid = bi_tag_out.valid
          /\ tag_ram'[i].way[v].tadr = bi_tag_out.tadr
      BY <2>3, BusIfWritesWay
    <3>2. bi_state = "tagw1"
      <4>1. bi_state = "tagw_inv1" => bi_tag_out.valid = FALSE
        BY DEF bi_tag_out, TypeInv, TypeOK, Tag
      <4> QED BY <1>1, <2>3, <3>1, <4>1 DEF BusIfTagWrite1
    <3>3. bi_tag_out.tadr = GetTagOfAdr(adr_reg) /\ adr_reg \in LineAdr
      BY <3>2 DEF bi_tag_out, new_tag, TypeInv, BusIfJob, LineState, BusIfState
    <3> QED BY <2>3, <3>1, <3>3, LineParts DEF KnownLine
  <2> QED BY <1>1, <2>1, <2>2, <2>3, WayChange
<1>2. ASSUME bi_state' \in BusIfOld \cup BusIfInvalid \cup BusIfNew, bi_tag_reg'.dirty
      PROVE  KnownLine(bi_tag_reg'.tadr, GetIndexOfAdr(adr_reg'))
  <2> DEFINE in == BusIfLines
  <2>1. BusIfEdge(in) /\ BusIfType /\ BusIfJob /\ bi_op \notin SpecialOp /\ VictimSaved
    BY NextParts, BusIfOfType DEF BusIfLines, TypeInv, LockInv, VictimInv
  <2> HIDE DEF in
  <2>2. CASE bi_state' \in BusIfOld
    <3>1. adr_reg' \in Nat /\ bi_tag_reg' \in Tag
      BY TypeInvNext, BusIfTypes, MemAdrParts DEF BusIfType
    <3>2. GetIndexOfAdr(adr_reg') \in Index /\ bi_tag_reg'.way \in Way
      BY <3>1, AdrParts DEF Tag
    <3> DEFINE new == tag_ram'[GetIndexOfAdr(adr_reg')].way[bi_tag_reg'.way]
    <3>3. new.dirty /\ new.tadr = bi_tag_reg'.tadr
      BY <1>2, <2>2 DEF VictimInv, OldWay, TagEntry
    <3>4. new.valid
      BY <2>2, <3>2, <3>3 DEF VictimInv, BusIfOld, BusIfInvalid
    <3> QED BY <1>1, <3>2, <3>3, <3>4
  <2>3. CASE bi_state' \in BusIfInvalid \cup BusIfNew
    <3>1. bi_state \in BusIfInvalid \cup BusIfNew \cup {"tagw_inv1"}
      BY <2>1, <2>3, BusIfWayMoves DEF BusIfInvalid
    <3>2. bi_tag_reg' = bi_tag_reg /\ GetIndexOfAdr(adr_reg') = GetIndexOfAdr(adr_reg)
      BY <2>1, <3>1, BusIfWayMoves, BusIfLineMoves DEF BusIfOld, BusIfInvalid, BusIfNew
    <3> QED BY <1>2, <3>1, <3>2 DEF LinesInv, BusIfOld
  <2> QED BY <1>2, <2>2, <2>3
<1> QED BY <1>1, <1>2 DEF LinesInv

\* When the bus interface takes over the line it saves, and gives it up.
LEMMA BusIfVictimMoves ==
  ASSUME BusIfType, BusIfJob, bi_op \notin SpecialOp, VictimSaved, NEW in, BusIfEdge(in)
  PROVE  /\ write_victim' /\ bi_state' \notin {"idle", "start", "ack"} =>
              \/ bi_state = "read_bank"
              \/ /\ write_victim
                 /\ bi_state \in {"tagw_inv_req", "tagw_inv1"} \cup BusIfInvalid \cup BusIfNew
         /\ bi_state \in BusIfInvalid \cup BusIfNew /\ write_victim =>
              \/ /\ write_victim' /\ bi_state' \notin {"idle", "start", "ack"}
              \/ /\ bi_state = "writeback" /\ bi_count = 1 /\ in.ack /\ bi_state' = "ack"
<1> USE DEF Goto, opVars, idataVars, bankVars, BusIfInvalid, BusIfNew
<1>0. /\ bi_state \in BusIfState
      /\ bi_state \in LineState => bi_op = "replace"
      /\ bi_state \in {"dread", "dread_ack", "dwrite", "linelock", "tagr", "tagr2", "tag_done",
                       "fetch", "read_bank"} => ~write_victim
  BY DEF BusIfType, BusIfJob, LineOp, SpecialOp, VictimSaved
<1>1. CASE Idle(in) \/ Unlock(in)
  BY <1>1 DEF Idle, Unlock, AcceptNewOp
<1>2. CASE Start
  BY <1>2 DEF Start
<1>3. CASE DirectRead(in) \/ DirectReadDone \/ DirectWrite(in)
  BY <1>0, <1>3 DEF DirectRead, DirectReadDone, DirectWrite
<1>4. CASE GotLineLock(in) \/ GotTagR(in) \/ CaptureTag(in)
  BY <1>0, <1>4 DEF GotLineLock, GotTagR, CaptureTag
<1>5. CASE Dispatch
  BY <1>0, <1>5 DEF Dispatch, GotoAfterFetch, SaveOldLine, AfterSave, LineState
<1>6. CASE Fetch(in)
  BY <1>0, <1>6 DEF Fetch, GotoAfterFetch, SaveOldLine, AfterSave, LineState
<1>7. CASE ReadBank(in)
  BY <1>0, <1>7 DEF ReadBank, AfterSave, LineState
<1>8. CASE GotTagWInv(in) \/ WriteInvalidTag \/ InvalidTagDone
  BY <1>8 DEF GotTagWInv, WriteInvalidTag, InvalidTagDone
<1>9. CASE WriteBank(in)
  BY <1>9 DEF WriteBank
<1>10. CASE GotTagW(in) \/ WriteNewTag
  BY <1>10 DEF GotTagW, WriteNewTag
<1>11. CASE NewTagDone
  BY <1>0, <1>11 DEF NewTagDone, Acknowledge
<1>12. CASE StartWriteBack \/ WriteBack(in)
  BY <1>0, <1>12 DEF StartWriteBack, WriteBack, Acknowledge
<1>13. CASE Waiting(in)
  BY <1>0, <1>13 DEF Waiting, busIfVars
<1> QED BY BusIfEdge(in), <1>1, <1>2, <1>3, <1>4, <1>5, <1>6, <1>7, <1>8, <1>9,
           <1>10, <1>11, <1>12, <1>13 DEF BusIfEdge

\* What the bus interface does with a direct write.
LEMMA BusIfDirectMoves ==
  ASSUME BusIfType, BusIfJob, bi_op = "direct_write", NEW in, BusIfEdge(in)
  PROVE  /\ adr_reg' = adr_reg /\ bsel_reg' = bsel_reg /\ odata_reg' = odata_reg
         /\ \/ bi_state \in {"start", "dwrite"} /\ bi_op' = "direct_write"
                 /\ (bi_state = "dwrite" => ~in.ack)
            \/ bi_state = "dwrite" /\ in.ack /\ bi_op' = "nothing"
<1>1. bi_state \in {"start", "dwrite"}
  BY DEF BusIfType, BusIfJob, BusIfOp, LineOp, LineState
<1>2. Start \/ DirectWrite(in) \/ Waiting(in)
  BY <1>1 DEF BusIfEdge, Idle, DirectRead, DirectReadDone,
     GotLineLock, GotTagR, CaptureTag, Dispatch, Fetch, ReadBank, GotTagWInv,
     WriteInvalidTag, InvalidTagDone, WriteBank, GotTagW, WriteNewTag, NewTagDone,
     StartWriteBack, WriteBack, Unlock
<1> USE DEF Goto, opVars, idataVars
<1>3. CASE Start
  BY <1>1, <1>3 DEF Start
<1>4. CASE DirectWrite(in)
  BY <1>4 DEF DirectWrite
<1>5. CASE Waiting(in)
  BY <1>1, <1>5 DEF Waiting, busIfVars
<1> QED BY <1>2, <1>3, <1>4, <1>5

-----------------------------------------------------------------------------
(* The word of an address.                                                 *)

\* The ways in which a line is found.
LEMMA HitWaysOf ==
  ASSUME NEW e, NEW a \in Nat
  PROVE  /\ \A v \in Way :
              /\ e.way[v].valid /\ e.way[v].tadr = GetTagOfAdr(a)
              /\ \A u \in Way : e.way[u].valid /\ e.way[u].tadr = GetTagOfAdr(a) => u = v
              => /\ HitWays(e, a) # {}
                 /\ (CHOOSE w \in HitWays(e, a) : TRUE) = v
         /\ (\A v \in Way : ~(e.way[v].valid /\ e.way[v].tadr = GetTagOfAdr(a))) =>
              HitWays(e, a) = {}
<1>1. a # DontCare
  BY DEF DontCare
<1>2. ASSUME NEW v \in Way, e.way[v].valid, e.way[v].tadr = GetTagOfAdr(a),
             \A u \in Way : e.way[u].valid /\ e.way[u].tadr = GetTagOfAdr(a) => u = v
      PROVE  HitWays(e, a) = {v}
  BY <1>1, <1>2 DEF HitWays
<1>3. (\A v \in Way : ~(e.way[v].valid /\ e.way[v].tadr = GetTagOfAdr(a))) => HitWays(e, a) = {}
  BY DEF HitWays
<1>4. \A v : {v} # {} /\ (CHOOSE w \in {v} : TRUE) = v
  OBVIOUS
<1> QED BY <1>2, <1>3, <1>4

\* The word of an address is in the way that holds its line, else in the line that is
\* written back, else in memory.
LEMMA CachedWordNow ==
  ASSUME TypeInv, OneWayPerLine, NEW a \in LineAdr
  PROVE  /\ \A v \in Way : HoldsLine(a, v) => CachedWord(a) = BankWord(a, v)
         /\ NoWayHolds(a) =>
              CachedWord(a) = IF VictimHeld(a) THEN odata_reg[GetBankOfAdr(a)] ELSE mem[a]
<1>1. a \in Nat /\ GetIndexOfAdr(a) \in Index
  BY LineParts, AdrParts
<1>2. ASSUME NEW v \in Way, HoldsLine(a, v)
      PROVE  CachedWays(a) # {} /\ (CHOOSE w \in CachedWays(a) : TRUE) = v
  <2>1. \A u \in Way : HoldsLine(a, u) => u = v
    BY <1>1, <1>2 DEF OneWayPerLine, HoldsLine, TagEntry
  <2> QED BY <1>1, <1>2, <2>1, HitWaysOf DEF CachedWays, HoldsLine, TagEntry
<1>3. NoWayHolds(a) => CachedWays(a) = {}
  BY <1>1, HitWaysOf DEF CachedWays, NoWayHolds, HoldsLine, TagEntry
<1> QED BY <1>2, <1>3 DEF CachedWord, BankWord

LEMMA CachedWordNext ==
  ASSUME OneWayPerLine', NEW a \in LineAdr
  PROVE  LET new == tag_ram'[GetIndexOfAdr(a)].way
             b   == GetBankOfAdr(a)
         IN  /\ \A v \in Way : new[v].valid /\ new[v].tadr = GetTagOfAdr(a) =>
                  CachedWord(a)' = bank_ram'[b][GetWayIndexOfAdr(a, v)]
             /\ (\A v \in Way : ~(new[v].valid /\ new[v].tadr = GetTagOfAdr(a))) =>
                  CachedWord(a)' = IF VictimHeld(a)' THEN odata_reg'[b] ELSE mem'[a]
<1> DEFINE e == tag_ram'[GetIndexOfAdr(a)]
           h == HitWays(e, a)
<1>1. a \in Nat /\ GetIndexOfAdr(a) \in Index
  BY LineParts, AdrParts
<1>2. \A u, v \in Way :
        /\ e.way[u].valid /\ e.way[u].tadr = GetTagOfAdr(a)
        /\ e.way[v].valid /\ e.way[v].tadr = GetTagOfAdr(a)
        => u = v
  BY <1>1 DEF OneWayPerLine
<1>3. CachedWord(a)' = LET b == GetBankOfAdr(a)
                       IN  IF h # {} THEN bank_ram'[b][GetWayIndexOfAdr(a, CHOOSE w \in h : TRUE)]
                           ELSE IF VictimHeld(a)' THEN odata_reg'[b] ELSE mem'[a]
  BY DEF CachedWord, CachedWays
<1> HIDE DEF e
<1>4. ASSUME NEW v \in Way, e.way[v].valid, e.way[v].tadr = GetTagOfAdr(a)
      PROVE  h # {} /\ (CHOOSE w \in h : TRUE) = v
  BY <1>1, <1>2, <1>4, HitWaysOf
<1>5. (\A v \in Way : ~(e.way[v].valid /\ e.way[v].tadr = GetTagOfAdr(a))) => h = {}
  BY <1>1, HitWaysOf
<1> HIDE DEF h
<1> QED BY <1>3, <1>4, <1>5 DEF e

-----------------------------------------------------------------------------
(* An edge and the words of the shared memory.                             *)

\* The stores that take effect at an edge.
StoresBank(w)   == wp_state[w] \in WpWritesBank /\ w \in WpBanks(gnt_bank)
StoresDirect(w) == NewDirect(w) /\ IDX_WP(w) \in gnt_busif /\ ~busif_busy

RefInv == AccessInv /\ DataInv /\ LinesInv

\* A store goes to a cached word whose line is in the way the port has found.
LEMMA StoreToLine ==
  ASSUME TypeInv, TagsInv, NEW w \in WP, wp_state[w] \in WpHasTag
  PROVE  /\ wp_in[w].adr \in LineAdr /\ WpWrites(w)
         /\ wp_tag_reg[w].way \in Way
         /\ HoldsLine(wp_in[w].adr, wp_tag_reg[w].way)
<1>1. wp_state[w] \in CachedWrite
  BY DEF WpHasTag, CachedWrite, SpecialState, WritePortState
<1>2. WpWrites(w) /\ ~WpDirect(w)
  BY <1>1 DEF TypeInv, WritesHeld
<1>3. wp_in[w].adr \in LineAdr
  BY <1>2, WriteRequests DEF WpWrites, WpDirect
<1>4. wp_tag_reg[w].way \in Way
  BY DEF TypeInv, TypeOK, Tag
<1> QED BY <1>2, <1>3, <1>4 DEF TagsInv, TagsKnown

\* A word that is in the cache is changed by a store to it, and by nothing else, also
\* when the line leaves the cache.
LEMMA HeldWordStep ==
  ASSUME RefInv, OneWayPerLine', Next, NEW a \in LineAdr, NEW v \in Way, HoldsLine(a, v)
  PROVE  /\ \A w \in WP : StoresBank(w) /\ wp_in[w].adr = a =>
              CachedWord(a)' = CombineData(wp_in[w].bsel, CachedWord(a), wp_in[w].data)
         /\ (\A w \in WP : ~(StoresBank(w) /\ wp_in[w].adr = a)) =>
              CachedWord(a)' = CachedWord(a)
<1> USE DEF RefInv, AccessInv, DataInv
<1> DEFINE b   == GetBankOfAdr(a)
           i   == GetIndexOfAdr(a)
           wi  == GetWayIndexOfAdr(a, v)
           new == tag_ram'[i].way[v]
<1>1. a \in Nat /\ b \in Bank /\ i \in Index
  BY LineParts, AdrParts
<1>2. CachedWord(a) = bank_ram[b][wi]
  BY CachedWordNow DEF TagsInv, BankWord
<1>3. \A w \in WP : StoresBank(w) /\ wp_in[w].adr = a => WpWritesWord(w, b, wi)
  <2>1. ASSUME NEW w \in WP, StoresBank(w), wp_in[w].adr = a
        PROVE  WpWritesWord(w, b, wi)
    <3>1. wp_tag_reg[w].way \in Way /\ HoldsLine(a, wp_tag_reg[w].way)
      BY <2>1, StoreToLine DEF StoresBank, WpWritesBank, WpHasTag
    <3>2. wp_tag_reg[w].way = v
      BY <1>1, <3>1 DEF TagsInv, OneWayPerLine, HoldsLine, TagEntry
    <3> QED BY <2>1, <3>2 DEF StoresBank, WpWritesWord
  <2> QED BY <2>1
<1>4. CASE new.valid /\ new.tadr = GetTagOfAdr(a)
  <2>1. CachedWord(a)' = bank_ram'[b][wi]
    BY <1>4, CachedWordNext
  <2>2. CASE \E w \in WP : WpWritesWord(w, b, wi) /\ bank_ram'[b][wi] = WpBankData(w)
                           /\ wp_in[w].adr = a /\ wp_tag_reg[w].way = v
    <3>1. PICK w \in WP : WpWritesWord(w, b, wi) /\ bank_ram'[b][wi] = WpBankData(w)
                          /\ wp_in[w].adr = a /\ wp_tag_reg[w].way = v
      BY <2>2
    <3>2. StoresBank(w)
      BY <3>1 DEF StoresBank, WpWritesWord
    <3>3. \A u \in WP : StoresBank(u) => u = w
      BY <3>2, WritersApart DEF StoresBank, WpWritesBank, WpHasTag
    <3>4. WpBankData(w) = CombineData(wp_in[w].bsel, bank_ram[b][wi], wp_in[w].data)
      <4>1. CASE WpPartial(w)
        <5>1. data_reg[w] = bank_ram[b][wi]
          BY <3>1, <3>2, <4>1 DEF MergeInv, StoresBank
        <5> QED BY <5>1 DEF WpBankData
      <4>2. CASE ~WpPartial(w)
        BY <4>2 DEF WpPartial, WpBankData, CombineData
      <4> QED BY <4>1, <4>2
    <3> QED BY <1>2, <2>1, <3>1, <3>2, <3>3, <3>4
  <2>3. CASE bank_ram'[b][wi] = bank_ram[b][wi] /\ \A w \in WP : ~WpWritesWord(w, b, wi)
    BY <1>2, <1>3, <2>1, <2>3
  <2> QED BY <2>2, <2>3, CachedWordChange
<1>5. CASE ~(new.valid /\ new.tadr = GetTagOfAdr(a))
  <2>1. bi_state \in BusIfTagWrite1 /\ i = GetIndexOfAdr(adr_reg) /\ v = bi_tag_reg.way
    BY <1>1, <1>5, LinesHeld DEF HoldsLine, TagEntry
  <2>2. bi_state = "tagw_inv1"
    BY <2>1 DEF BusIfTagWrite1, VictimInv, BusIfInvalid, OldWay, HoldsLine, TagEntry
  <2>3. \A u \in Way : ~(/\ tag_ram'[i].way[u].valid
                         /\ tag_ram'[i].way[u].tadr = GetTagOfAdr(a))
    <3>1. ASSUME NEW u \in Way, u # v
          PROVE  ~(tag_ram'[i].way[u].valid /\ tag_ram'[i].way[u].tadr = GetTagOfAdr(a))
      <4>1. ~HoldsLine(a, u)
        BY <1>1, <3>1 DEF TagsInv, OneWayPerLine, HoldsLine, TagEntry
      <4>2. /\ tag_ram'[i].way[u].valid = tag_ram[i].way[u].valid
            /\ tag_ram'[i].way[u].tadr = tag_ram[i].way[u].tadr
        BY <1>1, <2>1, <3>1, LinesHeld
      <4> QED BY <4>1, <4>2 DEF HoldsLine, TagEntry
    <3> QED BY <1>5, <3>1
  <2>4. CachedWord(a)' = IF VictimHeld(a)' THEN odata_reg'[b] ELSE mem'[a]
    BY <2>3, CachedWordNext
  <2>5. \A w \in WP : wp_in[w].adr = a => ~StoresBank(w) /\ wp_state[w] # "write_tag1"
    BY <2>1, <2>2, LinesApart DEF StoresBank, WpWritesBank, WpHasTag, BusIfUsesLine
  <2>6. /\ bi_state' = "tagw_inv2" /\ bi_tag_reg' = bi_tag_reg
        /\ GetIndexOfAdr(adr_reg') = GetIndexOfAdr(adr_reg)
        /\ odata_reg' = odata_reg /\ write_victim' = write_victim
    <3> DEFINE in == BusIfLines
    <3>1. BusIfEdge(in) /\ BusIfType /\ BusIfJob /\ bi_op \notin SpecialOp /\ VictimSaved
      BY NextParts, BusIfOfType DEF BusIfLines, TypeInv, LockInv, VictimInv
    <3> HIDE DEF in
    <3>2. bi_tag_reg' = bi_tag_reg
      BY <2>2, <3>1, BusIfWayMoves DEF BusIfOld
    <3>3. odata_reg' = odata_reg /\ write_victim' = write_victim
      BY <2>2, <3>1, BusIfCopies DEF BusIfFetched
    <3> QED BY <2>2, <3>1, <3>2, <3>3, BusIfLineMoves
  <2>7. bi_tag_reg.tadr = GetTagOfAdr(a) /\ (write_victim <=> bi_tag_reg.dirty)
        /\ bi_tag_reg.dirty = TagEntry(a).way[v].dirty
    <3>1. OldWay = TagEntry(a).way[v]
      BY <2>1 DEF OldWay, TagEntry
    <3> QED BY <2>2, <3>1 DEF VictimInv, VictimSaved, BusIfOld, HoldsLine
  <2>8. CASE write_victim
    <3>1. VictimHeld(a)'
      BY <2>1, <2>6, <2>7, <2>8 DEF VictimHeld
    <3>2. odata_reg[b] = bank_ram[b][wi]
      BY <1>1, <2>1, <2>2, <2>8 DEF CopyInv, OldWord, GetWayIndexOfAdr
    <3> QED BY <1>2, <2>4, <2>5, <2>6, <3>1, <3>2
  <2>9. CASE ~write_victim
    <3>1. ~VictimHeld(a)'
      BY <2>6, <2>9 DEF VictimHeld
    <3>2. bank_ram[b][wi] = mem[a]
      BY <2>5, <2>7, <2>9 DEF CleanInv, BankWord
    <3>3. mem'[a] = mem[a]
      BY CachedWordChange
    <3> QED BY <1>2, <2>4, <2>5, <3>1, <3>2, <3>3
  <2> QED BY <2>8, <2>9
<1> QED BY <1>4, <1>5

\* A word that is not in the cache changes neither when its line comes into the cache
\* nor when the line is written back.
LEMMA AwayWordStep ==
  ASSUME RefInv, OneWayPerLine', Next, NEW a \in LineAdr, NoWayHolds(a)
  PROVE  CachedWord(a)' = CachedWord(a)
<1> USE DEF RefInv, AccessInv, DataInv
<1> DEFINE b  == GetBankOfAdr(a)
           i  == GetIndexOfAdr(a)
           in == BusIfLines
<1>1. a \in Nat /\ b \in Bank /\ i \in Index /\ a \in MemAdr /\ a \notin DirectAdr
  BY LineParts, AdrParts
<1>2. CachedWord(a) = IF VictimHeld(a) THEN odata_reg[b] ELSE mem[a]
  BY CachedWordNow DEF TagsInv
<1>3. BusIfEdge(in) /\ BusIfType /\ BusIfJob /\ bi_op \notin SpecialOp /\ VictimSaved
  BY NextParts, BusIfOfType DEF BusIfLines, TypeInv, LockInv, VictimInv
<1>4. in.ack = wb_ack_i
  BY DEF BusIfLines, BusIfInputs
<1> HIDE DEF in
<1>5. adr_reg \in Nat /\ bi_tag_reg.way \in Way /\ wb_bank \in Bank
  BY BusAddress, BusIfOfType DEF TypeInv, TypeOK, Tag
<1>6. CASE \E v \in Way : /\ tag_ram'[i].way[v].valid
                          /\ tag_ram'[i].way[v].tadr = GetTagOfAdr(a)
  <2>1. PICK v \in Way : /\ tag_ram'[i].way[v].valid
                         /\ tag_ram'[i].way[v].tadr = GetTagOfAdr(a)
    BY <1>6
  <2> DEFINE wi == GetWayIndexOfAdr(a, v)
  <2>2. bi_state \in BusIfTagWrite1 /\ i = GetIndexOfAdr(adr_reg) /\ v = bi_tag_reg.way
    BY <1>1, <2>1, LinesHeld DEF NoWayHolds, HoldsLine, TagEntry
  <2>3. /\ tag_ram'[i].way[v].valid = bi_tag_out.valid
        /\ tag_ram'[i].way[v].tadr = bi_tag_out.tadr
    BY <2>2, BusIfWritesWay
  <2>4. bi_state = "tagw1"
    <3>1. bi_state = "tagw_inv1" => bi_tag_out.valid = FALSE
      BY DEF bi_tag_out, TypeInv, TypeOK, Tag
    <3> QED BY <2>1, <2>2, <2>3, <3>1 DEF BusIfTagWrite1
  <2>5. GetTagOfAdr(a) = GetTagOfAdr(adr_reg) /\ bi_op \in LineOp
    <3>1. bi_tag_out.tadr = GetTagOfAdr(adr_reg)
      BY <2>4 DEF bi_tag_out, new_tag
    <3> QED BY <2>1, <2>3, <2>4, <3>1 DEF TypeInv, BusIfJob, LineState, BusIfState
  <2>6. a = LineWord(adr_reg, b)
    <3>1. LineWord(adr_reg, b) \in MemAdr
      BY <1>1, <2>5, LineWordParts, MemAdrParts
    <3> QED BY <1>1, <2>2, <2>5, <3>1, LineWordParts, SameWord
  <2>7. CachedWord(a)' = bank_ram'[b][wi]
    BY <2>1, CachedWordNext
  <2>8. bank_ram'[b][wi] = bank_ram[b][wi]
    <3> DEFINE k == GetWayIndexOfAdr(adr_reg, v)
    <3>1. k = wi
      BY <2>2 DEF GetWayIndexOfAdr
    <3>2. bank_ram'[b][k] = IF BusIfWritesWord(b, k) THEN idata_reg[b] ELSE bank_ram[b][k]
      BY <1>1, <2>4, LineWords DEF BusIfUsesLine
    <3> HIDE DEF k, wi
    <3> QED BY <2>4, <3>1, <3>2 DEF BusIfWritesWord
  <2>9. bank_ram[b][wi] = idata_reg[b]
    BY <1>1, <2>2, <2>4 DEF CopyInv, OldWord, GetWayIndexOfAdr
  <2>10. idata_reg[b] = mem[a]
    BY <1>1, <2>4, <2>6 DEF FetchInv, BusIfFetched
  <2>11. ~VictimHeld(a)
    BY <2>4, <2>5 DEF VictimHeld, VictimInv, VictimSaved, BusIfInvalid
  <2> QED BY <1>2, <2>7, <2>8, <2>9, <2>10, <2>11
<1>7. CASE \A v \in Way : ~(/\ tag_ram'[i].way[v].valid
                            /\ tag_ram'[i].way[v].tadr = GetTagOfAdr(a))
  <2>1. CachedWord(a)' = IF VictimHeld(a)' THEN odata_reg'[b] ELSE mem'[a]
    BY <1>7, CachedWordNext
  \* Before its tag is made invalid, the line that is saved is in the cache.
  <2>2. ASSUME bi_state \in {"read_bank", "tagw_inv_req", "tagw_inv1"}, bi_tag_reg.dirty,
               GetIndexOfAdr(adr_reg) = i
        PROVE  bi_tag_reg.tadr # GetTagOfAdr(a)
    <3>1. OldWay.dirty /\ OldWay.tadr = bi_tag_reg.tadr
      BY <2>2 DEF VictimInv, BusIfOld
    <3>2. OldWay = tag_ram[i].way[bi_tag_reg.way]
      BY <2>2 DEF OldWay, TagEntry
    <3>3. OldWay.valid
      BY <1>1, <1>5, <2>2, <3>1, <3>2 DEF VictimInv, BusIfInvalid
    <3> QED BY <1>5, <3>1, <3>2, <3>3 DEF NoWayHolds, HoldsLine, TagEntry
  <2>3. bi_state \in {"read_bank", "tagw_inv_req", "tagw_inv1"} \cup BusIfInvalid \cup BusIfNew =>
          bi_tag_reg' = bi_tag_reg /\ GetIndexOfAdr(adr_reg') = GetIndexOfAdr(adr_reg)
    BY <1>3, BusIfWayMoves, BusIfLineMoves DEF BusIfOld, BusIfInvalid, BusIfNew
  <2>4. CASE VictimHeld(a)
    <3>1. bi_state \in BusIfInvalid \cup BusIfNew /\ write_victim
      <4>1. /\ write_victim /\ bi_state \notin {"idle", "start", "ack"}
            /\ GetIndexOfAdr(adr_reg) = i /\ bi_tag_reg.tadr = GetTagOfAdr(a)
        BY <2>4 DEF VictimHeld
      <4>2. bi_state \in {"tagw_inv_req", "tagw_inv1"} \cup BusIfInvalid \cup BusIfNew
        BY <1>3, <4>1 DEF VictimSaved, BusIfType, BusIfState, BusIfInvalid, BusIfNew
      <4> QED BY <1>3, <2>2, <4>1, <4>2 DEF VictimSaved
    <3>2. odata_reg' = odata_reg
      BY <1>3, <3>1, BusIfCopies DEF BusIfFetched, BusIfInvalid, BusIfNew
    <3>3. CASE write_victim' /\ bi_state' \notin {"idle", "start", "ack"}
      <4>1. VictimHeld(a)'
        BY <2>3, <2>4, <3>1, <3>3 DEF VictimHeld
      <4> QED BY <1>2, <2>1, <2>4, <3>2, <4>1
    <3>4. CASE bi_state = "writeback" /\ bi_count = 1 /\ in.ack /\ bi_state' = "ack"
      <4>1. ~VictimHeld(a)'
        BY <3>4 DEF VictimHeld
      <4>2. SavedWord(b) = a
        <5>1. GetTagOfAdr(a) = bi_tag_reg.tadr /\ i = GetIndexOfAdr(adr_reg)
          BY <2>4 DEF VictimHeld
        <5>2. a = ComposeAdress(GetTagOfAdr(a), i, b)
          BY <1>1, SameWord, ComposeOfParts
        <5> QED BY <5>1, <5>2 DEF SavedWord
      <4>3. wb_bank = CACHE_BANKS - 1
        BY <3>4 DEF wb_bank
      <4>4. CASE b = wb_bank
        BY <1>1, <1>2, <1>4, <2>1, <2>4, <3>4, <4>1, <4>2, <4>4, MemoryWritten
      <4>5. CASE b # wb_bank
        <5>1. b + bi_count < CACHE_BANKS
          BY <1>1, <3>4, <4>3, <4>5, ConfigAssumption DEF Bank
        <5>2. mem[a] = odata_reg[b]
          BY <1>1, <3>4, <4>2, <5>1 DEF CopyInv
        <5>3. a # SavedWord(wb_bank)
          BY <1>1, <1>5, <4>5, LineWordParts
        <5>4. mem'[a] = mem[a]
          BY <1>1, <3>4, <5>3, MemoryWritten
        <5> QED BY <1>2, <2>1, <2>4, <4>1, <5>2, <5>4
      <4> QED BY <4>4, <4>5
    <3> QED BY <1>3, <3>1, <3>3, <3>4, BusIfVictimMoves
  <2>5. CASE ~VictimHeld(a)
    <3>1. ASSUME VictimHeld(a)' PROVE FALSE
      <4>1. /\ write_victim' /\ bi_state' \notin {"idle", "start", "ack"}
            /\ i = GetIndexOfAdr(adr_reg') /\ GetTagOfAdr(a) = bi_tag_reg'.tadr
        BY <3>1 DEF VictimHeld
      <4>2. \/ bi_state = "read_bank"
            \/ /\ write_victim
               /\ bi_state \in {"tagw_inv_req", "tagw_inv1"} \cup BusIfInvalid \cup BusIfNew
        BY <1>3, <4>1, BusIfVictimMoves
      <4>3. i = GetIndexOfAdr(adr_reg) /\ GetTagOfAdr(a) = bi_tag_reg.tadr
        BY <2>3, <4>1, <4>2
      <4>4. bi_state # "read_bank"
        BY <1>3, <2>2, <4>3 DEF VictimSaved
      <4> QED BY <2>5, <4>2, <4>3, <4>4 DEF VictimHeld, BusIfInvalid, BusIfNew
    <3>2. mem'[a] = mem[a]
      <4>1. bi_state = "dwrite" => adr_reg \in DirectAdr
        BY <1>3 DEF BusIfJob
      <4>2. ASSUME bi_state = "writeback", a = SavedWord(wb_bank) PROVE FALSE
        <5>1. GetTagOfAdr(a) = bi_tag_reg.tadr /\ i = GetIndexOfAdr(adr_reg)
          BY <1>5, <4>2, LineWordParts
        <5>2. write_victim
          BY <1>3, <4>2 DEF VictimSaved
        <5> QED BY <2>5, <4>2, <5>1, <5>2 DEF VictimHeld
      <4> QED BY <1>1, <4>1, <4>2, MemoryWritten
    <3> QED BY <1>2, <2>1, <2>5, <3>1, <3>2
  <2> QED BY <2>4, <2>5
<1> QED BY <1>6, <1>7

\* A word that is accessed directly is changed by a store that is handed to the bus
\* interface, and by nothing else, also when the bus interface carries it out.
LEMMA DirectWordStep ==
  ASSUME RefInv, Next, NEW a \in DirectAdr
  PROVE  /\ \A w \in WP : StoresDirect(w) /\ wp_in[w].adr = a =>
              DirectWord(a)' = CombineData(wp_in[w].bsel, DirectWord(a), wp_in[w].data)
         /\ (\A w \in WP : ~(StoresDirect(w) /\ wp_in[w].adr = a)) =>
              DirectWord(a)' = DirectWord(a)
<1> USE DEF RefInv, AccessInv, DataInv
<1> DEFINE in == BusIfLines
           r  == Requester(gnt_busif)
<1>1. a \in MemAdr /\ a \notin LineAdr /\ GetBankOfAdr(a) \in Bank
  BY MemAdrParts, AdrParts
<1>2. BusIfEdge(in) /\ BusIfType /\ BusIfJob /\ bi_op \in BusIfOp
  BY NextParts, BusIfOfType DEF BusIfLines, TypeInv, BusIfType
<1>3. in.ack = wb_ack_i
  BY DEF BusIfLines, BusIfInputs
<1> HIDE DEF in
\* A write-back goes to a cached line.
<1>4. bi_state # "dwrite" => mem'[a] = mem[a]
  <2>1. ASSUME bi_state = "writeback", a = SavedWord(wb_bank) PROVE FALSE
    <3>1. wb_bank \in Bank
      BY <1>2, BusAddress
    <3>2. KnownLine(bi_tag_reg.tadr, GetIndexOfAdr(adr_reg))
      BY <2>1 DEF LinesInv, VictimInv, VictimSaved, BusIfNew
    <3> QED BY <1>1, <2>1, <3>1, <3>2 DEF KnownLine, SavedWord
  <2> QED BY <1>1, <2>1, MemoryWritten
<1>5. CASE bi_op = "direct_write"
  <2>1. \A w \in WP : ~StoresDirect(w)
    BY <1>5 DEF StoresDirect, busif_busy
  <2>2. /\ adr_reg' = adr_reg /\ bsel_reg' = bsel_reg /\ odata_reg' = odata_reg
        /\ \/ bi_op' = "direct_write" /\ ~(bi_state = "dwrite" /\ in.ack)
           \/ bi_state = "dwrite" /\ in.ack /\ bi_op' = "nothing"
    BY <1>2, <1>5, BusIfDirectMoves
  <2>3. CASE bi_op' = "direct_write" /\ ~(bi_state = "dwrite" /\ in.ack)
    <3>1. mem'[a] = mem[a]
      BY <1>1, <1>3, <1>4, <2>3, MemoryWritten
    <3>2. DirectWord(a)' = DirectWord(a)
      BY <1>5, <2>2, <2>3, <3>1 DEF DirectWord
    <3> QED BY <2>1, <3>2
  <2>4. CASE bi_state = "dwrite" /\ in.ack /\ bi_op' = "nothing"
    <3>1. DirectWord(a)' = mem'[a]
      BY <2>4 DEF DirectWord
    <3>2. CASE a = adr_reg
      BY <1>1, <1>3, <1>5, <2>1, <2>4, <3>1, <3>2, MemoryWritten DEF DirectWord
    <3>3. CASE a # adr_reg
      <4>1. mem'[a] = mem[a]
        BY <1>1, <2>4, <3>3, MemoryWritten
      <4> QED BY <1>5, <2>1, <3>1, <3>3, <4>1 DEF DirectWord
    <3> QED BY <3>2, <3>3
  <2> QED BY <2>2, <2>3, <2>4
<1>6. CASE bi_op = "nothing"
  <2>1. mem'[a] = mem[a] /\ DirectWord(a) = mem[a]
    BY <1>2, <1>4, <1>6 DEF BusIfJob, DirectWord
  <2>2. /\ r.op = "nothing" => bi_op' = "nothing"
        /\ r.op # "nothing" => /\ bi_op' = r.op /\ adr_reg' = r.adr
                               /\ bsel_reg' = r.bsel /\ odata_reg' = r.data
    BY <1>6, BusIfAccepts DEF busif_busy
  <2>3. ASSUME NEW w \in WP, StoresDirect(w)
        PROVE  /\ r.op = "direct_write" /\ r.adr = wp_in[w].adr /\ r.bsel = wp_in[w].bsel
               /\ r.data = [b \in Bank |-> wp_in[w].data]
    BY <2>3, RequesterPort, PortOperations DEF StoresDirect
  <2>4. ASSUME r.op = "direct_write"
        PROVE  \E w \in WP : StoresDirect(w) /\ r.adr = wp_in[w].adr
    <3>1. gnt_busif # {} /\ gnt_busif \subseteq req_busif
      BY <2>4, BusIfGrants DEF Requester
    <3>2. PICK n \in gnt_busif : n \in RP \cup {IDX_WP(w) : w \in WP}
      BY <3>1 DEF req_busif
    <3>3. n \notin RP
      BY <2>4, <3>2, RequesterPort, ReadOperation
    <3>4. PICK w \in WP : n = IDX_WP(w)
      BY <3>2, <3>3
    <3>5. WpBusIfOp(w) = "direct_write" /\ r.adr = wp_in[w].adr
      BY <2>4, <3>2, <3>4, RequesterPort
    <3>6. wp_state[w] # "direct"
      BY <1>6 DEF RequestersInv, busif_busy
    <3>7. wp_in[w].op # "direct_write"
      BY WriteRequests DEF SpecialOp
    <3>8. NewDirect(w)
      BY <3>5, <3>6, <3>7 DEF WpBusIfOp
    <3> QED BY <1>6, <3>2, <3>4, <3>5, <3>8 DEF StoresDirect, busif_busy
  <2> HIDE DEF r
  <2>5. ASSUME NEW w \in WP, StoresDirect(w), wp_in[w].adr = a
        PROVE  DirectWord(a)' = CombineData(wp_in[w].bsel, DirectWord(a), wp_in[w].data)
    <3>1. /\ bi_op' = "direct_write" /\ adr_reg' = a /\ bsel_reg' = wp_in[w].bsel
          /\ odata_reg' = [b \in Bank |-> wp_in[w].data]
      BY <2>2, <2>3, <2>5
    <3> QED BY <1>1, <2>1, <3>1 DEF DirectWord
  <2>6. ASSUME \A w \in WP : ~(StoresDirect(w) /\ wp_in[w].adr = a)
        PROVE  DirectWord(a)' = DirectWord(a)
    <3>1. ~(bi_op' = "direct_write" /\ adr_reg' = a)
      BY <2>2, <2>4, <2>6
    <3> QED BY <2>1, <3>1 DEF DirectWord
  <2> QED BY <2>5, <2>6
<1>7. CASE bi_op \notin {"direct_write", "nothing"}
  <2>1. \A w \in WP : ~StoresDirect(w)
    BY <1>7 DEF StoresDirect, busif_busy
  <2>2. bi_op' # "direct_write"
    BY <1>2, <1>7, BusIfMoves DEF BusIfJob
  <2>3. mem'[a] = mem[a]
    BY <1>2, <1>4, <1>7 DEF BusIfJob
  <2> QED BY <1>7, <2>1, <2>2, <2>3 DEF DirectWord
<1> QED BY <1>5, <1>6, <1>7

\* The word of an address, as the CPUs see it.
MemoryWord(a) == IF a \in DirectAdr THEN DirectWord(a) ELSE CachedWord(a)

StoresTo(w, a) == (StoresBank(w) \/ StoresDirect(w)) /\ wp_in[w].adr = a

\* Stores to cached words go through a bank, the others through the bus interface.
LEMMA StoreKinds ==
  ASSUME RefInv, NEW w \in WP
  PROVE  /\ StoresBank(w) => /\ wp_in[w].adr \in LineAdr /\ WpWrites(w)
                             /\ wp_state[w] \in WpWritesBank
         /\ StoresDirect(w) => /\ wp_in[w].adr \in DirectAdr /\ WpWrites(w)
                               /\ wp_state[w] = "init"
<1>1. StoresBank(w) => wp_state[w] \in WpHasTag /\ wp_state[w] \in WpWritesBank
  BY DEF StoresBank, WpWritesBank, WpHasTag
<1> QED BY <1>1, StoreToLine DEF RefInv, AccessInv, StoresDirect, NewDirect, Initial, WpDirect

\* A store to a word changes it, and nothing else does.
LEMMA MemoryWordStep ==
  ASSUME RefInv, OneWayPerLine', Next, NEW a \in MemAdr
  PROVE  /\ \A w \in WP : StoresTo(w, a) =>
              MemoryWord(a)' = CombineData(wp_in[w].bsel, MemoryWord(a), wp_in[w].data)
         /\ (\A w \in WP : ~StoresTo(w, a)) => MemoryWord(a)' = MemoryWord(a)
<1>1. CASE a \in DirectAdr
  <2>1. MemoryWord(a) = DirectWord(a) /\ MemoryWord(a)' = DirectWord(a)'
    BY <1>1 DEF MemoryWord
  <2>2. \A w \in WP : StoresTo(w, a) <=> StoresDirect(w) /\ wp_in[w].adr = a
    BY <1>1, StoreKinds, MemAdrParts DEF StoresTo
  <2> QED BY <1>1, <2>1, <2>2, DirectWordStep
<1>2. CASE a \in LineAdr
  <2>1. MemoryWord(a) = CachedWord(a) /\ MemoryWord(a)' = CachedWord(a)'
    BY <1>2, MemAdrParts DEF MemoryWord
  <2>2. \A w \in WP : StoresTo(w, a) <=> StoresBank(w) /\ wp_in[w].adr = a
    BY <1>2, StoreKinds, MemAdrParts DEF StoresTo
  <2>3. CASE \E v \in Way : HoldsLine(a, v)
    BY <1>2, <2>1, <2>2, <2>3, HeldWordStep
  <2>4. CASE NoWayHolds(a)
    <3>1. \A w \in WP : ~(StoresBank(w) /\ wp_in[w].adr = a)
      BY <2>4, StoreToLine DEF NoWayHolds, StoresBank, WpWritesBank, WpHasTag, RefInv, AccessInv
    <3> QED BY <1>2, <2>1, <2>2, <2>4, <3>1, AwayWordStep
  <2> QED BY <2>3, <2>4 DEF NoWayHolds
<1> QED BY <1>1, <1>2, MemAdrParts

\* An acknowledged read gets the word of the bank, or that of the bus interface.
LEMMA ReadAnswers ==
  ASSUME TypeInv, Next, NEW p \in RP, p \in rp_ack(gnt_bank)
  PROVE  LET b == GetBankOfAdr(rp_adr[p])
         IN  \/ /\ rp_state[p] \in {"read_tag", "miss_read_tag"} /\ rp_tag_in(p).valid
                /\ p \in gnt_bank[b]
                /\ rp_data(p)' = bankram_rdata'[b][RAMPORT(p)]
             \/ /\ rp_adr[p] = adr_reg /\ b \in idata_valid_reg
                /\ rp_data(p)' = idata_reg[b]
<1> DEFINE bank == p \in RpBanks(gnt_bank)
           tag  == rp_tag_in(p)
           b    == GetBankOfAdr(rp_adr[p])
<1>1. /\ rp_state'[p] = RpNextState(p, busif_hit, tag, p \in gnt_tagr, bank,
                                    p \in gnt_busif, busif_busy)
      /\ rp_bank_sel'[p] = IF RpReqBank(p, tag) /\ bank THEN b ELSE rp_bank_sel[p]
  BY NextParts DEF ReadPortEdge, rp_tag_in
<1>2. RpAck(p, busif_hit, tag, bank)
  BY DEF rp_ack
<1>3. rp_data(p)' = IF rp_state'[p] = "read_bank" THEN bankram_rdata'[rp_bank_sel'[p]][RAMPORT(p)]
                    ELSE rp_busif_data_reg'
  BY DEF rp_data, RpData
<1>4. bank <=> p \in gnt_bank[b]
  BY DEF RpBanks
<1>5. rp_busif_data_reg' = idata_reg[GetBankOfAdr(adr_reg)]
  BY NextParts DEF busif_adr_out
<1>6. p \in busif_hit => rp_adr[p] = adr_reg /\ b \in idata_valid_reg
  BY DEF busif_hit, BusIfHit, busif_adr_out
<1> HIDE DEF bank, tag, b
<1>7. CASE RpReqBank(p, tag) /\ bank
  <2>1. rp_state'[p] = "read_bank"
    BY <1>1, <1>7 DEF RpReqBank, RpNextState, NextReadTag
  <2> QED BY <1>1, <1>3, <1>4, <1>7, <2>1 DEF RpReqBank, tag, b
<1>8. CASE /\ p \in busif_hit
           /\ \/ rp_state[p] \in {"direct_wait_busif", "miss_wait_busif", "miss_replace"}
              \/ NewRead(p) /\ ~RpDirect(p)
  <2>1. rp_state'[p] # "read_bank"
    BY <1>1, <1>8 DEF RpNextState, NextInit, NextMissWait, NewRead
  <2> QED BY <1>3, <1>5, <1>6, <1>8, <2>1 DEF b
<1> QED BY <1>2, <1>7, <1>8 DEF RpAck

\* A word that the bus interface forwards is the one the CPUs see.
LEMMA ForwardedWord ==
  ASSUME RefInv, OneWayPerLine', Next, NEW a, a = adr_reg,
         GetBankOfAdr(a) \in idata_valid_reg
  PROVE  a \in MemAdr /\ MemoryWord(a)' = idata_reg[GetBankOfAdr(a)]
<1> USE DEF RefInv, AccessInv, DataInv
<1> DEFINE b == GetBankOfAdr(a)
<1>1. bi_state \in {"dread_ack", "fetch"} \cup BusIfFetched
  BY DEF RequestersInv
<1>2. ASSUME a \in MemAdr, MemoryWord(a) = idata_reg[b],
             \A w \in WP : ~StoresTo(w, a)
      PROVE  a \in MemAdr /\ MemoryWord(a)' = idata_reg[b]
  BY <1>2, MemoryWordStep
<1>3. CASE bi_state = "dread_ack"
  <2>1. bi_op = "direct_read" /\ a \in DirectAdr
    BY <1>3 DEF TypeInv, BusIfJob
  <2>2. MemoryWord(a) = mem[a] /\ mem[a] = idata_reg[b]
    BY <1>3, <2>1 DEF MemoryWord, DirectWord, FetchInv
  <2>3. \A w \in WP : ~StoresTo(w, a)
    BY <2>1, StoreKinds, MemAdrParts DEF StoresTo, StoresDirect, busif_busy
  <2> QED BY <1>2, <2>1, <2>2, <2>3, MemAdrParts
<1>4. CASE bi_state \in {"fetch"} \cup BusIfFetched
  <2>1. bi_op = "replace" /\ a \in LineAdr /\ a \in MemAdr
    <3>1. bi_state \in LineState
      BY <1>4 DEF LineState, BusIfState, BusIfFetched
    <3>2. bi_op \in LineOp /\ bi_op \notin SpecialOp
      BY <3>1 DEF TypeInv, BusIfJob, LockInv
    <3> QED BY <3>2, MemAdrParts DEF LineOp, SpecialOp, TypeInv, BusIfJob
  <2>2. idata_reg[b] = mem[a]
    <3>1. b \in Bank /\ a = LineWord(a, b)
      BY <2>1, SameWord, AdrParts, ComposeOfParts DEF LineWord
    <3> QED BY <1>4, <3>1 DEF FetchInv
  <2>3. MemoryWord(a) = CachedWord(a)
    BY <2>1, MemAdrParts DEF MemoryWord
  <2>4. bi_state \in BusIfUsesLine
    BY <1>4 DEF BusIfFetched, BusIfUsesLine
  <2>5. \A w \in WP : wp_state[w] \in WpWritesBank \cup {"write_tag1"} => wp_in[w].adr # a
    BY <2>4, LinesApart DEF WpWritesBank, WpHasTag
  <2>6. \A w \in WP : ~StoresTo(w, a)
    BY <2>1, <2>5, StoreKinds, MemAdrParts DEF StoresTo, StoresBank
  <2>7. CASE bi_state \notin BusIfNew
    <3>1. NoWayHolds(a)
      BY <2>1, <2>7 DEF MissesInv
    <3>2. ~VictimHeld(a)
      <4>1. bi_state \in BusIfOld \cup BusIfInvalid
        BY <1>4, <2>7 DEF BusIfFetched, BusIfOld, BusIfInvalid, BusIfNew
      <4>2. write_victim => bi_tag_reg.dirty
        BY <1>4, <2>7, <4>1 DEF VictimInv, VictimSaved, BusIfOld, BusIfInvalid
      <4> QED BY <4>1, <4>2 DEF VictimHeld, VictimInv
    <3>3. CachedWord(a) = mem[a]
      BY <2>1, <3>1, <3>2, CachedWordNow DEF TagsInv
    <3> QED BY <1>2, <2>1, <2>2, <2>3, <2>6, <3>3
  <2>8. CASE bi_state \in BusIfNew
    <3> DEFINE v == bi_tag_reg.way
    <3>1. v \in Way /\ HoldsLine(a, v) /\ ~TagEntry(a).way[v].dirty
      BY <2>8 DEF VictimInv, OldWay, TypeInv, TypeOK, Tag
    <3>2. BankWord(a, v) = mem[a]
      BY <2>1, <2>5, <3>1 DEF CleanInv
    <3>3. CachedWord(a) = BankWord(a, v)
      BY <2>1, <3>1, CachedWordNow DEF TagsInv
    <3> QED BY <1>2, <2>1, <2>2, <2>3, <2>6, <3>2, <3>3
  <2> QED BY <2>7, <2>8
<1> QED BY <1>1, <1>3, <1>4

\* A load returns the word the memory holds at the moment it is acknowledged.
LEMMA LoadAnswered ==
  ASSUME RefInv, OneWayPerLine', Next, NEW p \in RP, p \in rp_ack(gnt_bank),
         NEW a, a = rp_adr[p]
  PROVE  a \in MemAdr /\ rp_data(p)' = MemoryWord(a)'
<1> USE DEF RefInv, AccessInv, DataInv
<1> DEFINE b == GetBankOfAdr(a)
           v == rp_tag_in(p).way
<1>1. CASE /\ rp_state[p] \in {"read_tag", "miss_read_tag"} /\ rp_tag_in(p).valid
           /\ p \in gnt_bank[b]
           /\ rp_data(p)' = bankram_rdata'[b][RAMPORT(p)]
  <2>1. a \in LineAdr
    <3>1. p \in rp_rd /\ ~RpDirect(p)
      BY <1>1 DEF TypeInv, ReadsHeld, CachedRead
    <3> QED BY <3>1, ReadAddresses DEF RpDirect
  <2>2. a \in Nat /\ b \in Bank /\ GetIndexOfAdr(a) \in Index /\ a \in MemAdr
        /\ a \notin DirectAdr
    BY <2>1, LineParts, AdrParts
  <2>3. v \in Way /\ HoldsLine(a, v)
    <3>1. p % CPU_CORES \in CPU
      BY ConfigAssumption DEF RP, RPORTS, CPU
    <3> QED BY <1>1, <3>1 DEF MissesInv, TypeInv, TypeOK, Tag, rp_tag_in
  <2>4. p \in gnt_tagr
    <3>1. p \in tagr_reg /\ tagram_ready = TRUE
      BY <1>1 DEF MissesInv, TypeInv, TypeOK
    <3>2. p \in req_tagr
      BY <1>1 DEF req_tagr, RpReqTagR
    <3> QED BY <3>1, <3>2, TagReadersShape DEF gnt_tagr
  <2>5. tag_ram'[GetIndexOfAdr(a)].way = tag_ram[GetIndexOfAdr(a)].way
    BY <2>2, <2>4, RpTagRead DEF TagsInv
  <2>6. MemoryWord(a)' = bank_ram'[b][GetWayIndexOfAdr(a, v)]
    <3>1. CachedWord(a)' = bank_ram'[b][GetWayIndexOfAdr(a, v)]
      BY <2>1, <2>3, <2>5, CachedWordNext DEF HoldsLine, TagEntry
    <3> QED BY <2>2, <3>1 DEF MemoryWord
  <2>7. bankram_rdata'[b][RAMPORT(p)] = bank_ram'[b][GetWayIndexOfAdr(a, v)]
    <3>1. p # IDX_BUSIF
      BY PortNumbers
    <3>2. wiadr[p] = GetWayIndexOfAdr(a, v)
      BY BankDriven
    <3> QED BY <1>1, <2>2, <3>1, <3>2, BankRead
  <2> QED BY <1>1, <2>2, <2>6, <2>7
<1>2. CASE a = adr_reg /\ b \in idata_valid_reg /\ rp_data(p)' = idata_reg[b]
  BY <1>2, ForwardedWord
<1> QED BY <1>1, <1>2, ReadAnswers

\* The states of a write port whose store has taken effect.
Performed == {"direct", "write_tag1", "write_tag2"}

\* A store takes effect once, before its acknowledgement, unless it is a store
\* conditional that fails.
LEMMA StoreProgress ==
  ASSUME RefInv, Next, NEW w \in WP
  PROVE  LET stores == StoresBank(w) \/ StoresDirect(w)
         IN  /\ stores => WpWrites(w) /\ wp_state[w] \notin Performed
             /\ w \notin wp_ack(gnt_bank) /\ WpWrites(w) =>
                  /\ wp_in'[w] = wp_in[w]
                  /\ wp_state'[w] \in Performed <=> wp_state[w] \in Performed \/ stores
             /\ w \in wp_ack(gnt_bank) \/ ~WpWrites(w) => wp_state'[w] \notin Performed
             /\ w \in wp_ack(gnt_bank) /\ WpWrites(w) =>
                  wp_state[w] \in Performed \/ stores \/ wp_in[w].op = "sc"
<1> USE DEF RefInv, AccessInv
<1> DEFINE g == WpGrant(w)
           tag == tag_out[w]
           bank == w \in WpBanks(gnt_bank)
           got == IDX_WP(w) \in gnt_busif
           stores == StoresBank(w) \/ StoresDirect(w)
<1>1. /\ wp_state'[w] = WpNextState(w, tag, g)
      /\ w \in wp_ack(gnt_bank) => wp_state'[w] = "init"
      /\ wp_state'[w] \in CachedWrite \cup {"direct"} => WpWrites(w)
  BY WriteAcknowledged
<1>2. (g.bank <=> bank) /\ (g.busif <=> got) /\ (g.busy <=> busif_busy)
  BY DEF WpGrant, WpGrants
<1>3. w \in wp_ack(gnt_bank) <=> WpAck(w, bank, busif_busy)
  BY DEF wp_ack
<1>4. stores => WpWrites(w) /\ wp_state[w] \notin Performed
  BY StoreKinds DEF WpWritesBank, Performed
<1>5. w \in wp_ack(gnt_bank) \/ ~WpWrites(w) => wp_state'[w] \notin Performed
  BY <1>1 DEF Performed, CachedWrite, WritePortState, SpecialState
<1>6. w \notin wp_ack(gnt_bank) /\ WpWrites(w) => wp_in'[w] = wp_in[w]
  BY WriteRequestsHeld DEF WpWrites
<1>7. StoresBank(w) <=> wp_state[w] \in WpWritesBank /\ bank
  BY DEF StoresBank
<1>8. StoresDirect(w) <=> NewDirect(w) /\ got /\ ~busif_busy
  BY DEF StoresDirect
<1>9. wp_state[w] \in WritePortState
  BY DEF TypeInv, TypeOK
<1> HIDE DEF g, tag, bank, got
<1>10. ASSUME w \in wp_ack(gnt_bank), WpWrites(w)
       PROVE  wp_state[w] \in Performed \/ stores \/ wp_in[w].op = "sc"
  <2>1. wp_state[w] # "special_wait_complete"
    BY <1>10 DEF TypeInv, WritesHeld, SpecialState, SpecialOp, WpWrites
  <2> QED BY <1>3, <1>7, <1>10, <2>1 DEF WpAck, LastAccess, FailedSC, Performed, WpWritesBank
<1>11. ASSUME w \notin wp_ack(gnt_bank), WpWrites(w)
       PROVE  wp_state'[w] \in Performed <=> wp_state[w] \in Performed \/ stores
  <2>1. CASE wp_state[w] = "init"
    <3>1. wp_state'[w] = NextFromInit(w, g)
      BY <1>1, <2>1 DEF WpNextState
    <3>2. ~StoresBank(w)
      BY <1>7, <2>1 DEF WpWritesBank
    <3>3. CASE NewDirect(w)
      <4>1. wp_state'[w] = IF got /\ ~busif_busy THEN "direct" ELSE "init"
        <5>1. ~NewCached(w) /\ ~NewSpecial(w)
          BY <3>3 DEF NewDirect, NewCached, NewSpecial, WpWrites, SpecialOp
        <5> QED BY <1>2, <3>1, <3>3, <5>1 DEF NextFromInit, NextDirect
      <4> QED BY <1>8, <2>1, <3>2, <3>3, <4>1 DEF Performed
    <3>4. CASE ~NewDirect(w)
      BY <1>8, <2>1, <3>1, <3>2, <3>4 DEF NextFromInit, Performed
    <3> QED BY <3>3, <3>4
  <2>2. CASE wp_state[w] \in {"write_tag1_and_bank", "write_tag2_and_bank", "write_bank"}
    <3>1. ~NewDirect(w)
      BY <2>2 DEF NewDirect, Initial
    <3> QED BY <1>1, <1>2, <1>3, <1>7, <1>8, <1>11, <2>2, <3>1
            DEF WpNextState, WpAck, LastAccess, Performed, WpWritesBank
  <2>3. CASE wp_state[w] \in Performed
    <3>1. ~NewDirect(w) /\ wp_state[w] \notin WpWritesBank
      BY <2>3 DEF NewDirect, Initial, Performed, WpWritesBank
    <3> QED BY <1>1, <1>2, <1>3, <1>7, <1>8, <1>11, <2>3, <3>1
            DEF WpNextState, WpAck, LastAccess, Performed
  <2>4. CASE wp_state[w] \notin {"init"} \cup WpWritesBank \cup Performed
    <3>1. ~StoresBank(w) /\ ~StoresDirect(w)
      BY <1>7, <1>8, <2>4 DEF NewDirect, Initial
    <3>2. wp_state'[w] \notin Performed
      BY <1>1, <1>9, <2>4 DEF WpNextState, WritePortState, WpWritesBank, Performed,
         NextAfterTag, NextWrite, NextMiss
    <3> QED BY <2>4, <3>1, <3>2
  <2> QED BY <2>1, <2>2, <2>3, <2>4 DEF WpWritesBank
<1> HIDE DEF stores
<1>12. (/\ w \notin wp_ack(gnt_bank) /\ WpWrites(w)) =>
          (wp_state'[w] \in Performed <=> wp_state[w] \in Performed \/ stores)
  BY <1>11
<1>13. (w \in wp_ack(gnt_bank) /\ WpWrites(w)) =>
          (wp_state[w] \in Performed \/ stores \/ wp_in[w].op = "sc")
  BY <1>10
<1> QED BY <1>4, <1>5, <1>6, <1>12, <1>13 DEF stores

\* One store at most takes effect on a word at an edge.
LEMMA StoresApart ==
  ASSUME RefInv, NEW v \in WP, NEW w \in WP, NEW a, StoresTo(v, a), StoresTo(w, a)
  PROVE  v = w
<1> USE DEF RefInv, AccessInv, DataInv
<1>1. CASE StoresBank(v) /\ StoresBank(w)
  <2>1. wp_state[v] \in WpWritesBank
    BY <1>1 DEF StoresBank
  <2>2. wp_state[w] \in (WpReadsTag \cup WpHasTag) \ {"write_tag2"}
    BY <1>1 DEF StoresBank, WpWritesBank, WpHasTag
  <2> QED BY <2>1, <2>2, WritersApart
<1>2. CASE StoresDirect(v) /\ StoresDirect(w)
  <2>1. IDX_WP(v) = IDX_WP(w)
    BY <1>2, BusIfGrants DEF StoresDirect
  <2> QED BY <2>1, PortNumbers
<1> QED BY <1>1, <1>2, StoreKinds, MemAdrParts DEF StoresTo

-----------------------------------------------------------------------------
(* The refinement of SharedMemory.                                         *)

Storing == {w \in WP : StoresBank(w) \/ StoresDirect(w)}

LEMMA StoresPerform ==
  ASSUME RefInv, OneWayPerLine', Next, NEW W, W = Storing
  PROVE  Shared!Perform(W)
<1> DEFINE st == [w \in {v \in WP : WpWrites(v)} |-> Store(w)]
           m  == [a \in MemAdr |-> IF a \in DirectAdr THEN DirectWord(a) ELSE CachedWord(a)]
<1>1. \A w \in W : /\ w \in WP /\ st[w].adr = wp_in[w].adr
                   /\ st[w].bsel = wp_in[w].bsel /\ st[w].data = wp_in[w].data
  BY StoreKinds DEF Storing, Store
<1>2. SUFFICES /\ \A v, w \in W : st[v].adr = st[w].adr => v = w
               /\ m' = [a \in MemAdr |->
                    IF \E w \in W : st[w].adr = a
                    THEN LET w == CHOOSE w \in W : st[w].adr = a
                         IN  CombineData(st[w].bsel, m[a], st[w].data)
                    ELSE m[a]]
  BY DEF Shared!Perform
<1>3. \A a \in MemAdr : m[a] = MemoryWord(a)
  BY DEF MemoryWord
<1>4. m' = [a \in MemAdr |-> MemoryWord(a)']
  BY DEF MemoryWord
<1> HIDE DEF st, m
<1>5. \A v, w \in W : st[v].adr = st[w].adr => v = w
  BY <1>1, StoresApart DEF StoresTo, Storing
<1>6. ASSUME NEW a \in MemAdr, \E w \in W : st[w].adr = a
      PROVE  LET w == CHOOSE w \in W : st[w].adr = a
             IN  MemoryWord(a)' = CombineData(st[w].bsel, m[a], st[w].data)
  <2> DEFINE w == CHOOSE w \in W : st[w].adr = a
  <2>1. w \in W /\ st[w].adr = a
    BY <1>6
  <2> HIDE DEF w
  <2>2. w \in WP /\ StoresTo(w, a)
    BY <1>1, <2>1 DEF StoresTo, Storing
  <2>3. MemoryWord(a)' = CombineData(wp_in[w].bsel, MemoryWord(a), wp_in[w].data)
    BY <2>2, MemoryWordStep
  <2>4. MemoryWord(a)' = CombineData(st[w].bsel, m[a], st[w].data)
    BY <1>1, <1>3, <2>1, <2>3
  <2> QED BY <2>4 DEF w
<1>7. ASSUME NEW a \in MemAdr, ~\E w \in W : st[w].adr = a
      PROVE  MemoryWord(a)' = m[a]
  <2>1. \A w \in WP : ~StoresTo(w, a)
    BY <1>1, <1>7 DEF StoresTo, Storing
  <2> QED BY <1>3, <2>1, MemoryWordStep
<1>8. ASSUME NEW a \in MemAdr
      PROVE  MemoryWord(a)' = IF \E w \in W : st[w].adr = a
                              THEN LET w == CHOOSE w \in W : st[w].adr = a
                                   IN  CombineData(st[w].bsel, m[a], st[w].data)
                              ELSE m[a]
  BY <1>6, <1>7
<1> QED BY <1>4, <1>5, <1>8

LEMMA LoadsDeliver ==
  ASSUME RefInv, OneWayPerLine', Next
  PROVE  Shared!Deliver
<1> USE DEF RefInv, AccessInv
<1> DEFINE m  == [a \in MemAdr |-> IF a \in DirectAdr THEN DirectWord(a) ELSE CachedWord(a)]
           ld == [p \in rp_rd |-> rp_adr[p]]
           dv == [p \in rp_done |-> rp_data(p)]
<1>1. SUFFICES /\ DOMAIN dv' \subseteq DOMAIN ld
               /\ \A r \in DOMAIN dv' : dv'[r] = m'[ld[r]]
               /\ \A r \in DOMAIN ld \ DOMAIN dv' : r \in DOMAIN ld' /\ ld'[r] = ld[r]
  BY DEF Shared!Deliver
<1>2. rp_done' = rp_ack(gnt_bank) /\ rp_ack(gnt_bank) \subseteq RP /\ rp_rd \subseteq RP
  <2>1. rp_rd \subseteq RP
    BY MemuAssumption DEF TypeInv, TypeOK
  <2> QED BY <2>1, ReadRequestsHeld DEF rp_ack
<1>3. dv' = [p \in rp_ack(gnt_bank) |-> rp_data(p)']
  BY <1>2
<1>4. m' = [a \in MemAdr |-> MemoryWord(a)']
  BY DEF MemoryWord
<1>5. ld' = [p \in rp_rd' |-> rp_adr'[p]]
  OBVIOUS
<1> HIDE DEF m, dv
<1>6. DOMAIN dv' \subseteq DOMAIN ld
  BY <1>2, <1>3, ReadAcknowledged
<1>7. ASSUME NEW r \in DOMAIN dv'
      PROVE  dv'[r] = m'[ld[r]]
  <2>1. r \in RP /\ r \in rp_ack(gnt_bank) /\ r \in rp_rd /\ dv'[r] = rp_data(r)'
    BY <1>2, <1>3, <1>7, ReadAcknowledged
  <2> DEFINE a == ld[r]
  <2>2. a = rp_adr[r]
    BY <2>1
  <2> HIDE DEF a
  <2>3. a \in MemAdr
    BY <2>1, <2>2, LoadAnswered
  <2> SUFFICES ASSUME NEW c, c = a PROVE dv'[r] = m'[c]
    BY DEF a
  <2>4. rp_data(r)' = MemoryWord(c)'
    BY <2>1, <2>2, LoadAnswered
  <2>5. m'[c] = MemoryWord(c)'
    BY <1>4, <2>3
  <2> QED BY <2>1, <2>4, <2>5
<1>8. ASSUME NEW r \in DOMAIN ld \ DOMAIN dv'
      PROVE  r \in DOMAIN ld' /\ ld'[r] = ld[r]
  <2>1. r \in RP /\ r \in rp_rd /\ r \notin rp_ack(gnt_bank)
    BY <1>2, <1>3, <1>8
  <2>2. r \in rp_rd' /\ rp_adr'[r] = rp_adr[r]
    BY <2>1, ReadRequestsHeld
  <2> QED BY <1>5, <2>1, <2>2
<1> QED BY <1>6, <1>7, <1>8

LEMMA StoresAcknowledge ==
  ASSUME RefInv, Next, NEW W, W = Storing
  PROVE  Shared!Acknowledge(W)
<1> DEFINE st == [w \in {v \in WP : WpWrites(v)} |-> Store(w)]
           pf == {w \in WP : wp_state[w] \in {"direct", "write_tag1", "write_tag2"}}
<1>1. SUFFICES ASSUME NEW w \in WP
      PROVE  \/ /\ w \in DOMAIN st /\ w \in DOMAIN st'
                /\ st'[w] = st[w]
                /\ (w \in pf') = (w \in pf \cup W)
             \/ /\ w \in DOMAIN st => w \in pf \cup W \/ st[w].cond
                /\ w \notin pf'
  BY DEF Shared!Acknowledge
<1>2. /\ w \in DOMAIN st <=> WpWrites(w)
      /\ WpWrites(w) => st[w] = Store(w)
      /\ w \in DOMAIN st' <=> WpWrites(w)'
      /\ WpWrites(w)' => st'[w] = Store(w)'
      /\ w \in pf <=> wp_state[w] \in Performed
      /\ w \in pf' <=> wp_state'[w] \in Performed
      /\ w \in W <=> StoresBank(w) \/ StoresDirect(w)
  BY DEF Performed, Storing
<1> HIDE DEF st, pf
<1>3. CASE w \notin wp_ack(gnt_bank) /\ WpWrites(w)
  <2>1. /\ wp_in'[w] = wp_in[w]
        /\ wp_state'[w] \in Performed <=>
             wp_state[w] \in Performed \/ StoresBank(w) \/ StoresDirect(w)
    BY <1>3, StoreProgress
  <2>2. WpWrites(w)' /\ Store(w)' = Store(w)
    BY <1>3, <2>1 DEF WpWrites, Store
  <2> QED BY <1>2, <1>3, <2>1, <2>2
<1>4. CASE w \in wp_ack(gnt_bank) /\ WpWrites(w)
  <2>1. wp_state'[w] \notin Performed
    BY <1>4, StoreProgress
  <2>2. wp_state[w] \in Performed \/ StoresBank(w) \/ StoresDirect(w) \/ wp_in[w].op = "sc"
    BY <1>4, StoreProgress
  <2>3. wp_in[w].op = "sc" => st[w].cond
    <3>1. Store(w).cond <=> wp_in[w].op = "sc"
      BY Zenon DEF Store
    <3> QED BY <1>2, <1>4, <3>1
  <2> QED BY <1>2, <2>1, <2>2, <2>3
<1>5. CASE ~WpWrites(w)
  <2>1. wp_state'[w] \notin Performed
    BY <1>5, StoreProgress
  <2> QED BY <1>2, <1>5, <2>1
<1> QED BY <1>3, <1>4, <1>5

\* Every edge is a step of the shared memory.
LEMMA SharedStep ==
  ASSUME RefInv, OneWayPerLine', Next
  PROVE  Shared!Next
<1> SUFFICES ASSUME NEW W, W = Storing
             PROVE  Shared!Next
  OBVIOUS
<1>1. ASSUME NEW w \in Storing
      PROVE  w \in WP /\ WpWrites(w) /\ wp_state[w] \notin Performed
  BY <1>1, StoreProgress DEF Storing
<1>2. W \in SUBSET (DOMAIN [w \in {v \in WP : WpWrites(v)} |-> Store(w)]
                      \ {w \in WP : wp_state[w] \in {"direct", "write_tag1", "write_tag2"}})
  BY <1>1 DEF Performed
<1>3. Shared!Perform(W) /\ Shared!Deliver /\ Shared!Acknowledge(W)
  BY StoresPerform, LoadsDeliver, StoresAcknowledge
<1> QED BY <1>2, <1>3, Zenon DEF Shared!Next

LEMMA LinesInit ==
  ASSUME Init
  PROVE  LinesInv
BY DEF Init, TagRamInit, BusIfInit, LinesInv, BusIfOld, BusIfInvalid, BusIfNew

LEMMA LinesStutter ==
  ASSUME LinesInv, UNCHANGED vars
  PROVE  LinesInv'
<1>1. UNCHANGED <<tag_ram, bi_state, bi_tag_reg, adr_reg>>
  BY DEF vars, tagRamVars, busIfVars, idataVars
<1> QED BY <1>1 DEF LinesInv, KnownLine

LEMMA RefInvariant ==
  ASSUME NoCacheControl
  PROVE  Spec => []RefInv
<1> DEFINE IInv == AccessInv /\ DataInv
<1>1. Init => LinesInv
  BY LinesInit
<1>2. IInv /\ IInv' /\ LinesInv /\ [Next]_vars => LinesInv'
  <2>1. IInv /\ IInv' /\ LinesInv /\ Next => LinesInv'
    BY LinesInvNext DEF DataInv
  <2>2. LinesInv /\ UNCHANGED vars => LinesInv'
    BY LinesStutter
  <2> QED BY <2>1, <2>2
<1>3. Spec => []IInv
  BY NoCacheControl, DataInvariant
<1>4. RefInv <=> IInv /\ LinesInv
  BY DEF RefInv
<1> HIDE DEF IInv
<1> QED BY <1>1, <1>2, <1>3, <1>4, PTL DEF Spec

LEMMA NothingPending == \A f : DOMAIN f = {} /\ f = [x \in DOMAIN f |-> f[x]] => f = <<>>
BY SMT

LEMMA SharedInit ==
  ASSUME Init
  PROVE  Shared!Init
<1>1. /\ \A i \in Index : \A v \in Way : ~tag_ram[i].way[v].valid
      /\ bi_state = "idle" /\ bi_op = "nothing" /\ rp_rd = {} /\ rp_done = {}
      /\ mem = [a \in MemAdr |-> AnyWord]
      /\ \A w \in WP : wp_state[w] = "init" /\ wp_in[w].op = "none"
  BY DEF Init, TagRamInit, BusIfInit, WritePortInit, NoWrite
<1>2. \A a \in MemAdr \ DirectAdr : CachedWord(a) = mem[a]
  <2>1. ASSUME NEW a \in LineAdr
        PROVE  CachedWord(a) = mem[a]
    <3>1. TypeInv /\ OneWayPerLine
      BY <1>1, TypeInvInit DEF OneWayPerLine
    <3>2. NoWayHolds(a)
      BY <1>1, LineParts, AdrParts DEF NoWayHolds, HoldsLine, TagEntry
    <3>3. ~VictimHeld(a)
      BY <1>1 DEF VictimHeld
    <3> QED BY <3>1, <3>2, <3>3, CachedWordNow
  <2> QED BY <2>1, MemAdrParts
<1>3. \A a \in MemAdr : DirectWord(a) = mem[a] /\ mem[a] \in Word
  BY <1>1, WordType DEF DirectWord
<1> DEFINE m  == [a \in MemAdr |-> IF a \in DirectAdr THEN DirectWord(a) ELSE CachedWord(a)]
           ld == [p \in rp_rd |-> rp_adr[p]]
           dv == [p \in rp_done |-> rp_data(p)]
           st == [w \in {v \in WP : WpWrites(v)} |-> Store(w)]
           pf == {w \in WP : wp_state[w] \in {"direct", "write_tag1", "write_tag2"}}
<1>4. m \in [MemAdr -> Word]
  BY <1>2, <1>3
<1>5. ld = <<>> /\ dv = <<>>
  BY <1>1, NothingPending
<1>6. st = <<>>
  <2>1. {v \in WP : WpWrites(v)} = {}
    BY <1>1 DEF WpWrites
  <2> QED BY <2>1, NothingPending
<1>7. pf = {}
  BY <1>1
<1> QED BY <1>4, <1>5, <1>6, <1>7 DEF Shared!Init

LEMMA SharedStutter ==
  ASSUME UNCHANGED vars
  PROVE  UNCHANGED Shared!svars
<1>1. UNCHANGED <<tag_ram, bi_state, bi_op, adr_reg, bsel_reg, odata_reg, idata_reg,
                  bi_tag_reg, write_victim, bank_ram, bankram_rdata, mem,
                  rp_busif_data_reg, rp_state, rp_bank_sel, rp_adr, rp_rd, rp_done, wp_state, wp_in>>
  BY DEF vars, tagRamVars, busIfVars, opVars, idataVars, bankVars, readPortVars,
         writePortVars, cpuVars
<1> DEFINE m  == [a \in MemAdr |-> IF a \in DirectAdr THEN DirectWord(a) ELSE CachedWord(a)]
           ld == [p \in rp_rd |-> rp_adr[p]]
           dv == [p \in rp_done |-> rp_data(p)]
           st == [w \in {v \in WP : WpWrites(v)} |-> Store(w)]
           pf == {w \in WP : wp_state[w] \in {"direct", "write_tag1", "write_tag2"}}
<1>2. m' = m
  BY <1>1 DEF DirectWord, CachedWord, CachedWays, VictimHeld
<1>3. ld' = ld /\ dv' = dv
  BY <1>1 DEF rp_data, RpData
<1>4. st' = st /\ pf' = pf
  BY <1>1 DEF WpWrites, Store
<1> QED BY <1>2, <1>3, <1>4 DEF Shared!svars

\* All ports see one memory: whatever the caches, the write-back of victims, the
\* forwarding of bus data and the interleaving of the ports do, a load returns the last
\* word stored, as long as no CPU uses cache control.
THEOREM SharedMemoryTheorem ==
  ASSUME NoCacheControl
  PROVE  Spec => SharedMemorySpec
<1>1. Init => Shared!Init
  BY SharedInit
<1>2. RefInv /\ RefInv' /\ [Next]_vars => [Shared!Next]_(Shared!svars)
  <2>1. RefInv' => OneWayPerLine'
    BY DEF RefInv, AccessInv, TagsInv
  <2> QED BY <2>1, SharedStep, SharedStutter
<1> QED BY <1>1, <1>2, NoCacheControl, RefInvariant, PTL DEF Spec, SharedMemorySpec, Shared!Spec

-----------------------------------------------------------------------------
(* The arbiter.                                                            *)

\* The ports and addresses of the arbiter are those of the memory unit.
LEMMA SamePorts ==
  /\ Arbiter!CPU = CPU /\ Arbiter!Port = Port /\ Arbiter!Locker = Locker
  /\ Arbiter!Bank = Bank /\ Arbiter!Index = Index /\ Arbiter!WayIndex = WayIndex
  /\ Arbiter!IDX_BUSIF = IDX_BUSIF /\ Arbiter!LOCK_BUSIF = LOCK_BUSIF
  /\ Arbiter!CounterPeriod = CPU_CORES * PRIO_CLOCKS
  /\ Arbiter!GetPrioCpu = GetPrioCpu
BY DEF Arbiter!CPU, CPU, Arbiter!Port, Port, Arbiter!Locker, Locker, Arbiter!Bank, Bank,
       Arbiter!Index, Index, Arbiter!WayIndex, WayIndex, Arbiter!IDX_BUSIF, IDX_BUSIF,
       Arbiter!LOCK_BUSIF, LOCK_BUSIF, Arbiter!CounterPeriod, Arbiter!GetPrioCpu, GetPrioCpu,
       Arbiter!RPORTS, RPORTS, Arbiter!WPORTS, WPORTS

\* The grant functions of the arbiter are those of the memory unit.
LEMMA SameGrants ==
  /\ \A reg, req, ix, prio : Arbiter!LineLock(reg, req, ix, prio) = LineLock(reg, req, ix, prio)
  /\ \A ready, reg, req, reqw :
       Arbiter!TagReaders(ready, reg, req, reqw) = TagReaders(ready, reg, req, reqw)
  /\ \A ready, readers, regw, reqw, prio :
       Arbiter!TagWriters(ready, readers, regw, reqw, prio)
         = TagWriters(ready, readers, regw, reqw, prio)
  /\ \A reg, req, prio : Arbiter!BusIfGrant(reg, req, prio) = BusIfGrant(reg, req, prio)
  /\ \A reg, req, wi, prio : Arbiter!BankGrant(reg, req, wi, prio) = BankGrant(reg, req, wi, prio)
<1> USE DEF Arbiter!FirstInTurn, FirstInTurn, Arbiter!LastInTurn, LastInTurn, Arbiter!Turn, Turn,
            Arbiter!RPORTS, RPORTS, Arbiter!WPORTS, WPORTS, Arbiter!CPU, CPU,
            Arbiter!LOCK_BUSIF, LOCK_BUSIF, Arbiter!IDX_BUSIF, IDX_BUSIF,
            Arbiter!IDX_RP, IDX_RP, Arbiter!IDX_IP, IDX_IP, Arbiter!IDX_WP, IDX_WP
<1>1. \A reg, req, ix, prio : Arbiter!LineLock(reg, req, ix, prio) = LineLock(reg, req, ix, prio)
  BY DEF Arbiter!LineLock, LineLock, Arbiter!KeptLocks, KeptLocks,
         Arbiter!BusIfGetsLock, BusIfGetsLock, Arbiter!NewLockCandidates, NewLockCandidates
<1>2. \A ready, reg, req, reqw :
       Arbiter!TagReaders(ready, reg, req, reqw) = TagReaders(ready, reg, req, reqw)
  BY DEF Arbiter!TagReaders, TagReaders, Arbiter!FreeTagPorts, FreeTagPorts,
         Arbiter!TagPort, TagPort, Arbiter!TagPortChoice, TagPortChoice
<1>3. \A ready, readers, regw, reqw, prio :
       Arbiter!TagWriters(ready, readers, regw, reqw, prio)
         = TagWriters(ready, readers, regw, reqw, prio)
  BY DEF Arbiter!TagWriters, TagWriters
<1>4. \A reg, req, prio : Arbiter!BusIfGrant(reg, req, prio) = BusIfGrant(reg, req, prio)
  BY DEF Arbiter!BusIfGrant, BusIfGrant, Arbiter!BusIfClaimants, BusIfClaimants,
         Arbiter!BusIfChoice, BusIfChoice
<1>5. \A reg, req, wi, prio : Arbiter!BankGrant(reg, req, wi, prio) = BankGrant(reg, req, wi, prio)
  <2>1. (\A n : Arbiter!RAMPORT(n) = RAMPORT(n)) /\ Arbiter!None = None
    BY DEF Arbiter!RAMPORT, RAMPORT, Arbiter!RAMPORT_BUSIF, RAMPORT_BUSIF,
           Arbiter!CPU_OF_IDX, CPU_OF_IDX, Arbiter!None, None
  <2>2. \A p, reg, req, prio :
          Arbiter!SelectedPort(p, reg, req, prio) = SelectedPort(p, reg, req, prio)
    BY DEF Arbiter!SelectedPort, SelectedPort, Arbiter!RAMPORT, RAMPORT,
           Arbiter!RAMPORT_BUSIF, RAMPORT_BUSIF, Arbiter!CPU_OF_IDX, CPU_OF_IDX,
           Arbiter!None, None, Arbiter!BusIfClaimants, BusIfClaimants,
           Arbiter!BusIfChoice, BusIfChoice
  <2>3. \A reg, req, wi, prio : Arbiter!PreGranted(reg, req, wi, prio) = PreGranted(reg, req, wi, prio)
    BY <2>1, <2>2 DEF Arbiter!PreGranted, PreGranted
  <2>4. \A p, reg, req, wi, prio :
          Arbiter!SelectedWriter(p, reg, req, wi, prio) = SelectedWriter(p, reg, req, wi, prio)
    <3> SUFFICES ASSUME NEW p, NEW reg, NEW req, NEW wi, NEW prio
                 PROVE  Arbiter!SelectedWriter(p, reg, req, wi, prio)
                          = SelectedWriter(p, reg, req, wi, prio)
      OBVIOUS
    <3> DEFINE W == {i \in CPU : /\ RAMPORT(i) = p
                                 /\ IDX_WP(i) \in PreGranted(reg, req, wi, prio)}
    <3>1. {i \in Arbiter!CPU : /\ Arbiter!RAMPORT(i) = p
                               /\ Arbiter!IDX_WP(i) \in Arbiter!PreGranted(reg, req, wi, prio)} = W
      BY <2>1, <2>3
    <3>2. Arbiter!LastInTurn(W, prio) = LastInTurn(W, prio)
      OBVIOUS
    <3> HIDE DEF W, Arbiter!LastInTurn, LastInTurn
    <3> QED BY <2>2, <3>1, <3>2 DEF Arbiter!SelectedWriter, SelectedWriter, W
  <2> QED BY <2>1, <2>3, <2>4 DEF Arbiter!BankGrant, BankGrant
<1> QED BY <1>1, <1>2, <1>3, <1>4, <1>5

\* Only the addresses of requesters matter.
LEMMA MaskedLocks ==
  ASSUME NEW reg, NEW req, req \subseteq Locker, NEW ix \in [Locker -> Index], NEW prio
  PROVE  LineLock(reg, req, Masked(ix, req), prio) = LineLock(reg, req, ix, prio)
<1> DEFINE jx == Masked(ix, req)
<1>1. \A n \in req : jx[n] = ix[n]
  BY DEF Masked
<1> HIDE DEF jx
<1>2. BusIfGetsLock(reg, req, jx) <=> BusIfGetsLock(reg, req, ix)
  BY <1>1 DEF BusIfGetsLock, KeptLocks
<1>3. NewLockCandidates(reg, req, jx) = NewLockCandidates(reg, req, ix)
  BY <1>1, <1>2 DEF NewLockCandidates, BusIfGetsLock
<1>4. LineLock(reg, req, jx, prio) = LineLock(reg, req, ix, prio)
  BY <1>2, <1>3 DEF LineLock
<1> QED BY <1>4 DEF jx

LEMMA SameBankGrant ==
  ASSUME NEW reg, NEW req, req \subseteq Port, NEW wi, NEW wj, \A n \in req : wi[n] = wj[n],
         NEW prio \in CPU
  PROVE  BankGrant(reg, req, wi, prio) = BankGrant(reg, req, wj, prio)
<1>1. ASSUME NEW n \in req
      PROVE  LET s == SelectedPort(RAMPORT(n), reg, req, prio)
             IN  s # None => wi[s] = wj[s]
  BY SelectedPortMember
<1>2. PreGranted(reg, req, wi, prio) = PreGranted(reg, req, wj, prio)
  BY <1>1 DEF PreGranted
<1>3. \A p : SelectedWriter(p, reg, req, wi, prio) = SelectedWriter(p, reg, req, wj, prio)
  BY <1>2 DEF SelectedWriter
<1> QED BY <1>2, <1>3 DEF BankGrant

-----------------------------------------------------------------------------
(* The lines to the arbiter.                                               *)

LinesTyped == lock_idx \in [Locker -> Index] /\ wiadr \in [Port -> WayIndex]

LEMMA ArbiterLineTypes ==
  ASSUME TypeInv
  PROVE  LinesTyped
<1>1. wiadr \in [Port -> WayIndex]
  <2>1. \A n \in Port : wiadr[n] \in WayIndex
    BY WayIndexType
  <2>2. wiadr = [n \in Port |-> wiadr[n]]
    BY DEF wiadr
  <2> HIDE DEF wiadr
  <2> QED BY <2>1, <2>2
<1>2. ASSUME NEW n \in Locker PROVE lock_idx[n] \in Index
  <2>1. n = LOCK_BUSIF \/ n \in WP
    BY <1>2, PortNumbers
  <2>2. adr_reg \in Nat
    BY MemAdrParts DEF TypeInv, TypeOK
  <2>3. n \in WP => wp_in[n].adr \in Nat
    BY WriteRequests
  <2> QED BY <1>2, <2>1, <2>2, <2>3, AdrParts DEF lock_idx, busif_adr_out
<1>3. lock_idx \in [Locker -> Index]
  <2>1. lock_idx = [n \in Locker |-> lock_idx[n]]
    BY DEF lock_idx
  <2> HIDE DEF lock_idx
  <2> QED BY <1>2, <2>1
<1> QED BY <1>1, <1>3 DEF LinesTyped

\* Whoever asks for a line lock on asks for the same line.
LEMMA LockAddressHeld ==
  ASSUME AccessInv, Next, NEW n \in req_linelock, n \in req_linelock'
  PROVE  lock_idx'[n] = lock_idx[n]
<1> USE DEF AccessInv
<1>1. n \in Locker
  BY RequestsType DEF req_linelock
<1>2. CASE n \in WP
  <2>1. WpReqLineLock(n, n \in WpBanks(gnt_bank))
    BY <1>2, PortNumbers DEF req_linelock, LineLockRequests
  <2>2. wp_in'[n] = wp_in[n]
    BY <1>2, <2>1, LockRequests
  <2> QED BY <1>1, <1>2, <2>2, PortNumbers DEF lock_idx
<1>3. CASE n = LOCK_BUSIF
  <2>1. bi_req_linelock /\ bi_req_linelock'
    BY <1>3, PortNumbers DEF req_linelock, LineLockRequests
  <2>2. GetIndexOfAdr(adr_reg') = GetIndexOfAdr(adr_reg)
    <3> DEFINE in == BusIfLines
    <3>1. BusIfEdge(in) /\ BusIfType /\ BusIfJob
      BY NextParts, BusIfOfType DEF BusIfLines, TypeInv
    <3>2. bi_state # "start"
      BY <2>1 DEF bi_req_linelock
    <3> HIDE DEF in
    <3> QED BY <2>1, <3>1, <3>2, BusIfMoves
  <2> QED BY <1>1, <1>3, <2>2 DEF lock_idx, busif_adr_out
<1> QED BY <1>1, <1>2, <1>3, PortNumbers

\* A read port that asks for a bank on has read the tag of the same line again.
LEMMA ReadAddressHeld ==
  ASSUME AccessInv, MissesInv, MissesInv', AccessInv', Next, NEW p \in RP,
         RpReqBank(p, rp_tag_in(p)), RpReqBank(p, rp_tag_in(p))'
  PROVE  /\ rp_adr'[p] = rp_adr[p]
         /\ rp_tag_in(p)'.way = rp_tag_in(p).way
<1> USE DEF AccessInv
<1>1. /\ rp_state[p] \in {"read_tag", "miss_read_tag"}
      /\ rp_tag_in(p).valid
      /\ rp_state'[p] \in {"read_tag", "miss_read_tag"}
      /\ rp_tag_in(p)'.valid
  BY DEF RpReqBank, rp_tag_in
<1>2. p \in rp_rd /\ p \notin rp_ack(gnt_bank)
  BY <1>1, ReadAcknowledged DEF TypeInv, ReadsHeld
<1>3. rp_adr'[p] = rp_adr[p]
  BY <1>2, ReadRequestsHeld
<1>4. p \in gnt_tagr
  BY <1>1, NextParts DEF MissesInv
<1>5. \A i \in Index : tag_ram'[i].way = tag_ram[i].way
  BY <1>4, TagRead DEF TagsInv
<1> DEFINE a == rp_adr[p]
           u == rp_tag_in(p).way
           v == rp_tag_in(p)'.way
<1>6. a \in Nat /\ GetIndexOfAdr(a) \in Index
  BY ReadAddresses, AdrParts
<1>7. HoldsLine(a, u)
  BY <1>1 DEF MissesInv
<1>8. /\ tag_ram'[GetIndexOfAdr(a)].way[v].valid
      /\ tag_ram'[GetIndexOfAdr(a)].way[v].tadr = GetTagOfAdr(a)
  BY <1>1, <1>3 DEF MissesInv, HoldsLine, TagEntry
<1>9. u \in Way /\ v \in Way
  <2>1. p % CPU_CORES \in CPU
    BY ConfigAssumption DEF RP, RPORTS, CPU
  <2> QED BY <2>1 DEF rp_tag_in, TypeInv, TypeOK, Tag
<1>10. u = v
  BY <1>5, <1>6, <1>7, <1>8, <1>9 DEF TagsInv, OneWayPerLine, HoldsLine, TagEntry
<1> QED BY <1>3, <1>10

\* A write port that asks for a bank on works on the word it has found.
LEMMA WriteAddressHeld ==
  ASSUME AccessInv, Next, NEW w \in WP, WpReqBank(w), WpReqBank(w)'
  PROVE  /\ wp_in'[w] = wp_in[w]
         /\ WpTagOut(w, tag_out[w])'.way = WpTagOut(w, tag_out[w]).way
<1> USE DEF AccessInv
<1> DEFINE B == {"have_tag_request_bank", "read_bank", "write_tag1_and_bank",
                 "write_tag2_and_bank", "write_bank"}
<1>1. wp_state[w] \in {"read_tag"} \cup B /\ wp_state'[w] \in {"read_tag"} \cup B
  BY DEF WpReqBank
<1>2. wp_in'[w] = wp_in[w]
  BY <1>1, WpTagMoves DEF WpReadsTag, WpHasTag
<1>3. wp_state'[w] \in B
  <2>1. wp_state'[w] = WpNextState(w, tag_out[w], WpGrant(w))
    BY WriteAcknowledged
  <2> QED BY <1>1, <2>1
          DEF WpNextState, NextAfterTag, NextWrite
<1>4. \/ wp_state[w] = "read_tag" /\ wp_tag_reg'[w] = tag_out[w]
      \/ wp_state[w] \in B /\ wp_tag_reg'[w] = wp_tag_reg[w]
  BY <1>1, <1>3, WpTagMoves DEF WpReadsTag, WpHasTag
<1>5. wp_tag_reg[w] \in Tag /\ wp_tag_reg'[w] \in Tag
  BY WritePortTypes DEF TypeInv, TypeOK
<1>6. WpTagOut(w, tag_out[w]).way =
        IF wp_state[w] = "read_tag" THEN tag_out[w].way ELSE wp_tag_reg[w].way
  BY <1>5 DEF WpTagOut, Tag
<1>7. WpTagOut(w, tag_out[w])'.way = wp_tag_reg'[w].way
  BY <1>3, <1>5 DEF WpTagOut, Tag
<1> QED BY <1>2, <1>4, <1>6, <1>7

\* The bus interface goes through the banks with one line and one way.
LEMMA BusIfAddressHeld ==
  ASSUME AccessInv, Next, bi_bank_rd \cup bi_bank_wr # {}, (bi_bank_rd \cup bi_bank_wr)' # {}
  PROVE  /\ GetIndexOfAdr(adr_reg') = GetIndexOfAdr(adr_reg)
         /\ bi_tag_out'.way = bi_tag_out.way
<1> USE DEF AccessInv
<1>1. bi_state \in {"read_bank", "write_bank"} /\ bi_state' \in {"read_bank", "write_bank"}
  BY DEF bi_bank_rd, bi_bank_wr
<1> DEFINE in == BusIfLines
<1>2. BusIfEdge(in) /\ BusIfType /\ BusIfJob
  BY NextParts, BusIfOfType DEF BusIfLines, TypeInv
<1> HIDE DEF in
<1>3. bi_tag_reg' = bi_tag_reg /\ GetIndexOfAdr(adr_reg') = GetIndexOfAdr(adr_reg)
  BY <1>1, <1>2, BusIfTagMoves DEF BusIfHasTag
<1>4. bi_tag_reg \in Tag
  BY DEF TypeInv, TypeOK
<1>5. bi_tag_out.way = bi_tag_reg.way
  BY <1>1, <1>4 DEF bi_tag_out, Tag
<1>6. bi_tag_out'.way = bi_tag_reg'.way
  BY <1>1, <1>3, <1>4 DEF bi_tag_out, Tag
<1> QED BY <1>3, <1>5, <1>6

LEMMA BankAddressHeld ==
  ASSUME AccessInv, MissesInv, MissesInv', AccessInv', Next,
         NEW b \in Bank, NEW n \in req_bank[b], n \in req_bank'[b]
  PROVE  wiadr'[n] = wiadr[n]
<1>0. n \in Port
  BY RequestsType
<1>1. CASE n \in RP
  <2>1. RpReqBank(n, rp_tag_in(n)) /\ RpReqBank(n, rp_tag_in(n))'
    BY <1>1, PortNumbers DEF req_bank
  <2>2. rp_adr'[n] = rp_adr[n] /\ rp_tag_in(n)'.way = rp_tag_in(n).way
    BY <1>1, <2>1, ReadAddressHeld
  <2>3. n < RPORTS
    BY <1>1, PortNumbers DEF RP
  <2> QED BY <1>0, <2>2, <2>3 DEF wiadr
<1>2. ASSUME NEW w \in WP, n = IDX_WP(w) PROVE wiadr'[n] = wiadr[n]
  <2>1. WpReqBank(w) /\ WpReqBank(w)'
    <3>1. \A v \in WP : IDX_WP(v) = n => v = w
      BY <1>2, PortNumbers
    <3> QED BY <1>2, <3>1, PortNumbers DEF req_bank
  <2>2. wp_in'[w] = wp_in[w] /\ WpTagOut(w, tag_out[w])'.way = WpTagOut(w, tag_out[w]).way
    BY <2>1, WriteAddressHeld
  <2>3. ~(n < RPORTS) /\ n < IDX_BUSIF /\ n - RPORTS = w
    BY <1>2, PortNumbers DEF IDX_WP, IDX_BUSIF, WP
  <2> QED BY <1>0, <2>2, <2>3 DEF wiadr
<1>3. CASE n = IDX_BUSIF
  <2>1. bi_bank_rd \cup bi_bank_wr # {} /\ (bi_bank_rd \cup bi_bank_wr)' # {}
    BY <1>3, PortNumbers DEF req_bank
  <2>2. GetIndexOfAdr(adr_reg') = GetIndexOfAdr(adr_reg) /\ bi_tag_out'.way = bi_tag_out.way
    BY <2>1, BusIfAddressHeld
  <2>3. ~(n < RPORTS) /\ ~(n < IDX_BUSIF)
    BY <1>3, PortNumbers DEF IDX_BUSIF
  <2> QED BY <1>0, <2>2, <2>3 DEF wiadr, busif_adr_out, GetWayIndexOfAdr
<1> QED BY <1>0, <1>1, <1>2, <1>3, PortNumbers

\* What the memory unit asks the arbiter for, as many requests as it has ports.
RequestsTyped ==
  /\ req_linelock \subseteq Locker /\ req_tagr \subseteq Port /\ req_tagw \subseteq Locker
  /\ req_bank \in [Bank -> SUBSET Port] /\ req_busif \subseteq Port \ {IDX_BUSIF}

LEMMA RequestsAreTyped == RequestsTyped
<1>1. req_bank \in [Bank -> SUBSET Port]
  <2>1. req_bank = [b \in Bank |-> req_bank[b]]
    BY DEF req_bank
  <2> HIDE DEF req_bank
  <2> QED BY <2>1, RequestsType
<1> QED BY <1>1, RequestsType DEF RequestsTyped, req_linelock

LEMMA LineCounts ==
  /\ \A S \in SUBSET Locker : Cardinality(S) \in Nat /\ Cardinality(S) <= WPORTS + 1
  /\ \A S \in SUBSET Port : Cardinality(S) \in Nat /\ Cardinality(S) <= RPORTS + WPORTS + 1
<1>1. RPORTS \in Nat /\ WPORTS \in Nat
  BY PortNumbers
<1>2. IsFiniteSet(Locker) /\ Cardinality(Locker) = WPORTS + 1
  <2>1. Locker = 0 .. WPORTS
    BY DEF Locker
  <2> QED BY <1>1, <2>1, FS_Interval, SMT
<1>3. IsFiniteSet(Port) /\ Cardinality(Port) = RPORTS + WPORTS + 1
  <2>1. Port = 0 .. RPORTS + WPORTS
    BY DEF Port
  <2> QED BY <1>1, <2>1, FS_Interval, SMT
<1> QED BY <1>1, <1>2, <1>3, FS_Subset, FS_CardinalityType

LEMMA ArbiterInit ==
  ASSUME Init, RequestsTyped
  PROVE  Arbiter!Init
<1>0. /\ bi_state = "idle"
      /\ \A p \in RP : rp_state[p] = "init" /\ p \notin rp_rd
      /\ \A w \in WP : wp_state[w] = "init" /\ wp_in[w].op = "none"
  BY DEF Init, BusIfInit, ReadPortInit, WritePortInit, NoWrite
<1>1. req_linelock = {} /\ req_tagr = {} /\ req_tagw = {} /\ req_busif = {}
  <2>1. req_linelock = {}
    BY <1>0 DEF req_linelock, LineLockRequests, WpReqLineLock, bi_req_linelock, NewCached, NewSpecial,
         WpWrites, SpecialOp
  <2>2. req_tagr = {}
    BY <1>0 DEF req_tagr, RpReqTagR, WpReqTagR, bi_tag_rd, NewRead, NewCached, WpWrites
  <2>3. req_tagw = {}
    BY <1>0 DEF req_tagw, WpReqTagW, bi_req_tagw
  <2>4. req_busif = {}
    BY <1>0 DEF req_busif, RpReqBusIf, WpReqBusIf, NewRead, NewDirect, NewSpecial,
         WpWrites, SpecialOp
  <2> QED BY <2>1, <2>2, <2>3, <2>4
<1>2. req_bank = [b \in Bank |-> {}]
  BY DEF Init, BusIfInit, ReadPortInit, WritePortInit, NoWrite, req_bank, RpReqBank, WpReqBank,
         bi_bank_rd, bi_bank_wr
<1>3. Masked(lock_idx, req_linelock) = [n \in Locker |-> 0]
  BY <1>1 DEF Masked, lock_idx
<1>4. Masked(wiadr, UNION {req_bank[b] : b \in Bank}) = [n \in Port |-> 0]
  BY <1>2 DEF Masked, wiadr
<1>5. ~tagram_ready
  BY DEF Init, TagRamInit
<1> HIDE DEF req_linelock, req_tagr, req_tagw, req_busif, req_bank, wiadr, lock_idx
<1> QED BY <1>1, <1>2, <1>3, <1>4, <1>5, SamePorts DEF Init, Arbiter!Init

LEMMA SameCardinality == \A S : Arbiter!Cardinality(S) = Cardinality(S)
BY DEF Arbiter!Cardinality, Cardinality

\* One clock edge of the memory unit is one of the arbiter.
LEMMA ArbiterEdges ==
  ASSUME AccessInv, RequestsTyped, LinesTyped, Next
  PROVE  Arbiter!TransitionThread
<1> USE DEF AccessInv
<1> DEFINE users == UNION {req_bank[b] : b \in Bank}
           ix == Masked(lock_idx, req_linelock)
           wi == Masked(wiadr, users)
<1>p. GetPrioCpu \in CPU
  BY PrioType DEF TypeInv
<1>1. Arbiter!GetPrioCpu = GetPrioCpu /\ Arbiter!CounterPeriod = CPU_CORES * PRIO_CLOCKS
      /\ Arbiter!Bank = Bank
  BY SamePorts
<1>2. counter_reg' = (counter_reg + 1) % Arbiter!CounterPeriod
  BY <1>1, NextParts DEF Tick
<1>3. linelock_reg' = Arbiter!gnt_linelock
  <2>1. Arbiter!gnt_linelock = LineLock(linelock_reg, req_linelock, ix, GetPrioCpu)
    BY <1>1, SameGrants DEF Arbiter!gnt_linelock
  <2>2. linelock_reg' = LineLock(linelock_reg, req_linelock, lock_idx, GetPrioCpu)
    BY NextParts DEF NextLocks, gnt_linelock, req_linelock
  <2> HIDE DEF ix
  <2>3. ix = Masked(lock_idx, req_linelock)
    BY DEF ix
  <2> QED BY <2>1, <2>2, <2>3, MaskedLocks DEF RequestsTyped, LinesTyped
<1>4. Arbiter!gnt_tagr = gnt_tagr /\ tagr_reg' = gnt_tagr
  BY SameGrants, NextParts DEF Arbiter!gnt_tagr, gnt_tagr
<1>5. tagw_reg' = Arbiter!gnt_tagw
  BY <1>1, <1>4, SameGrants, NextParts DEF Arbiter!gnt_tagw, NextTagW, gnt_tagw
<1>6. bank_reg' = Arbiter!gnt_bank
  <2>1. Arbiter!gnt_bank = [b \in Bank |-> BankGrant(bank_reg[b], req_bank[b], wi, GetPrioCpu)]
    BY <1>1, SameGrants DEF Arbiter!gnt_bank
  <2>2. ASSUME NEW b \in Bank
        PROVE  BankGrant(bank_reg[b], req_bank[b], wi, GetPrioCpu)
                 = BankGrant(bank_reg[b], req_bank[b], wiadr, GetPrioCpu)
    <3>1. req_bank[b] \subseteq Port /\ req_bank[b] \subseteq users
      BY DEF RequestsTyped
    <3>2. \A n \in req_bank[b] : wi[n] = wiadr[n]
      BY <3>1 DEF Masked, LinesTyped
    <3> HIDE DEF wi
    <3> QED BY <1>p, <3>1, <3>2, SameBankGrant
  <2>3. bank_reg' = [b \in Bank |-> BankGrant(bank_reg[b], req_bank[b], wiadr, GetPrioCpu)]
    BY NextParts DEF gnt_bank
  <2> HIDE DEF wi
  <2> QED BY <2>1, <2>2, <2>3
<1>7. busif_reg' = Arbiter!gnt_busif
  BY <1>1, SameGrants, NextParts DEF Arbiter!gnt_busif, gnt_busif
<1> QED BY <1>2, <1>3, <1>4, <1>5, <1>6, <1>7 DEF Arbiter!TransitionThread

\* What the ports and the bus interface do at an edge the environment of the arbiter may do.
LEMMA ArbiterLines ==
  ASSUME AccessInv, MissesInv, AccessInv', MissesInv', RequestsTyped, RequestsTyped',
         LinesTyped, LinesTyped', Next
  PROVE  Arbiter!Environment
<1> DEFINE all == {"linelock", "tag", "bank", "busif"}
           max == RPORTS + 2 * (WPORTS + 1)
<1>1. RPORTS \in Nat /\ WPORTS \in Nat
  BY PortNumbers
<1>2. \A S \in SUBSET Locker : Cardinality(S) <= max
  BY <1>1, LineCounts
<1>3. \A S \in SUBSET Port : Cardinality(S) <= max
  BY <1>1, LineCounts
<1>4. Arbiter!RequestLines
  <2>1. req_linelock' \in {R \in SUBSET Locker : Cardinality(R) <= max}
    BY <1>2 DEF RequestsTyped
  <2>2. req_tagr' \in {R \in SUBSET Port : Cardinality(R) <= max}
    BY <1>3 DEF RequestsTyped
  <2>3. req_tagw' \in {R \in SUBSET Locker : Cardinality(R) <= max}
    BY <1>2 DEF RequestsTyped
  <2>4. Cardinality(req_tagr') + Cardinality(req_tagw') <= max
    BY <1>1, LineCounts DEF RequestsTyped
  <2>5. req_bank' \in [Bank -> {R \in SUBSET Port : Cardinality(R) <= max}]
    BY <1>3 DEF RequestsTyped
  <2>6. req_busif' \in {R \in SUBSET (Port \ {IDX_BUSIF}) : Cardinality(R) <= max}
    BY <1>3 DEF RequestsTyped
  <2>7. \A S : /\ Arbiter!Asks("linelock", S) = {R \in SUBSET S : Cardinality(R) <= max}
               /\ Arbiter!Asks("tag", S) = {R \in SUBSET S : Cardinality(R) <= max}
               /\ Arbiter!Asks("bank", S) = {R \in SUBSET S : Cardinality(R) <= max}
               /\ Arbiter!Asks("busif", S) = {R \in SUBSET S : Cardinality(R) <= max}
    BY SameCardinality DEF Arbiter!Asks
  <2> HIDE DEF max
  <2>8. Cardinality(req_tagr') + Cardinality(req_tagw') <= RPORTS + 2 * (WPORTS + 1)
    BY <2>4 DEF max
  <2> QED BY <2>1, <2>2, <2>3, <2>5, <2>6, <2>7, <2>8, SamePorts, SameCardinality
         DEF Arbiter!RequestLines
<1>5. tagram_ready' = TRUE
  BY NextParts DEF TagRamEdge
<1> DEFINE users == UNION {req_bank[b] : b \in Bank}
<1>6. Arbiter!AddressLines
  <2>1. Masked(lock_idx, req_linelock)'
          \in {[n \in Arbiter!Locker |-> IF n \in req_linelock' THEN f[n] ELSE 0] :
                 f \in [req_linelock' -> Arbiter!Index]}
    <3> DEFINE f == [n \in req_linelock' |-> lock_idx'[n]]
    <3>1. f \in [req_linelock' -> Arbiter!Index]
      BY SamePorts DEF RequestsTyped, LinesTyped
    <3>2. Masked(lock_idx, req_linelock)'
            = [n \in Arbiter!Locker |-> IF n \in req_linelock' THEN f[n] ELSE 0]
      BY SamePorts DEF Masked, LinesTyped
    <3> QED BY <3>1, <3>2
  <2>2. Masked(wiadr, UNION {req_bank[b] : b \in Bank})'
          \in {[n \in Arbiter!Port |->
                   IF n \in UNION {req_bank'[b] : b \in Arbiter!Bank} THEN f[n] ELSE 0] :
                 f \in [UNION {req_bank'[b] : b \in Arbiter!Bank} -> Arbiter!WayIndex]}
    <3> DEFINE new == UNION {req_bank'[b] : b \in Arbiter!Bank}
               f == [n \in new |-> wiadr'[n]]
    <3>1. new \subseteq Port
      BY SamePorts DEF RequestsTyped
    <3>2. f \in [new -> Arbiter!WayIndex]
      BY <3>1, SamePorts DEF LinesTyped
    <3>3. Masked(wiadr, UNION {req_bank[b] : b \in Bank})'
            = [n \in Arbiter!Port |-> IF n \in new THEN f[n] ELSE 0]
      BY SamePorts DEF Masked, LinesTyped
    <3> HIDE DEF f
    <3> QED BY <3>2, <3>3
  <2> QED BY <2>1, <2>2 DEF Arbiter!AddressLines
<1>7. Arbiter!AddressesHeld
  <2>1. ASSUME NEW n \in req_linelock \cap req_linelock'
        PROVE  Masked(lock_idx, req_linelock)'[n] = Masked(lock_idx, req_linelock)[n]
    <3>1. lock_idx'[n] = lock_idx[n]
      BY <2>1, LockAddressHeld
    <3>2. n \in DOMAIN lock_idx /\ n \in DOMAIN lock_idx'
      BY <2>1 DEF RequestsTyped, LinesTyped
    <3> QED BY <2>1, <3>1, <3>2 DEF Masked
  <2>2. ASSUME NEW n \in UNION {req_bank[b] \cap req_bank'[b] : b \in Bank}
        PROVE  Masked(wiadr, users)'[n] = Masked(wiadr, users)[n]
    <3>1. PICK b \in Bank : n \in req_bank[b] /\ n \in req_bank'[b]
      BY <2>2
    <3>2. wiadr'[n] = wiadr[n]
      BY <3>1, BankAddressHeld
    <3>3. n \in DOMAIN wiadr /\ n \in DOMAIN wiadr'
      BY <3>1 DEF RequestsTyped, LinesTyped
    <3>4. n \in users /\ n \in users'
      BY <3>1
    <3> QED BY <3>2, <3>3, <3>4 DEF Masked
  <2> QED BY <2>1, <2>2, SamePorts DEF Arbiter!AddressesHeld
<1> QED BY <1>4, <1>5, <1>6, <1>7 DEF Arbiter!Environment

LEMMA ArbiterStutter ==
  ASSUME UNCHANGED vars
  PROVE  UNCHANGED Arbiter!vars
<1>1. UNCHANGED <<tagram_ready, tag_out, bi_state, bi_op, nolinelock_reg, adr_reg,
                  idata_valid_reg, bi_tag_reg, bi_req_bank, rp_state, rp_rd, rp_adr, wp_state,
                  wp_tag_reg, link_valid_reg, wp_in>>
  BY DEF vars, tagRamVars, busIfVars, opVars, idataVars, bankVars, readPortVars,
         writePortVars, cpuVars
<1>2. UNCHANGED arbiterVars
  BY DEF vars
<1>3. UNCHANGED <<busif_hit, busif_busy, busif_adr_out, bi_tag_out, bi_req_linelock, bi_tag_rd,
                  bi_req_tagw, bi_bank_rd, bi_bank_wr>>
  BY <1>1 DEF busif_hit, BusIfHit, busif_busy, busif_adr_out, bi_tag_out, new_tag,
              bi_req_linelock, bi_tag_rd, bi_req_tagw, bi_bank_rd, bi_bank_wr
<1>4. ASSUME NEW p \in RP
      PROVE  /\ RpReqTagR(p, busif_hit)' <=> RpReqTagR(p, busif_hit)
             /\ RpReqBank(p, rp_tag_in(p))' <=> RpReqBank(p, rp_tag_in(p))
             /\ RpReqBusIf(p)' <=> RpReqBusIf(p)
             /\ rp_tag_in(p)' = rp_tag_in(p)
  BY <1>1, <1>3 DEF RpReqTagR, RpReqBank, RpReqBusIf, rp_tag_in, NewRead, RpDirect
<1>5. ASSUME NEW w \in WP
      PROVE  /\ WpReqTagR(w, busif_busy)' <=> WpReqTagR(w, busif_busy)
             /\ WpReqTagW(w)' <=> WpReqTagW(w)
             /\ WpReqBank(w)' <=> WpReqBank(w)
             /\ WpReqBusIf(w)' <=> WpReqBusIf(w)
             /\ WpTagOut(w, tag_out[w])' = WpTagOut(w, tag_out[w])
             /\ \A gb : WpReqLineLock(w, gb)' <=> WpReqLineLock(w, gb)
  <2>1. /\ NewCached(w)' <=> NewCached(w)
        /\ NewSpecial(w)' <=> NewSpecial(w)
        /\ NewDirect(w)' <=> NewDirect(w)
        /\ WpPartial(w)' <=> WpPartial(w)
        /\ WpReqTagW(w)' <=> WpReqTagW(w)
    BY <1>1 DEF NewCached, NewSpecial, NewDirect, FailedSC, Initial, WpWrites, WpDirect, WpPartial,
                WpReqTagW
  <2> HIDE DEF NewCached, NewSpecial, NewDirect, WpPartial, WpReqTagW
  <2> QED BY <1>1, <1>3, <2>1 DEF WpReqTagR, WpReqBank, WpReqBusIf, WpTagOut, WpReqLineLock,
                                  LastAccess
<1>6. req_tagr' = req_tagr /\ req_tagw' = req_tagw /\ req_busif' = req_busif
  BY <1>3, <1>4, <1>5 DEF req_tagr, req_tagw, req_busif
<1>7. req_bank' = req_bank
  BY <1>1, <1>3, <1>4, <1>5 DEF req_bank
<1>8. wiadr' = wiadr
  <2>1. ASSUME NEW n \in Port PROVE wiadr'[n] = wiadr[n]
    <3>1. n < RPORTS => n \in RP
      BY PortNumbers DEF RP, Port
    <3>2. ~(n < RPORTS) /\ n < IDX_BUSIF => n - RPORTS \in WP
      BY PortNumbers DEF WP, Port, IDX_BUSIF
    <3> QED BY <1>1, <1>3, <1>4, <1>5, <3>1, <3>2 DEF wiadr
  <2> QED BY <2>1 DEF wiadr
<1>9. gnt_bank' = gnt_bank
  BY <1>2, <1>7, <1>8 DEF gnt_bank, GetPrioCpu, arbiterVars
<1>10. req_linelock' = req_linelock
  <2>1. WpBanks(gnt_bank)' = WpBanks(gnt_bank)
    BY <1>1, <1>9 DEF WpBanks
  <2> QED BY <1>3, <1>5, <2>1 DEF req_linelock, LineLockRequests
<1>11. lock_idx' = lock_idx
  BY <1>1, <1>3 DEF lock_idx
<1> HIDE DEF req_linelock, req_tagr, req_tagw, req_bank, req_busif, lock_idx, wiadr
<1>12. /\ Masked(lock_idx, req_linelock)' = Masked(lock_idx, req_linelock)
       /\ Masked(wiadr, UNION {req_bank[b] : b \in Bank})'
           = Masked(wiadr, UNION {req_bank[b] : b \in Bank})
  BY <1>7, <1>8, <1>10, <1>11 DEF Masked
<1> QED BY <1>1, <1>2, <1>6, <1>7, <1>10, <1>12
        DEF Arbiter!vars, Arbiter!regs, Arbiter!lines, arbiterVars

\* MArbiter promises its clients what it promises only if they hold their addresses "as
\* long as 'req_*' lines are held" (memu.h).  The ports and the bus interface do: the memory
\* unit is an arbiter in an environment of that kind, as long as no CPU uses cache control.
THEOREM ArbiterTheorem ==
  ASSUME NoCacheControl
  PROVE  Spec => ArbiterSpec
<1> DEFINE IInv == AccessInv /\ MissesInv /\ RequestsTyped /\ LinesTyped
<1>1. Init => Arbiter!Init
  BY ArbiterInit, RequestsAreTyped
<1>2. AccessInv /\ DataInv => IInv
  BY RequestsAreTyped, ArbiterLineTypes DEF AccessInv, DataInv
<1>3. IInv /\ IInv' /\ [Next]_vars => [Arbiter!Next]_(Arbiter!vars)
  BY ArbiterEdges, ArbiterLines, ArbiterStutter DEF Arbiter!Next
<1>4. Spec => [](AccessInv /\ DataInv)
  BY NoCacheControl, DataInvariant
<1> HIDE DEF IInv
<1> QED BY <1>1, <1>2, <1>3, <1>4, PTL DEF Spec, ArbiterSpec, Arbiter!Spec

=============================================================================
