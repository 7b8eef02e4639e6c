---------------------------- MODULE TagRamProofs ----------------------------
(***************************************************************************)
(* Proof that the tag RAM replaces the least recently used way, with two   *)
(* or four ways and whatever addresses its port accesses.                  *)
(***************************************************************************)
EXTENDS TagRamLru, TLAPS

\* The 'use' word for the ways in an order.
UseOf(o) == IF CACHE_WAYS = 2 THEN o[1] ELSE o[1] + 4 * o[2] + 16 * o[3]

\* Every way is in the order, once.
Order == {o \in [1 .. CACHE_WAYS -> Way] : \A m, n \in 1 .. CACHE_WAYS : o[m] = o[n] => m = n}

\* What the read of the port has found and noted.
ReadNoted ==
  /\ ~tag_busy
  /\ tag_out[0].valid <=> HitWays(tag_ram[0], adr) # {}
  /\ tag_out[0].way = ReadWay(tag_ram[0], adr)
  /\ IF tag_out[0].valid /\ GetNewUse(tag_ram[0].use, tag_out[0].way) # tag_ram[0].use
     THEN use_reg[0] = [wr |-> TRUE, iadr |-> 0,
                        use |-> GetNewUse(tag_ram[0].use, tag_out[0].way)]
     ELSE ~use_reg[0].wr

\* Where nothing has been read that is not noted in the order, the 'use' word is that
\* of the order and no other one is about to replace it.
LruInv ==
  /\ order \in Order
  /\ phase \in {"none", "idle", "read"}
  /\ adr \in LruAdr \cup {DontCare}
  /\ DOMAIN tag_ram = {0} /\ DOMAIN tag_ram[0] = {"way", "use"}
  /\ DOMAIN use_reg = {0}
  /\ tag_ram[0].use = UseOf(order)
  /\ phase = "idle" => tag_out[0].way \in Way
  /\ IF phase = "read" THEN ReadNoted ELSE ~use_reg[0].wr

-----------------------------------------------------------------------------
\* There is one set and one port.
LEMMA OneSet ==
  /\ CPU = {0} /\ Index = {0} /\ CACHE_WAYS \in {2, 4} /\ Way = 0 .. CACHE_WAYS - 1
  /\ \A a \in LruAdr \cup {DontCare} : IndexOf(a) = 0
<1>1. /\ CPU = {0} /\ Index = {0} /\ CACHE_WAYS \in {2, 4} /\ Way = 0 .. CACHE_WAYS - 1
      /\ CACHE_SETS = 1
  BY LruAssumption DEF CPU, Index, Way
<1>2. ASSUME NEW a \in LruAdr PROVE IndexOf(a) = 0
  <2>1. a \in Nat /\ a # DontCare
    BY LruAssumption, DataAssumption DEF DontCare
  <2>2. 4 * CACHE_BANKS \in Nat \ {0}
    BY ConfigAssumption
  <2>3. \A d \in Nat \ {0} : a \div d \in Nat
    BY <2>1
  <2>4. \A q \in Nat : q % 1 = 0
    OBVIOUS
  <2> QED BY <1>1, <2>1, <2>2, <2>3, <2>4 DEF IndexOf, GetIndexOfAdr
<1>3. IndexOf(DontCare) = 0
  BY <1>1 DEF IndexOf
<1> QED BY <1>1, <1>2, <1>3

\* GetNewUse on the four fields: the one of the way goes, those above it move down.
LEMMA FourFields ==
  ASSUME CACHE_WAYS = 4, NEW a \in 0 .. 3, NEW b \in 0 .. 3, NEW c \in 0 .. 3, NEW d \in 0 .. 3,
         a # b, a # c, a # d, b # c, b # d, c # d
  PROVE  /\ GetNewUse(a + 4 * b + 16 * c, a) = b + 4 * c + 16 * d
         /\ GetNewUse(a + 4 * b + 16 * c, b) = a + 4 * c + 16 * d
         /\ GetNewUse(a + 4 * b + 16 * c, c) = a + 4 * b + 16 * d
         /\ GetNewUse(a + 4 * b + 16 * c, d) = a + 4 * b + 16 * c
<1> DEFINE use     == a + 4 * b + 16 * c
           missing == Xor2(Xor2(Field(use, 2), Field(use, 1)), Field(use, 0))
           full    == use + missing * 64
           found(way) == {n \in 0 .. 2 : Field(full, n) = way}
<1>1. Field(use, 0) = a /\ Field(use, 1) = b /\ Field(use, 2) = c
  BY DEF Field
<1>2. Xor2(Xor2(c, b), a) = d
  BY DEF Xor2
<1>3. missing = d
  BY <1>1, <1>2
<1>4. full = a + 4 * b + 16 * c + 64 * d
  BY <1>3
<1>5. \A way : GetNewUse(use, way) = (IF found(way) = {} THEN full
                 ELSE DropField(full, CHOOSE n \in found(way) : TRUE)) % 64
  BY DEF GetNewUse
<1> HIDE DEF missing, full
<1>6. Field(full, 0) = a /\ Field(full, 1) = b /\ Field(full, 2) = c
  BY <1>4 DEF Field
<1>7. found(a) = {0} /\ found(b) = {1} /\ found(c) = {2} /\ found(d) = {}
  BY <1>6
<1>8. /\ DropField(full, 0) = b + 4 * c + 16 * d
      /\ DropField(full, 1) = a + 4 * c + 16 * d
      /\ DropField(full, 2) = a + 4 * b + 16 * d
  BY <1>4 DEF DropField
<1>9. \A m \in 0 .. 2 : (CHOOSE n \in {m} : TRUE) = m
  OBVIOUS
<1> HIDE DEF use, found
<1>10. /\ GetNewUse(use, a) = (b + 4 * c + 16 * d) % 64
       /\ GetNewUse(use, b) = (a + 4 * c + 16 * d) % 64
       /\ GetNewUse(use, c) = (a + 4 * b + 16 * d) % 64
       /\ GetNewUse(use, d) = full % 64
  BY <1>5, <1>7, <1>8, <1>9
<1>11. /\ (b + 4 * c + 16 * d) % 64 = b + 4 * c + 16 * d
       /\ (a + 4 * c + 16 * d) % 64 = a + 4 * c + 16 * d
       /\ (a + 4 * b + 16 * d) % 64 = a + 4 * b + 16 * d
       /\ full % 64 = a + 4 * b + 16 * c
  BY <1>4
<1> QED BY <1>10, <1>11 DEF use

\* GetNewUse keeps the 'use' word in step with the order.
LEMMA UsedRight ==
  ASSUME order \in Order, NEW way \in Way
  PROVE  Used(way) \in Order /\ GetNewUse(UseOf(order), way) = UseOf(Used(way))
<1>1. CACHE_WAYS \in {2, 4} /\ Way = 0 .. CACHE_WAYS - 1
  BY OneSet
<1>2. CASE CACHE_WAYS = 2
  <2> DEFINE a == order[1]
             b == order[2]
  <2>1. a \in 0 .. 1 /\ b \in 0 .. 1 /\ a # b
    BY <1>1, <1>2 DEF Order
  <2>2. DOMAIN Used(way) = 1 .. 2 /\ Used(way)[2] = way
        /\ Used(way)[1] = IF way = a THEN b ELSE a
    BY <1>2 DEF Used
  <2>3. Used(way)[1] = 1 - way
    BY <1>1, <1>2, <2>1, <2>2
  <2>4. Used(way) \in Order
    BY <1>1, <1>2, <2>1, <2>2, <2>3 DEF Order, Used
  <2>5. GetNewUse(UseOf(order), way) = 1 - way
    BY <1>2 DEF GetNewUse
  <2> QED BY <1>2, <2>3, <2>4, <2>5 DEF UseOf
<1>3. CASE CACHE_WAYS = 4
  <2> DEFINE a == order[1]
             b == order[2]
             c == order[3]
             d == order[4]
  <2>1. /\ a \in 0 .. 3 /\ b \in 0 .. 3 /\ c \in 0 .. 3 /\ d \in 0 .. 3
        /\ a # b /\ a # c /\ a # d /\ b # c /\ b # d /\ c # d
    BY <1>1, <1>3 DEF Order
  <2>2. way \in {a, b, c, d}
    BY <1>1, <1>3, <2>1
  <2>3. /\ Used(way)[1] = IF way = a THEN b ELSE a
        /\ Used(way)[2] = IF way \in {a, b} THEN c ELSE b
        /\ Used(way)[3] = IF way \in {a, b, c} THEN d ELSE c
        /\ Used(way)[4] = way
    <3>1. /\ {order[m] : m \in 1 .. 1} = {a} /\ {order[m] : m \in 1 .. 2} = {a, b}
          /\ {order[m] : m \in 1 .. 3} = {a, b, c}
      OBVIOUS
    <3> QED BY <1>3, <3>1 DEF Used
  <2>4. Used(way) \in Order
    <3>1. \A n \in 1 .. 4 : n \in {1, 2, 3, 4}
      OBVIOUS
    <3> DEFINE u == Used(way)
    <3>2. DOMAIN u = 1 .. 4 /\ u = [n \in 1 .. 4 |-> u[n]]
      BY <1>3 DEF Used
    <3> HIDE DEF u
    <3>3. u[1] \in 0 .. 3 /\ u[2] \in 0 .. 3 /\ u[3] \in 0 .. 3 /\ u[4] \in 0 .. 3
      BY <2>1, <2>2, <2>3 DEF u
    <3>4. u[1] # u[2] /\ u[1] # u[3] /\ u[1] # u[4] /\ u[2] # u[3] /\ u[2] # u[4] /\ u[3] # u[4]
      BY <2>1, <2>2, <2>3 DEF u
    <3>5. \A n \in 1 .. 4 : u[n] \in 0 .. 3
      BY <3>1, <3>3
    <3>6. u \in [1 .. CACHE_WAYS -> Way]
      BY <1>1, <1>3, <3>2, <3>5
    <3>7. \A m, n \in 1 .. 4 : u[m] = u[n] => m = n
      BY <3>1, <3>4
    <3> QED BY <1>3, <3>6, <3>7 DEF Order, u
  <2>5. /\ GetNewUse(a + 4 * b + 16 * c, a) = b + 4 * c + 16 * d
        /\ GetNewUse(a + 4 * b + 16 * c, b) = a + 4 * c + 16 * d
        /\ GetNewUse(a + 4 * b + 16 * c, c) = a + 4 * b + 16 * d
        /\ GetNewUse(a + 4 * b + 16 * c, d) = a + 4 * b + 16 * c
    BY <1>3, <2>1, FourFields
  <2>6. UseOf(order) = a + 4 * b + 16 * c
    BY <1>3 DEF UseOf
  <2>7. UseOf(Used(way)) = Used(way)[1] + 4 * Used(way)[2] + 16 * Used(way)[3]
    BY <1>3 DEF UseOf
  <2> HIDE DEF a, b, c, d
  <2> QED BY <2>1, <2>2, <2>3, <2>4, <2>5, <2>6, <2>7
<1> QED BY <1>1, <1>2, <1>3

-----------------------------------------------------------------------------
(* One edge of the port.                                                   *)

\* The registers of the only port and the entry of the only set.
OneEntry ==
  DOMAIN tag_ram = {0} /\ DOMAIN tag_ram[0] = {"way", "use"} /\ DOMAIN use_reg = {0}

\* What the port has in its 'use' register after an edge without a write-back.
NextUse(rd, a) == IF rd THEN ReadUse(tag_ram[0], a, use_reg[0]) ELSE use_reg[0]

\* An edge without external write and without a pending 'use' word leaves the RAM alone.
LEMMA EdgeRead ==
  ASSUME OneEntry, ~tag_busy, ~use_reg[0].wr, NEW rd \in BOOLEAN,
         NEW a \in LruAdr \cup {DontCare}, NEW valid, Edge(rd, FALSE, a, valid)
  PROVE  /\ tag_ram' = tag_ram /\ DOMAIN use_reg' = {0} /\ ~tag_busy'
         /\ use_reg'[0] = NextUse(rd, a)
         /\ tag_out'[0] = IF rd THEN ReadTag(tag_ram[0], a) ELSE tag_out[0]
<1>1. CPU = {0} /\ IndexOf(a) = 0
  BY OneSet
<1>2. {n \in CPU : use_reg[n].wr} = {}
  BY <1>1
<1> QED BY <1>1, <1>2 DEF Edge, TagRamEdge, TagRamServe, NextUse

\* One with a pending 'use' word writes it.
LEMMA EdgeWriteBack ==
  ASSUME OneEntry, ~tag_busy, use_reg[0].wr, use_reg[0].iadr = 0, NEW rd \in BOOLEAN,
         NEW a \in LruAdr \cup {DontCare}, NEW valid, Edge(rd, FALSE, a, valid)
  PROVE  /\ OneEntry' /\ ~tag_busy'
         /\ tag_ram'[0].use = use_reg[0].use
         /\ use_reg'[0] = NoUse
         /\ tag_out'[0] = IF rd THEN ReadTag(tag_ram[0], a) ELSE tag_out[0]
<1>1. CPU = {0} /\ IndexOf(a) = 0
  BY OneSet
<1>2. {n \in CPU : use_reg[n].wr} = {0}
  BY <1>1
<1>3. (CHOOSE n \in {0} : \A m \in {0} : n <= m) = 0
  OBVIOUS
<1>4. /\ tag_ram' = [tag_ram EXCEPT ![0].use = use_reg[0].use]
      /\ \E f : DOMAIN f = CPU /\ use_reg' = [f EXCEPT ![0] = NoUse]
      /\ ~tag_busy'
      /\ tag_out'[0] = IF rd THEN ReadTag(tag_ram[0], a) ELSE tag_out[0]
  BY <1>1, <1>2, <1>3 DEF Edge, TagRamEdge, TagRamServe
<1> QED BY <1>1, <1>4 DEF OneEntry

\* An external write puts the tag's way last in the 'use' word.
LEMMA EdgeWrite ==
  ASSUME OneEntry, ~tag_busy, NEW a \in LruAdr \cup {DontCare}, NEW valid,
         Edge(FALSE, TRUE, a, valid)
  PROVE  /\ OneEntry'
         /\ tag_ram'[0].use = GetNewUse(tag_ram[0].use, tag_out[0].way)
         /\ use_reg'[0] = use_reg[0]
         /\ tag_out'[0] = tag_out[0]
<1>1. CPU = {0} /\ IndexOf(a) = 0
  BY OneSet
<1>2. (CHOOSE n \in {0} : \A m \in {0} : m <= n) = 0
  OBVIOUS
<1> DEFINE tag == [valid |-> valid, dirty |-> FALSE, tadr |-> GetTagOfAdr(a),
                   way |-> tag_out[0].way]
<1>3. /\ tag_ram' = [tag_ram EXCEPT ![0] = WriteEntry(@, tag)]
      /\ use_reg' = [n \in CPU |-> use_reg[n]]
      /\ tag_out' = [n \in CPU |-> tag_out[n]]
  BY <1>1, <1>2 DEF Edge, TagRamEdge, TagRamServe
<1>4. tag_ram'[0] = WriteEntry(tag_ram[0], tag) /\ DOMAIN tag_ram' = {0}
  BY <1>3 DEF OneEntry
<1>5. WriteEntry(tag_ram[0], tag).use = GetNewUse(tag_ram[0].use, tag_out[0].way)
      /\ DOMAIN WriteEntry(tag_ram[0], tag) = {"way", "use"}
  BY DEF WriteEntry
<1> QED BY <1>1, <1>3, <1>4, <1>5 DEF OneEntry

\* The way a read reports.
LEMMA ReadWayType ==
  ASSUME order \in Order, tag_ram[0].use = UseOf(order), NEW a
  PROVE  ReadWay(tag_ram[0], a) \in Way
<1>1. CACHE_WAYS \in {2, 4} /\ Way = 0 .. CACHE_WAYS - 1
  BY OneSet
<1>2. CASE HitWays(tag_ram[0], a) # {}
  BY <1>2 DEF ReadWay, HitWays
<1>3. CASE HitWays(tag_ram[0], a) = {}
  <2>1. \A n \in 1 .. CACHE_WAYS : order[n] \in 0 .. CACHE_WAYS - 1
    BY <1>1 DEF Order
  <2>2. UseOf(order) \in Nat
    <3>1. CASE CACHE_WAYS = 2
      BY <2>1, <3>1 DEF UseOf
    <3>2. CASE CACHE_WAYS = 4
      <4>1. order[1] \in Nat /\ order[2] \in Nat /\ order[3] \in Nat
        BY <2>1, <3>2
      <4> QED BY <3>2, <4>1 DEF UseOf
    <3> QED BY <1>1, <3>1, <3>2
  <2>3. \A u \in Nat : u % 2 \in 0 .. 1 /\ u % 4 \in 0 .. 3
    OBVIOUS
  <2> QED BY <1>1, <1>3, <2>2, <2>3 DEF ReadWay
<1> QED BY <1>2, <1>3

-----------------------------------------------------------------------------
(* The specification.                                                      *)

LEMMA LruInit == Init => LruInv
<1> SUFFICES ASSUME Init PROVE LruInv
  OBVIOUS
<1>1. CPU = {0} /\ Index = {0} /\ CACHE_WAYS \in {2, 4} /\ Way = 0 .. CACHE_WAYS - 1
  BY OneSet
<1>2. order \in Order
  BY <1>1 DEF Init, Order
<1>3. ResetUse = UseOf(order)
  BY <1>1 DEF Init, UseOf, ResetUse
<1>4. tag_ram[0].use = ResetUse /\ OneEntry /\ ~use_reg[0].wr
  BY <1>1 DEF Init, TagRamInit, OneEntry, NoUse
<1>5. phase = "none" /\ adr = DontCare
  BY DEF Init
<1> QED BY <1>2, <1>3, <1>4, <1>5 DEF LruInv, OneEntry

\* The read of the port finds the way and notes its use.
LEMMA LruRead == LruInv /\ Read => LruInv'
<1> SUFFICES ASSUME LruInv, Read PROVE LruInv'
  OBVIOUS
<1>1. PICK a \in LruAdr : Edge(TRUE, FALSE, a, FALSE) /\ adr' = a
  BY DEF Read
<1>2. phase # "read" /\ ~tag_busy /\ phase' = "read" /\ order' = order
  BY DEF Read
<1>3. OneEntry /\ ~use_reg[0].wr
  BY <1>2 DEF LruInv, OneEntry
<1>4. /\ tag_ram' = tag_ram /\ DOMAIN use_reg' = {0} /\ ~tag_busy'
      /\ use_reg'[0] = NextUse(TRUE, a)
      /\ tag_out'[0] = ReadTag(tag_ram[0], a)
  BY <1>1, <1>2, <1>3, EdgeRead
<1>5. /\ tag_out'[0].valid <=> HitWays(tag_ram[0], a) # {}
      /\ tag_out'[0].way = ReadWay(tag_ram[0], a)
  <2>1. /\ ReadTag(tag_ram[0], a).valid = (HitWays(tag_ram[0], a) # {})
        /\ ReadTag(tag_ram[0], a).way = ReadWay(tag_ram[0], a)
    BY DEF ReadTag
  <2> QED BY <1>4, <2>1
<1>6. IndexOf(a) = 0
  BY OneSet
<1>7. IF tag_out'[0].valid /\ GetNewUse(tag_ram[0].use, tag_out'[0].way) # tag_ram[0].use
      THEN use_reg'[0] = [wr |-> TRUE, iadr |-> 0,
                          use |-> GetNewUse(tag_ram[0].use, tag_out'[0].way)]
      ELSE ~use_reg'[0].wr
  BY <1>3, <1>4, <1>5, <1>6 DEF NextUse, ReadUse, NoUse
<1>8. ReadNoted'
  BY <1>1, <1>4, <1>5, <1>7 DEF ReadNoted
<1> QED BY <1>1, <1>2, <1>4, <1>8 DEF LruInv

\* At the next edge the noted 'use' word is written, and a second read reads the same.
LEMMA LruSettle == LruInv /\ Settle => LruInv'
<1> SUFFICES ASSUME LruInv, Settle PROVE LruInv'
  OBVIOUS
<1> DEFINE way == tag_out[0].way
           use == tag_ram[0].use
<1>1. PICK again \in BOOLEAN : Edge(again, FALSE, adr, FALSE)
  BY DEF Settle
<1>2. /\ phase = "read" /\ phase' = "idle" /\ adr' = adr
      /\ order' = IF tag_out[0].valid THEN Used(way) ELSE order
  BY DEF Settle
<1>3. ReadNoted /\ OneEntry /\ adr \in LruAdr \cup {DontCare}
      /\ order \in Order /\ use = UseOf(order)
  BY <1>2 DEF LruInv, OneEntry
<1>4. ~tag_busy /\ way = ReadWay(tag_ram[0], adr) /\ way \in Way
      /\ (tag_out[0].valid <=> HitWays(tag_ram[0], adr) # {})
  BY <1>3, ReadWayType DEF ReadNoted
<1>5. Used(way) \in Order /\ GetNewUse(use, way) = UseOf(Used(way))
  BY <1>3, <1>4, UsedRight
<1>6. ReadTag(tag_ram[0], adr).way = way
  BY <1>4 DEF ReadTag
<1>7. CASE tag_out[0].valid /\ GetNewUse(use, way) # use
  <2>1. use_reg[0] = [wr |-> TRUE, iadr |-> 0, use |-> GetNewUse(use, way)]
    BY <1>3, <1>7 DEF ReadNoted
  <2>2. use_reg[0].wr /\ use_reg[0].iadr = 0 /\ use_reg[0].use = GetNewUse(use, way)
    BY <2>1
  <2>3. /\ OneEntry' /\ tag_ram'[0].use = use_reg[0].use /\ use_reg'[0] = NoUse
        /\ tag_out'[0] = IF again THEN ReadTag(tag_ram[0], adr) ELSE tag_out[0]
    BY <1>1, <1>3, <1>4, <2>2, EdgeWriteBack
  <2>4. tag_out'[0].way = way /\ ~use_reg'[0].wr
    BY <1>6, <2>3 DEF NoUse
  <2> QED BY <1>2, <1>3, <1>4, <1>5, <1>7, <2>2, <2>3, <2>4 DEF LruInv, OneEntry
<1>8. CASE ~(tag_out[0].valid /\ GetNewUse(use, way) # use)
  <2>1. ~use_reg[0].wr
    BY <1>3, <1>8 DEF ReadNoted
  <2>2. /\ tag_ram' = tag_ram /\ DOMAIN use_reg' = {0}
        /\ use_reg'[0] = NextUse(again, adr)
        /\ tag_out'[0] = IF again THEN ReadTag(tag_ram[0], adr) ELSE tag_out[0]
    BY <1>1, <1>3, <1>4, <2>1, EdgeRead
  <2>3. ~use_reg'[0].wr
    BY <1>4, <1>8, <2>1, <2>2 DEF NextUse, ReadUse, NoUse
  <2>4. tag_out'[0].way = way
    BY <1>6, <2>2
  <2>5. order' \in Order /\ UseOf(order') = use
    BY <1>2, <1>3, <1>5, <1>8
  <2> QED BY <1>2, <1>3, <1>4, <2>2, <2>3, <2>4, <2>5 DEF LruInv, OneEntry
<1> QED BY <1>7, <1>8

\* A write makes the way the most recently used one.
LEMMA LruWrite == LruInv /\ Write => LruInv'
<1> SUFFICES ASSUME LruInv, Write PROVE LruInv'
  OBVIOUS
<1> DEFINE way == tag_out[0].way
           use == tag_ram[0].use
<1>1. PICK valid \in BOOLEAN : Edge(FALSE, TRUE, adr, valid)
  BY DEF Write
<1>2. phase = "idle" /\ ~tag_busy /\ phase' = phase /\ adr' = adr /\ order' = Used(way)
  BY DEF Write
<1>3. OneEntry /\ ~use_reg[0].wr /\ way \in Way /\ adr \in LruAdr \cup {DontCare}
      /\ order \in Order /\ use = UseOf(order)
  BY <1>2 DEF LruInv, OneEntry
<1>4. /\ OneEntry' /\ tag_ram'[0].use = GetNewUse(use, way)
      /\ use_reg'[0] = use_reg[0] /\ tag_out'[0] = tag_out[0]
  BY <1>1, <1>2, <1>3, EdgeWrite
<1>5. Used(way) \in Order /\ GetNewUse(use, way) = UseOf(Used(way))
  BY <1>3, UsedRight
<1> QED BY <1>2, <1>3, <1>4, <1>5 DEF LruInv, OneEntry

\* An edge without strobes finds nothing to write back.
LEMMA LruPause == LruInv /\ Pause => LruInv'
<1> SUFFICES ASSUME LruInv, Pause PROVE LruInv'
  OBVIOUS
<1>1. Edge(FALSE, FALSE, DontCare, FALSE) /\ phase # "read" /\ UNCHANGED <<order, adr, phase>>
  BY DEF Pause
<1>2. OneEntry /\ ~use_reg[0].wr
  BY <1>1 DEF LruInv, OneEntry
<1>3. /\ tag_ram' = tag_ram /\ DOMAIN use_reg' = {0}
      /\ use_reg'[0] = use_reg[0] /\ tag_out'[0] = tag_out[0]
  <2>1. CASE tag_busy
    BY <1>1, <1>2, <2>1 DEF Edge, TagRamEdge, TagRamPause, OneEntry
  <2>2. CASE ~tag_busy
    BY <1>1, <1>2, <2>2, EdgeRead DEF NextUse
  <2> QED BY <2>1, <2>2
<1> QED BY <1>1, <1>2, <1>3 DEF LruInv

\* The fields of the 'use' word are the ways of the order, but for the last.
LEMMA UseFields ==
  ASSUME order \in Order, NEW n \in 1 .. CACHE_WAYS - 1
  PROVE  Field(UseOf(order), n - 1) = order[n]
<1>1. CACHE_WAYS \in {2, 4} /\ Way = 0 .. CACHE_WAYS - 1
  BY OneSet
<1>2. CASE CACHE_WAYS = 2
  <2>1. n = 1 /\ order[1] \in 0 .. 1
    BY <1>1, <1>2 DEF Order
  <2>2. \A u \in 0 .. 1 : Field(u, 0) = u
    BY DEF Field
  <2> QED BY <1>2, <2>1, <2>2 DEF UseOf
<1>3. CASE CACHE_WAYS = 4
  <2> DEFINE a == order[1]
             b == order[2]
             c == order[3]
  <2>1. a \in 0 .. 3 /\ b \in 0 .. 3 /\ c \in 0 .. 3
    BY <1>1, <1>3 DEF Order
  <2>2. n \in 1 .. 3 /\ UseOf(order) = a + 4 * b + 16 * c
    BY <1>3 DEF UseOf
  <2>3. \A x, y, z \in 0 .. 3 : /\ Field(x + 4 * y + 16 * z, 0) = x
                                /\ Field(x + 4 * y + 16 * z, 1) = y
                                /\ Field(x + 4 * y + 16 * z, 2) = z
    BY DEF Field
  <2> QED BY <2>1, <2>2, <2>3
<1> QED BY <1>1, <1>2, <1>3

\* LeastRecentlyUsed: GetNewUse and the delayed write-back of 'use' words keep the ways
\* in the order of their last use, for two or four ways and all addresses.
THEOREM LruTheorem == Spec => []LeastRecentlyUsed
<1>1. LruInv /\ [Next]_vars => LruInv'
  <2>1. LruInv /\ UNCHANGED vars => LruInv'
    BY DEF vars, tagRamVars, LruInv, ReadNoted
  <2> QED BY <2>1, LruRead, LruSettle, LruWrite, LruPause DEF Next
<1>2. LruInv => LeastRecentlyUsed
  BY UseFields DEF LruInv, LeastRecentlyUsed
<1> QED BY <1>1, <1>2, LruInit, PTL DEF Spec

=============================================================================
