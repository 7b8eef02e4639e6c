------------------------- MODULE ArbiterLogicProofs --------------------------
(***************************************************************************)
(* What the methods of the arbiter grant, for every number of CPUs, cache  *)
(* indices and RAM ports: lemmas about the operators of ArbiterLogic, used *)
(* by the proofs about the arbiter and about the memory unit around it.    *)
(***************************************************************************)
EXTENDS ArbiterLogic, WellFoundedInduction, TLAPS

\* A non-empty set of natural numbers has a least element.
LEMMA LeastNatural ==
  ASSUME NEW T, T \subseteq Nat, T # {}
  PROVE  \E x \in T : \A y \in T : x <= y
<1>1. IsWellFoundedOn(OpToRel(<, Nat), Nat)
  BY NatLessThanWellFounded
<1>2. PICK x \in T : \A y \in T : ~(<<y, x>> \in OpToRel(<, Nat))
  BY <1>1, WFMin
<1>3. \A y \in T : ~(y < x)
  BY <1>2 DEF OpToRel
<1> QED BY <1>3

\* The loop over the CPUs that starts at the one with priority finds a
\* requester if there is one.
LEMMA FirstInTurnMember ==
  ASSUME NEW prio \in CPU, NEW S, S \subseteq CPU, S # {}
  PROVE  FirstInTurn(S, prio) \in S
<1> DEFINE T == {Turn(i, prio) : i \in S}
<1>1. \A i \in S : Turn(i, prio) \in Nat
  BY ConfigAssumption DEF CPU, Turn
<1>2. T \subseteq Nat /\ T # {}
  BY <1>1
<1>3. PICK x \in T : \A y \in T : x <= y
  BY <1>2, LeastNatural
<1>4. PICK i \in S : x = Turn(i, prio)
  BY <1>3
<1>5. \A j \in S : Turn(i, prio) <= Turn(j, prio)
  BY <1>3, <1>4
<1> QED BY <1>5 DEF FirstInTurn

\* A bounded set of numbers has a largest one, which a loop that leaves the
\* highest index finds.
LEMMA LargestNatural ==
  ASSUME NEW top \in Nat, NEW T, T \subseteq 0 .. top, T # {}
  PROVE  \E x \in T : \A y \in T : y <= x
<1> DEFINE U == {top - n : n \in T}
<1>1. \A n \in T : n \in Nat /\ n <= top
  OBVIOUS
<1>2. \A n \in T : top - n \in Nat
  BY <1>1
<1>3. U \subseteq Nat /\ U # {}
  BY <1>2
<1>4. PICK u \in U : \A y \in U : u <= y
  BY <1>3, LeastNatural
<1>5. PICK x \in T : u = top - x
  BY <1>4
<1>6. \A y \in T : top - x <= top - y
  BY <1>4, <1>5
<1>7. \A y \in T : y <= x
  BY <1>1, <1>6
<1> QED BY <1>7

LEMMA LargestPort ==
  ASSUME NEW T, T \subseteq Port, T # {}
  PROVE  \E x \in T : \A y \in T : y <= x
<1> DEFINE top == RPORTS + WPORTS
<1>1. top \in Nat
  BY ConfigAssumption DEF RPORTS, WPORTS
<1>2. Port = 0 .. top
  BY DEF Port
<1> HIDE DEF top
<1> QED BY <1>1, <1>2, LargestNatural

-----------------------------------------------------------------------------
(* Line lock.                                                              *)

\* What LineLockMethod grants, it grants on request, and it takes no lock
\* away from a write port that still asks for it.
LEMMA LineLockShape ==
  ASSUME NEW reg, NEW req, req \subseteq Locker, NEW ix, NEW prio \in CPU
  PROVE  /\ LineLock(reg, req, ix, prio) \subseteq req
         /\ reg \cap req \subseteq LineLock(reg, req, ix, prio)
         /\ LOCK_BUSIF \in LineLock(reg, req, ix, prio)
              <=> BusIfGetsLock(reg, req, ix)
         /\ KeptLocks(reg, req) = {} =>
              \A n \in LineLock(reg, req, ix, prio) \ {LOCK_BUSIF} :
                /\ n \in NewLockCandidates(reg, req, ix)
                /\ n = FirstInTurn(NewLockCandidates(reg, req, ix), prio)
         /\ KeptLocks(reg, req) # {} =>
              LineLock(reg, req, ix, prio) \ {LOCK_BUSIF} = KeptLocks(reg, req)
         /\ KeptLocks(reg, req) = {} /\ NewLockCandidates(reg, req, ix) # {} =>
              LineLock(reg, req, ix, prio) \ {LOCK_BUSIF} # {}
<1> DEFINE kept == KeptLocks(reg, req)
           cand == NewLockCandidates(reg, req, ix)
<1>0. cand \subseteq req \ {LOCK_BUSIF}
  BY DEF NewLockCandidates
<1>a. req \ {LOCK_BUSIF} \subseteq CPU
  BY ConfigAssumption DEF Locker, CPU, LOCK_BUSIF, WPORTS
<1>1. cand \subseteq CPU /\ cand \subseteq req /\ LOCK_BUSIF \notin cand
  BY <1>0, <1>a
<1>2. cand # {} => FirstInTurn(cand, prio) \in cand
  BY <1>1, FirstInTurnMember
<1>3. kept \subseteq req /\ LOCK_BUSIF \notin kept
  BY DEF KeptLocks
<1> QED BY <1>1, <1>2, <1>3 DEF LineLock, KeptLocks, BusIfGetsLock

\* One step of the line lock arbitration keeps the locks exclusive.
LEMMA LineLockExclusion ==
  ASSUME NEW reg, NEW req, req \subseteq Locker, NEW ix, NEW prio \in CPU,
         \A m, n \in KeptLocks(reg, req) : m = n,
         LOCK_BUSIF \in reg \cap req =>
           \A n \in KeptLocks(reg, req) : ix[n] # ix[LOCK_BUSIF]
  PROVE  LET gnt == LineLock(reg, req, ix, prio)
         IN  /\ \A m, n \in gnt \ {LOCK_BUSIF} : m = n
             /\ LOCK_BUSIF \in gnt =>
                  \A n \in gnt \ {LOCK_BUSIF} : ix[n] # ix[LOCK_BUSIF]
<1> DEFINE gnt == LineLock(reg, req, ix, prio)
<1>1. CASE KeptLocks(reg, req) # {}
  BY <1>1, LineLockShape DEF BusIfGetsLock
<1>2. CASE KeptLocks(reg, req) = {}
  <2>1. \A n \in gnt \ {LOCK_BUSIF} :
          /\ n \in NewLockCandidates(reg, req, ix)
          /\ n = FirstInTurn(NewLockCandidates(reg, req, ix), prio)
    BY <1>2, LineLockShape
  <2>2. \A n \in NewLockCandidates(reg, req, ix) :
          BusIfGetsLock(reg, req, ix) => ix[n] # ix[LOCK_BUSIF]
    BY DEF NewLockCandidates
  <2>3. LOCK_BUSIF \in gnt => BusIfGetsLock(reg, req, ix)
    BY LineLockShape
  <2> QED BY <2>1, <2>2, <2>3
<1> QED BY <1>1, <1>2

\* Recomputing the line locks from themselves changes nothing.
LEMMA LineLockSettled ==
  ASSUME NEW reg, NEW req, req \subseteq Locker, NEW ix,
         NEW p \in CPU, NEW q \in CPU
  PROVE  LineLock(LineLock(reg, req, ix, p), req, ix, q)
           = LineLock(reg, req, ix, p)
<1> DEFINE gnt == LineLock(reg, req, ix, p)
<1>1. gnt \subseteq req /\ reg \cap req \subseteq gnt
  BY LineLockShape
<1>2. KeptLocks(gnt, req) = gnt \ {LOCK_BUSIF}
  BY <1>1 DEF KeptLocks
<1>3. BusIfGetsLock(gnt, req, ix) <=> BusIfGetsLock(reg, req, ix)
  BY <1>1, <1>2, LineLockShape DEF BusIfGetsLock, KeptLocks
<1>4. gnt \ {LOCK_BUSIF} = {} => NewLockCandidates(gnt, req, ix) = {}
  <2> SUFFICES ASSUME gnt \ {LOCK_BUSIF} = {}
               PROVE  NewLockCandidates(gnt, req, ix) = {}
    OBVIOUS
  <2>1. KeptLocks(reg, req) = {}
    BY <1>1 DEF KeptLocks
  <2>2. NewLockCandidates(reg, req, ix) = {}
    BY <2>1, LineLockShape
  <2>3. NewLockCandidates(gnt, req, ix) = NewLockCandidates(reg, req, ix)
    BY <1>3 DEF NewLockCandidates, BusIfGetsLock
  <2> QED BY <2>2, <2>3
<1>5. LOCK_BUSIF \in gnt <=> BusIfGetsLock(reg, req, ix)
  BY LineLockShape
<1> HIDE DEF gnt
<1>6. LineLock(gnt, req, ix, q)
        = (IF LOCK_BUSIF \in gnt THEN {LOCK_BUSIF} ELSE {})
            \cup (gnt \ {LOCK_BUSIF})
  BY <1>2, <1>3, <1>4, <1>5 DEF LineLock
<1> QED BY <1>6 DEF gnt

-----------------------------------------------------------------------------
(* Tag RAM.                                                                *)

\* The choice on a tag RAM port is a requester of that port.
LEMMA TagPortChoiceMember ==
  ASSUME NEW n \in CPU, NEW req, req \cap TagPort(n) # {}
  PROVE  TagPortChoice(n, req) \in req \cap TagPort(n)
BY DEF TagPortChoice, TagPort

\* Tag RAM ports share no requester.
LEMMA TagPortsDisjoint ==
  ASSUME NEW c \in CPU, NEW d \in CPU, TagPort(c) \cap TagPort(d) # {}
  PROVE  c = d
BY ConfigAssumption
   DEF TagPort, CPU, IDX_RP, IDX_IP, IDX_WP, IDX_BUSIF, RPORTS, WPORTS

\* Readers are granted on request, keep what they have and, when no writer
\* waits, leave no requested port idle.
LEMMA TagReadersShape ==
  ASSUME NEW reg, NEW req, NEW reqw
  PROVE  LET gnt == TagReaders(TRUE, reg, req, reqw)
         IN  /\ gnt \subseteq req
             /\ reg \cap req \subseteq gnt
             /\ reqw # {} => gnt = reg \cap req
             /\ reqw = {} => \A n \in CPU : req \cap TagPort(n) # {} =>
                                            gnt \cap TagPort(n) # {}
<1> DEFINE new == {TagPortChoice(n, req) : n \in FreeTagPorts(reg, req)}
           gnt == TagReaders(TRUE, reg, req, reqw)
<1>1. \A n \in FreeTagPorts(reg, req) :
        TagPortChoice(n, req) \in req \cap TagPort(n)
  BY TagPortChoiceMember DEF FreeTagPorts
<1>2. gnt = (reg \cap req) \cup (IF reqw = {} THEN new ELSE {})
  BY DEF TagReaders
<1>3. new \subseteq req
  BY <1>1
<1>4. \A n \in CPU : req \cap TagPort(n) # {} =>
        \/ reg \cap req \cap TagPort(n) # {}
        \/ n \in FreeTagPorts(reg, req)
  BY DEF FreeTagPorts
<1>5. ASSUME reqw = {}, NEW n \in CPU, req \cap TagPort(n) # {}
      PROVE  gnt \cap TagPort(n) # {}
  BY <1>1, <1>2, <1>4, <1>5
<1> QED BY <1>2, <1>3, <1>5

\* One step of the tag arbitration keeps one reader per port.
LEMMA TagReadersExclusion ==
  ASSUME NEW reg, NEW req, NEW reqw, NEW c \in CPU,
         \A m, n \in reg \cap TagPort(c) : m = n
  PROVE  \A m, n \in TagReaders(TRUE, reg, req, reqw) \cap TagPort(c) : m = n
<1> DEFINE gnt == TagReaders(TRUE, reg, req, reqw)
<1> SUFFICES ASSUME NEW m \in gnt \cap TagPort(c), NEW n \in gnt \cap TagPort(c)
             PROVE  m = n
  OBVIOUS
<1>1. \A x \in gnt \cap TagPort(c) :
        x \in reg \cap req
          \/ (c \in FreeTagPorts(reg, req) /\ x = TagPortChoice(c, req))
  <2> SUFFICES ASSUME NEW x \in gnt \cap TagPort(c), x \notin reg
               PROVE  c \in FreeTagPorts(reg, req) /\ x = TagPortChoice(c, req)
    BY TagReadersShape
  <2>1. PICK d \in FreeTagPorts(reg, req) : x = TagPortChoice(d, req)
    <3>1. \A y \in gnt : y \in reg \/
            \E d \in FreeTagPorts(reg, req) : y = TagPortChoice(d, req)
      BY DEF TagReaders
    <3> QED BY <3>1
  <2>2. d \in CPU /\ req \cap TagPort(d) # {}
    BY DEF FreeTagPorts
  <2>3. x \in TagPort(d)
    BY <2>1, <2>2, TagPortChoiceMember
  <2>4. c = d
    BY <2>2, <2>3, TagPortsDisjoint
  <2> QED BY <2>1, <2>4
<1>2. c \in FreeTagPorts(reg, req) => reg \cap req \cap TagPort(c) = {}
  BY DEF FreeTagPorts
<1> QED BY <1>1, <1>2

\* Recomputing the tag readers from themselves changes nothing.
LEMMA TagReadersSettled ==
  ASSUME NEW ready \in BOOLEAN, NEW reg, NEW req, NEW reqw
  PROVE  LET gnt == TagReaders(ready, reg, req, reqw)
         IN  TagReaders(ready, gnt, req, reqw) = gnt
<1>1. CASE ~ready
  BY <1>1 DEF TagReaders
<1>2. CASE ready
  <2> DEFINE gnt == TagReaders(TRUE, reg, req, reqw)
  <2>1. gnt \cap req = gnt
    BY TagReadersShape
  <2>a. reqw = {} => \A n \in CPU : req \cap TagPort(n) # {} =>
                                    gnt \cap TagPort(n) # {}
    BY TagReadersShape
  <2> HIDE DEF gnt
  <2>2. reqw = {} => FreeTagPorts(gnt, req) = {}
    BY <2>1, <2>a DEF FreeTagPorts
  <2>3. TagReaders(TRUE, gnt, req, reqw) = gnt
    BY <2>1, <2>2 DEF TagReaders
  <2> QED BY <1>2, <2>3 DEF gnt
<1> QED BY <1>1, <1>2

\* What the tag write arbitration grants.
LEMMA TagWritersShape ==
  ASSUME NEW readers, NEW reg, NEW req, req \subseteq Locker, NEW prio \in CPU
  PROVE  LET gnt == TagWriters(TRUE, readers, reg, req, prio)
         IN  /\ gnt \subseteq req
             /\ reg \cap req \subseteq gnt
             /\ reg \cap req # {} \/ readers # {} => gnt = reg \cap req
             /\ reg \cap req = {} => \A m, n \in gnt : m = n
<1>1. LOCK_BUSIF \notin req => req \subseteq CPU
  BY ConfigAssumption DEF Locker, CPU, LOCK_BUSIF, WPORTS
<1>2. LOCK_BUSIF \notin req /\ req # {} => FirstInTurn(req, prio) \in req
  BY <1>1, FirstInTurnMember
<1> QED BY <1>2 DEF TagWriters

\* Recomputing the tag writers from themselves changes nothing.
LEMMA TagWritersSettled ==
  ASSUME NEW ready \in BOOLEAN, NEW readers, NEW reg,
         NEW req, req \subseteq Locker, NEW p \in CPU, NEW q \in CPU
  PROVE  LET gnt == TagWriters(ready, readers, reg, req, p)
         IN  TagWriters(ready, readers, gnt, req, q) = gnt
<1>1. CASE ~ready
  BY <1>1 DEF TagWriters
<1>2. CASE ready
  <2> DEFINE gnt == TagWriters(TRUE, readers, reg, req, p)
  <2>a. gnt \subseteq req
    BY TagWritersShape
  <2>b. readers = {} /\ req # {} => gnt # {}
    BY DEF TagWriters
  <2> HIDE DEF gnt
  <2>1. gnt \cap req = gnt
    BY <2>a
  <2>2. TagWriters(TRUE, readers, gnt, req, q) = gnt
    BY <2>1, <2>b DEF TagWriters
  <2> QED BY <1>2, <2>2 DEF gnt
<1> QED BY <1>1, <1>2

-----------------------------------------------------------------------------
(* Bus interface.                                                          *)

\* BusIfMethod grants on request, keeps a grant, and gives out only one.
LEMMA BusIfGrantShape ==
  ASSUME NEW reg, NEW req, NEW prio \in CPU
  PROVE  LET gnt == BusIfGrant(reg, req, prio)
         IN  /\ gnt \subseteq req
             /\ reg \cap req # {} => gnt = reg \cap req
             /\ reg \cap req = {} => \A m, n \in gnt : m = n
             /\ BusIfClaimants(req) # {} => gnt # {}
<1>1. BusIfClaimants(req) \subseteq CPU
  BY DEF BusIfClaimants
<1>2. BusIfClaimants(req) # {} =>
        FirstInTurn(BusIfClaimants(req), prio) \in BusIfClaimants(req)
  BY <1>1, FirstInTurnMember
<1>3. \A i \in BusIfClaimants(req) : BusIfChoice(i, req) \in req
  BY DEF BusIfClaimants, BusIfChoice
<1> QED BY <1>2, <1>3 DEF BusIfGrant

\* Recomputing the bus interface grant from itself changes nothing.
LEMMA BusIfGrantSettled ==
  ASSUME NEW reg, NEW req, NEW p \in CPU, NEW q \in CPU
  PROVE  BusIfGrant(BusIfGrant(reg, req, p), req, q) = BusIfGrant(reg, req, p)
<1> DEFINE gnt == BusIfGrant(reg, req, p)
<1>1. gnt \cap req = gnt /\ (BusIfClaimants(req) # {} => gnt # {})
  BY BusIfGrantShape
<1> HIDE DEF gnt
<1>2. BusIfGrant(gnt, req, q) = gnt
  BY <1>1 DEF BusIfGrant
<1> QED BY <1>2 DEF gnt

-----------------------------------------------------------------------------
(* Bank RAMs.                                                              *)

\* A RAM port with a kept grant selects one of them.
LEMMA SelectedPortKept ==
  ASSUME NEW reg, NEW req, req \subseteq Port, NEW prio, NEW n \in reg \cap req
  PROVE  SelectedPort(RAMPORT(n), reg, req, prio)
           \in {m \in reg \cap req : RAMPORT(m) = RAMPORT(n)}
<1> DEFINE kept == {m \in reg \cap req : RAMPORT(m) = RAMPORT(n)}
<1>1. kept \subseteq Port /\ kept # {}
  OBVIOUS
<1>2. \E x \in kept : \A y \in kept : y <= x
  BY <1>1, LargestPort
<1>3. (CHOOSE x \in kept : \A y \in kept : y <= x) \in kept
  BY <1>2
<1> QED BY <1>1, <1>3 DEF SelectedPort

\* If the kept grants of each RAM port agree on the address, every grant finds
\* its address on its RAM port.
LEMMA BankGrantRouted ==
  ASSUME NEW reg, NEW req, req \subseteq Port, NEW wi, NEW prio,
         \A m, n \in reg \cap req : RAMPORT(m) = RAMPORT(n) => wi[m] = wi[n],
         NEW n \in BankGrant(reg, req, wi, prio)
  PROVE  wi[n] = BankAddress(RAMPORT(n), reg, req, wi, prio)
<1> DEFINE s == SelectedPort(RAMPORT(n), reg, req, prio)
<1>1. n \in PreGranted(reg, req, wi, prio)
  BY DEF BankGrant
<1>2. n \in req /\ (n \in reg \/ (s # None /\ wi[n] = wi[s]))
  BY <1>1 DEF PreGranted
<1>3. CASE n \in reg
  <2>1. s \in reg \cap req /\ RAMPORT(s) = RAMPORT(n)
    BY <1>2, <1>3, SelectedPortKept
  <2>2. s # None
    BY <2>1, ConfigAssumption DEF Port, None
  <2>3. wi[n] = wi[s]
    BY <1>2, <1>3, <2>1
  <2> QED BY <2>2, <2>3 DEF BankAddress
<1>4. CASE n \notin reg
  BY <1>2, <1>4 DEF BankAddress
<1> QED BY <1>3, <1>4

\* The RAM port of a write port is that of its CPU, and with a RAM port for
\* every CPU the write ports have different ones.
LEMMA RamPortType ==
  ASSUME NEW n \in Port
  PROVE  RAMPORT(n) \in RamPort
<1>1. n = IDX_BUSIF => RAMPORT(n) = BR_PORTS - 1
  BY DEF RAMPORT, RAMPORT_BUSIF
<1>2. n # IDX_BUSIF => RAMPORT(n) = CPU_OF_IDX(n) % BR_PORTS
  BY DEF RAMPORT
<1>3. CPU_OF_IDX(n) \in Int
  BY ConfigAssumption DEF CPU_OF_IDX, Port, RPORTS, WPORTS
<1>4. BR_PORTS \in Nat \ {0}
  BY ConfigAssumption
<1>5. \A k \in Int : k % BR_PORTS \in 0 .. BR_PORTS - 1
  BY <1>4
<1> QED BY <1>1, <1>2, <1>3, <1>4, <1>5 DEF RamPort

\* The port a RAM port serves is one that asks for the bank.
LEMMA SelectedPortMember ==
  ASSUME NEW reg, NEW req, req \subseteq Port, NEW prio \in CPU, NEW p
  PROVE  SelectedPort(p, reg, req, prio) \in req \cup {None}
<1> DEFINE kept == {n \in reg \cap req : RAMPORT(n) = p}
           cpus == {i \in BusIfClaimants(req) : RAMPORT(i) = p}
           s    == SelectedPort(p, reg, req, prio)
<1>1. CASE kept # {}
  <2>1. s = CHOOSE n \in kept : \A m \in kept : m <= n
    BY <1>1 DEF SelectedPort
  <2>2. kept \subseteq Port
    OBVIOUS
  <2>3. s \in kept
    <3> HIDE DEF kept, s
    <3> QED BY <1>1, <2>1, <2>2, LargestPort
  <2> QED BY <2>3
<1>2. CASE kept = {} /\ p = RAMPORT_BUSIF /\ IDX_BUSIF \in req
  BY <1>2 DEF SelectedPort
<1>3. CASE kept = {} /\ ~(p = RAMPORT_BUSIF /\ IDX_BUSIF \in req) /\ cpus # {}
  <2>1. s = BusIfChoice(FirstInTurn(cpus, prio), req)
    BY <1>3 DEF SelectedPort
  <2>2. cpus \subseteq CPU
    BY DEF BusIfClaimants
  <2>3. FirstInTurn(cpus, prio) \in cpus
    <3> HIDE DEF cpus, s
    <3> QED BY <1>3, <2>2, FirstInTurnMember
  <2>4. \A i \in BusIfClaimants(req) : BusIfChoice(i, req) \in req
    BY DEF BusIfClaimants, BusIfChoice
  <2> QED BY <2>1, <2>3, <2>4
<1>4. CASE kept = {} /\ ~(p = RAMPORT_BUSIF /\ IDX_BUSIF \in req) /\ cpus = {}
  BY <1>4 DEF SelectedPort
<1> QED BY <1>1, <1>2, <1>3, <1>4

\* A grant comes with an address: that of a port which asks for the bank.
LEMMA BankAddressGranted ==
  ASSUME NEW reg, NEW req, req \subseteq Port, NEW wi, NEW prio \in CPU,
         NEW n \in BankGrant(reg, req, wi, prio)
  PROVE  \E s \in req : BankAddress(RAMPORT(n), reg, req, wi, prio) = wi[s]
<1> DEFINE s == SelectedPort(RAMPORT(n), reg, req, prio)
<1>1. n \in PreGranted(reg, req, wi, prio)
  BY DEF BankGrant
<1>2. None \notin req
  BY ConfigAssumption DEF None, Port
<1>3. CASE n \in reg
  <2>1. n \in reg \cap req
    BY <1>1, <1>3 DEF PreGranted
  <2>2. s \in req
    BY <2>1, SelectedPortKept
  <2> QED BY <1>2, <2>2 DEF BankAddress
<1>4. CASE n \notin reg
  <2>1. s # None
    BY <1>1, <1>4 DEF PreGranted
  <2>2. s \in req
    BY <2>1, SelectedPortMember
  <2> QED BY <2>1, <2>2 DEF BankAddress
<1> QED BY <1>3, <1>4

LEMMA RamPortOfWriter ==
  ASSUME NEW i \in CPU
  PROVE  RAMPORT(IDX_WP(i)) = RAMPORT(i)
BY ConfigAssumption
   DEF CPU, RAMPORT, CPU_OF_IDX, IDX_WP, IDX_BUSIF, RPORTS, WPORTS

LEMMA RamPortsDistinct ==
  ASSUME CPU_CORES <= BR_PORTS, NEW i \in CPU, NEW j \in CPU,
         RAMPORT(i) = RAMPORT(j)
  PROVE  i = j
<1>1. \A k \in CPU : k \in Nat /\ k < BR_PORTS
  BY ConfigAssumption DEF CPU
<1>2. \A k \in CPU : RAMPORT(k) = k % BR_PORTS
  BY ConfigAssumption DEF CPU, RAMPORT, CPU_OF_IDX, IDX_BUSIF, RPORTS, WPORTS
<1>3. \A k \in CPU : k % BR_PORTS = k
  BY <1>1, ConfigAssumption
<1> QED BY <1>2, <1>3

\* A port that writes and keeps its grant is the writer its RAM port selects,
\* if no other writer keeps a grant for that RAM port.
LEMMA KeptWriterSelected ==
  ASSUME CPU_CORES <= BR_PORTS,
         NEW reg, NEW req, req \subseteq Port, NEW wi, NEW prio,
         NEW n \in reg \cap req, n >= RPORTS,
         \A m \in reg \cap req :
           m >= RPORTS /\ RAMPORT(m) = RAMPORT(n) => m = n
  PROVE  n = SelectedWriter(RAMPORT(n), reg, req, wi, prio)
<1> DEFINE p    == RAMPORT(n)
           s    == SelectedPort(p, reg, req, prio)
           pre  == PreGranted(reg, req, wi, prio)
           wps  == {i \in CPU : RAMPORT(i) = p /\ IDX_WP(i) \in pre}
           kept == {m \in reg \cap req : RAMPORT(m) = p}
<1>1. s \in kept
  BY SelectedPortKept
<1>2. n \in pre
  BY DEF PreGranted
<1>3. RPORTS \in Nat /\ WPORTS \in Nat /\ IDX_BUSIF = RPORTS + WPORTS
  BY ConfigAssumption DEF RPORTS, WPORTS, IDX_BUSIF
<1>4. CASE n = IDX_BUSIF
  <2>1. s = CHOOSE m \in kept : \A k \in kept : k <= m
    BY <1>1 DEF SelectedPort
  <2>2. kept \subseteq Port /\ kept # {}
    OBVIOUS
  <2>3. \E m \in kept : \A k \in kept : k <= m
    BY <2>2, LargestPort
  <2> HIDE DEF kept, s
  <2>4. \A k \in kept : k <= s
    BY <2>1, <2>3
  <2>5. n \in kept
    BY DEF kept
  <2>6. s \in Port /\ n <= s
    BY <1>1, <2>2, <2>4, <2>5
  <2>7. s = IDX_BUSIF
    BY <1>3, <1>4, <2>6 DEF Port
  <2> QED BY <1>4, <2>7 DEF SelectedWriter, s
<1>5. CASE n # IDX_BUSIF
  <2>1. s # IDX_BUSIF
    BY <1>1, <1>3, <1>5
  <2>2. PICK i \in CPU : n = IDX_WP(i)
    <3>1. n \in Port
      OBVIOUS
    <3>2. n - RPORTS \in 0 .. WPORTS - 1 /\ n = RPORTS + (n - RPORTS)
      BY <1>3, <1>5, <3>1 DEF Port
    <3> QED BY <3>2 DEF CPU, IDX_WP, WPORTS
  <2>3. wps = {i}
    <3>1. i \in wps
      BY <1>2, <2>2, RamPortOfWriter
    <3>2. \A j \in wps : j = i
      BY <2>2, RamPortOfWriter, RamPortsDistinct
    <3> QED BY <3>1, <3>2
  <2>4. LastInTurn(wps, prio) = i
    BY <2>3 DEF LastInTurn
  <2> QED BY <2>1, <2>2, <2>3, <2>4 DEF SelectedWriter
<1> QED BY <1>4, <1>5

=============================================================================
