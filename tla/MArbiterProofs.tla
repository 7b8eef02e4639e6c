--------------------------- MODULE MArbiterProofs ---------------------------
(***************************************************************************)
(* Proofs about the arbiter, for every number of CPUs, cache indices and   *)
(* RAM ports.                                                              *)
(***************************************************************************)
EXTENDS MArbiter, ArbiterLogicProofs, TLAPS

-----------------------------------------------------------------------------
(* The specification.                                                      *)

\* The inductive invariant: what the registers, that is the grants of the
\* last cycle, guarantee for the requests that are kept in this one.
LockRegsOK ==
  /\ \A m, n \in linelock_reg \ {LOCK_BUSIF} : m = n
  /\ LOCK_BUSIF \in linelock_reg \cap req_linelock =>
       \A n \in KeptLocks(linelock_reg, req_linelock) :
         idx[n] # idx[LOCK_BUSIF]

TagRegsOK ==
  /\ \A m, n \in tagw_reg : m = n
  /\ tagw_reg # {} => tagr_reg = {}
  /\ \A c \in CPU : \A m, n \in tagr_reg \cap TagPort(c) : m = n

BankRegsOK ==
  \A b \in Bank : \A m, n \in bank_reg[b] \cap req_bank[b] :
    RAMPORT(m) = RAMPORT(n) => wiadr[m] = wiadr[n]

BusIfRegsOK == \A m, n \in busif_reg : m = n

IInv == TypeOK /\ LockRegsOK /\ TagRegsOK /\ BankRegsOK /\ BusIfRegsOK

\* The CPU with priority is a CPU.
LEMMA PrioType == TypeOK => GetPrioCpu \in CPU
<1>1. ASSUME TypeOK PROVE counter_reg \in Nat
  BY <1>1, ConfigAssumption, ArbiterAssumption DEF TypeOK, CounterPeriod
<1>2. ASSUME TypeOK PROVE (counter_reg \div PRIO_CLOCKS) \in Nat
  BY <1>1, <1>2, ArbiterAssumption
<1> QED BY <1>2, ConfigAssumption DEF GetPrioCpu, CPU

\* In a state of the inductive invariant the grants of the four arbitrations
\* are exclusive.
LEMMA GrantsExclusive ==
  IInv => LineLockExclusive /\ TagLockExclusive /\ BankRouted /\ BusIfOneHot
<1> SUFFICES ASSUME IInv
             PROVE  LineLockExclusive /\ TagLockExclusive /\ BankRouted
                      /\ BusIfOneHot
  OBVIOUS
<1> USE DEF IInv
<1>p. GetPrioCpu \in CPU
  BY PrioType
<1>1. LineLockExclusive
  <2>1. req_linelock \subseteq Locker
    BY DEF TypeOK
  <2>2. \A m, n \in KeptLocks(linelock_reg, req_linelock) : m = n
    BY DEF LockRegsOK, KeptLocks
  <2> QED
    BY <1>p, <2>1, <2>2, LineLockExclusion
       DEF LockRegsOK, LineLockExclusive, gnt_linelock
<1>2. TagLockExclusive
  <2>1. CASE ~tagram_ready
    BY <2>1 DEF TagLockExclusive, gnt_tagr, gnt_tagw, TagReaders, TagWriters
  <2>2. CASE tagram_ready
    <3>1. /\ gnt_tagr = TagReaders(TRUE, tagr_reg, req_tagr, req_tagw)
          /\ gnt_tagw = TagWriters(TRUE, gnt_tagr, tagw_reg, req_tagw, GetPrioCpu)
      BY <2>2 DEF gnt_tagr, gnt_tagw, TypeOK
    <3>2. req_tagw \subseteq Locker
      BY DEF TypeOK
    <3>3. \A m, n \in gnt_tagw : m = n
      <4>1. CASE tagw_reg \cap req_tagw # {}
        BY <3>1, <4>1 DEF TagWriters, TagRegsOK
      <4>2. CASE tagw_reg \cap req_tagw = {}
        BY <3>1, <4>2 DEF TagWriters
      <4> QED BY <4>1, <4>2
    <3>4. gnt_tagw # {} => gnt_tagr = {}
      <4>1. CASE tagw_reg \cap req_tagw # {}
        BY <3>1, <4>1 DEF TagReaders, TagRegsOK
      <4>2. CASE tagw_reg \cap req_tagw = {}
        BY <3>1, <4>2 DEF TagWriters
      <4> QED BY <4>1, <4>2
    <3>5. \A c \in CPU : \A m, n \in gnt_tagr \cap TagPort(c) : m = n
      BY <3>1, TagReadersExclusion DEF TagRegsOK
    <3> QED BY <3>3, <3>4, <3>5 DEF TagLockExclusive
  <2> QED BY <2>1, <2>2
<1>3. BankRouted
  <2> SUFFICES ASSUME NEW b \in Bank
               PROVE
                 /\ \A n \in gnt_bank[b] :
                      wiadr[n] = BankAddress(RAMPORT(n), bank_reg[b], req_bank[b],
                                             wiadr, GetPrioCpu)
                 /\ \A m, n \in gnt_bank[b] :
                      m >= RPORTS /\ n >= RPORTS /\ RAMPORT(m) = RAMPORT(n)
                        => m = n
    BY DEF BankRouted
  <2>1. gnt_bank[b] = BankGrant(bank_reg[b], req_bank[b], wiadr, GetPrioCpu)
    BY DEF gnt_bank
  <2>2. req_bank[b] \subseteq Port
    BY DEF TypeOK
  <2>3. \A m, n \in bank_reg[b] \cap req_bank[b] :
          RAMPORT(m) = RAMPORT(n) => wiadr[m] = wiadr[n]
    BY DEF BankRegsOK
  <2>4. \A n \in gnt_bank[b] :
          wiadr[n] = BankAddress(RAMPORT(n), bank_reg[b], req_bank[b], wiadr,
                                 GetPrioCpu)
    BY <2>1, <2>2, <2>3, BankGrantRouted
  <2>5. \A n \in gnt_bank[b] : n >= RPORTS =>
          n = SelectedWriter(RAMPORT(n), bank_reg[b], req_bank[b], wiadr,
                             GetPrioCpu)
    BY <2>1 DEF BankGrant
  <2> QED BY <2>4, <2>5
<1>4. BusIfOneHot
  BY <1>p, BusIfGrantShape DEF BusIfOneHot, gnt_busif, BusIfRegsOK
<1> QED BY <1>1, <1>2, <1>3, <1>4

\* Grants are given on request only.
LEMMA GrantsRequested ==
  TypeOK => /\ gnt_linelock \subseteq req_linelock
            /\ gnt_tagr \subseteq req_tagr
            /\ gnt_tagw \subseteq req_tagw
            /\ \A b \in Bank : gnt_bank[b] \subseteq req_bank[b]
            /\ gnt_busif \subseteq req_busif
<1> SUFFICES ASSUME TypeOK
             PROVE  /\ gnt_linelock \subseteq req_linelock
                    /\ gnt_tagr \subseteq req_tagr
                    /\ gnt_tagw \subseteq req_tagw
                    /\ \A b \in Bank : gnt_bank[b] \subseteq req_bank[b]
                    /\ gnt_busif \subseteq req_busif
  OBVIOUS
<1>p. GetPrioCpu \in CPU
  BY PrioType
<1>1. gnt_linelock \subseteq req_linelock
  BY <1>p, LineLockShape DEF gnt_linelock, TypeOK
<1>2. gnt_tagr \subseteq req_tagr
  <2>1. TagReaders(TRUE, tagr_reg, req_tagr, req_tagw) \subseteq req_tagr
    BY TagReadersShape
  <2> QED BY <2>1 DEF gnt_tagr, TagReaders, TypeOK
<1>3. gnt_tagw \subseteq req_tagw
  <2>1. TagWriters(TRUE, gnt_tagr, tagw_reg, req_tagw, GetPrioCpu)
          \subseteq req_tagw
    <3>1. req_tagw \subseteq Locker
      BY DEF TypeOK
    <3> QED BY <1>p, <3>1, TagWritersShape
  <2> QED BY <2>1 DEF gnt_tagw, TagWriters, TypeOK
<1>4. ASSUME NEW b \in Bank PROVE gnt_bank[b] \subseteq req_bank[b]
  BY DEF gnt_bank, BankGrant, PreGranted
<1>5. gnt_busif \subseteq req_busif
  BY <1>p, BusIfGrantShape DEF gnt_busif
<1> QED BY <1>1, <1>2, <1>3, <1>4, <1>5

\* What the environment may do to a request vector keeps it in its width.
LEMMA AsksType ==
  ASSUME NEW resource, NEW S
  PROVE  \A r \in Asks(resource, S) : r \subseteq S
BY DEF Asks

\* Reset leaves registers and lines in their widths.
LEMMA InitType == Init => TypeOK
<1> SUFFICES ASSUME Init PROVE TypeOK
  OBVIOUS
<1>1. CounterPeriod \in Nat \ {0}
  BY ConfigAssumption, ArbiterAssumption DEF CounterPeriod
<1>2. counter_reg \in 0 .. CounterPeriod - 1
  BY <1>1 DEF Init
<1>3. 0 \in Index /\ 0 \in WayIndex
  BY ConfigAssumption DEF Index, WayIndex
<1>4. idx \in [Locker -> Index] /\ wiadr \in [Port -> WayIndex]
  BY <1>3 DEF Init
<1>5. /\ bank_reg \in [Bank -> SUBSET Port] /\ req_bank \in [Bank -> SUBSET Port]
      /\ tagram_ready \in BOOLEAN
  BY DEF Init
<1> QED BY <1>2, <1>4, <1>5 DEF Init, TypeOK

\* Widths of registers and lines, for every configuration.
THEOREM TypeCorrect == Spec => []TypeOK
<1>1. Init => TypeOK
  BY InitType
<1>2. TypeOK /\ [Next]_vars => TypeOK'
  <2> SUFFICES ASSUME TypeOK, [Next]_vars
               PROVE  TypeOK'
    OBVIOUS
  <2>1. CASE Next
    <3>1. TransitionThread /\ Environment
      BY <2>1 DEF Next
    <3>2. counter_reg' \in 0 .. CounterPeriod - 1
      <4>1. CounterPeriod \in Nat \ {0}
        BY ConfigAssumption, ArbiterAssumption DEF CounterPeriod
      <4>2. counter_reg + 1 \in Nat
        BY <4>1 DEF TypeOK
      <4> HIDE DEF CounterPeriod
      <4>3. (counter_reg + 1) % CounterPeriod \in 0 .. CounterPeriod - 1
        BY <4>1, <4>2
      <4> QED BY <3>1, <4>3 DEF TransitionThread
    <3>3. /\ linelock_reg' \subseteq Locker /\ tagr_reg' \subseteq Port
          /\ tagw_reg' \subseteq Locker /\ busif_reg' \subseteq Port
      BY <3>1, GrantsRequested DEF TransitionThread, TypeOK
    <3>4. bank_reg' \in [Bank -> SUBSET Port]
      <4>1. \A b \in Bank : gnt_bank[b] \subseteq Port
        BY GrantsRequested DEF TypeOK
      <4>2. gnt_bank = [b \in Bank |-> gnt_bank[b]]
        BY DEF gnt_bank
      <4> QED BY <3>1, <4>1, <4>2 DEF TransitionThread
    <3>5. /\ req_linelock' \subseteq Locker /\ req_tagr' \subseteq Port
          /\ req_tagw' \subseteq Locker
          /\ req_busif' \subseteq Port \ {IDX_BUSIF}
      BY <3>1, AsksType DEF Environment, RequestLines, TypeOK
    <3>6. req_bank' \in [Bank -> SUBSET Port]
      BY <3>1, AsksType DEF Environment, RequestLines
    <3>7. tagram_ready' \in BOOLEAN
      BY <3>1 DEF Environment
    <3>8. idx' \in [Locker -> Index]
      <4>1. PICK f \in [req_linelock' -> Index] :
              idx' = [n \in Locker |-> IF n \in req_linelock' THEN f[n] ELSE 0]
        BY <3>1 DEF Environment, AddressLines
      <4>2. 0 \in Index
        BY ConfigAssumption DEF Index
      <4> QED BY <4>1, <4>2
    <3>9. wiadr' \in [Port -> WayIndex]
      <4> DEFINE users == UNION {req_bank'[b] : b \in Bank}
      <4>1. PICK f \in [users -> WayIndex] :
              wiadr' = [n \in Port |-> IF n \in users THEN f[n] ELSE 0]
        BY <3>1 DEF Environment, AddressLines
      <4>2. 0 \in WayIndex
        BY ConfigAssumption DEF WayIndex
      <4> QED BY <4>1, <4>2
    <3> QED BY <3>2, <3>3, <3>4, <3>5, <3>6, <3>7, <3>8, <3>9 DEF TypeOK
  <2>2. CASE UNCHANGED vars
    BY <2>2 DEF vars, regs, lines, TypeOK
  <2> QED BY <2>1, <2>2
<1> QED BY <1>1, <1>2, PTL DEF Spec

\* The inductive invariant holds.
LEMMA InductiveInvariant == Spec => []IInv
<1>1. Init => IInv
  <2> QED BY InitType DEF Init, IInv, LockRegsOK, TagRegsOK, BankRegsOK, BusIfRegsOK
<1>2. IInv /\ TypeOK' /\ [Next]_vars => IInv'
  <2> SUFFICES ASSUME IInv, TypeOK', [Next]_vars
               PROVE  IInv'
    OBVIOUS
  <2>1. CASE Next
    <3>1. TransitionThread /\ AddressesHeld
      BY <2>1 DEF Next, Environment
    <3>2. /\ LineLockExclusive /\ TagLockExclusive /\ BankRouted /\ BusIfOneHot
          /\ TypeOK
      BY GrantsExclusive DEF IInv
    <3>3. LockRegsOK'
      <4>1. linelock_reg' = gnt_linelock /\ gnt_linelock \subseteq req_linelock
        BY <3>1, <3>2, GrantsRequested DEF TransitionThread
      <4>2. \A n \in linelock_reg' \cap req_linelock' : idx'[n] = idx[n]
        BY <3>1, <3>2, <4>1 DEF AddressesHeld, TypeOK
      <4> QED BY <3>2, <4>1, <4>2 DEF LockRegsOK, LineLockExclusive, KeptLocks
    <3>4. TagRegsOK'
      BY <3>1, <3>2 DEF TransitionThread, TagLockExclusive, TagRegsOK
    <3>5. BankRegsOK'
      <4> SUFFICES ASSUME NEW b \in Bank,
                          NEW m \in bank_reg'[b] \cap req_bank'[b],
                          NEW n \in bank_reg'[b] \cap req_bank'[b],
                          RAMPORT(m) = RAMPORT(n)
                   PROVE  wiadr'[m] = wiadr'[n]
        BY DEF BankRegsOK
      <4>1. m \in gnt_bank[b] /\ n \in gnt_bank[b]
        BY <3>1 DEF TransitionThread
      <4>2. wiadr[m] = wiadr[n]
        BY <3>2, <4>1 DEF BankRouted
      <4>3. m \in req_bank[b] /\ n \in req_bank[b]
        BY <3>2, <4>1, GrantsRequested
      <4>4. m \in Port /\ n \in Port
        BY <3>2, <4>3 DEF TypeOK
      <4>5. wiadr'[m] = wiadr[m] /\ wiadr'[n] = wiadr[n]
        BY <3>1, <4>3, <4>4 DEF AddressesHeld
      <4> QED BY <4>2, <4>5
    <3>6. BusIfRegsOK'
      BY <3>1, <3>2 DEF TransitionThread, BusIfOneHot, BusIfRegsOK
    <3> QED BY <3>3, <3>4, <3>5, <3>6 DEF IInv
  <2>2. CASE UNCHANGED vars
    BY <2>2 DEF vars, regs, lines, IInv, LockRegsOK, TagRegsOK, BankRegsOK,
                BusIfRegsOK, KeptLocks, TypeOK
  <2> QED BY <2>1, <2>2
<1> QED BY <1>1, <1>2, TypeCorrect, PTL DEF Spec

\* For every number of CPUs, banks, sets, ways and RAM ports, whatever the
\* ports request: the line locks, the tag RAM locks, the bank RAM ports and
\* the bus interface are never granted to conflicting requesters.
THEOREM ArbiterExclusion ==
  Spec => []Exclusive
<1>1. IInv => Exclusive
  BY GrantsExclusive DEF Exclusive
<1> QED BY <1>1, InductiveInvariant, PTL

\* For every configuration, the grants do not depend on whether a simulator
\* recomputes them after an edge.
THEOREM GrantsSettle == Spec => []GrantsSettled
<1>1. TypeOK => GrantsSettled
  <2> SUFFICES ASSUME TypeOK, NEW prio \in CPU
               PROVE
    /\ LineLock(gnt_linelock, req_linelock, idx, prio) = gnt_linelock
    /\ TagReaders(tagram_ready, gnt_tagr, req_tagr, req_tagw) = gnt_tagr
    /\ TagWriters(tagram_ready, gnt_tagr, gnt_tagw, req_tagw, prio) = gnt_tagw
    /\ BusIfGrant(gnt_busif, req_busif, prio) = gnt_busif
    BY DEF GrantsSettled
  <2>p. GetPrioCpu \in CPU
    BY PrioType
  <2>1. LineLock(gnt_linelock, req_linelock, idx, prio) = gnt_linelock
    BY <2>p, LineLockSettled DEF gnt_linelock, TypeOK
  <2>2. TagReaders(tagram_ready, gnt_tagr, req_tagr, req_tagw) = gnt_tagr
    BY TagReadersSettled DEF gnt_tagr, TypeOK
  <2>3. TagWriters(tagram_ready, gnt_tagr, gnt_tagw, req_tagw, prio) = gnt_tagw
    BY <2>p, TagWritersSettled DEF gnt_tagw, TypeOK
  <2>4. BusIfGrant(gnt_busif, req_busif, prio) = gnt_busif
    BY <2>p, BusIfGrantSettled DEF gnt_busif
  <2> QED BY <2>1, <2>2, <2>3, <2>4
<1> QED BY <1>1, TypeCorrect, PTL

-----------------------------------------------------------------------------
(* No preemption.                                                          *)

\* For every configuration: a grant lasts as long as its request, whoever asks
\* meanwhile and however the priority moves.  Locks are never preempted.
THEOREM GrantsKept == Spec => GrantsHeld
<1> DEFINE Held ==
      /\ gnt_linelock \cap req_linelock' \subseteq gnt_linelock'
      /\ gnt_tagr \cap req_tagr' \subseteq gnt_tagr'
      /\ gnt_tagw \cap req_tagw' \subseteq gnt_tagw'
      /\ gnt_busif \cap req_busif' \subseteq gnt_busif'
      /\ CPU_CORES <= BR_PORTS =>
           \A b \in Bank : gnt_bank[b] \cap req_bank'[b] \subseteq gnt_bank'[b]
<1>p. (TypeOK => GetPrioCpu \in CPU)'
  BY PrioType, PTL
<1>1. ASSUME IInv, TypeOK', Next PROVE Held
  <2>1. /\ linelock_reg' = gnt_linelock /\ tagr_reg' = gnt_tagr
        /\ tagw_reg' = gnt_tagw /\ bank_reg' = gnt_bank
        /\ busif_reg' = gnt_busif /\ tagram_ready' = TRUE
    BY <1>1 DEF Next, TransitionThread, Environment
  <2>p. GetPrioCpu' \in CPU
    BY <1>p, <1>1
  <2>2. gnt_linelock \cap req_linelock' \subseteq gnt_linelock'
    <3>1. req_linelock' \subseteq Locker
      BY <1>1 DEF TypeOK
    <3>2. linelock_reg' \cap req_linelock'
            \subseteq LineLock(linelock_reg', req_linelock', idx', GetPrioCpu')
      BY <2>p, <3>1, LineLockShape
    <3> QED BY <2>1, <3>2 DEF gnt_linelock
  <2>3. gnt_tagr \cap req_tagr' \subseteq gnt_tagr'
    <3>1. tagr_reg' \cap req_tagr'
            \subseteq TagReaders(TRUE, tagr_reg', req_tagr', req_tagw')
      BY DEF TagReaders
    <3> QED BY <2>1, <3>1 DEF gnt_tagr
  <2>4. gnt_tagw \cap req_tagw' \subseteq gnt_tagw'
    <3>1. req_tagw' \subseteq Locker
      BY <1>1 DEF TypeOK
    <3>2. tagw_reg' \cap req_tagw'
            \subseteq TagWriters(TRUE, gnt_tagr', tagw_reg', req_tagw',
                                GetPrioCpu')
      BY <2>p, <3>1, TagWritersShape
    <3> QED BY <2>1, <3>2 DEF gnt_tagw
  <2>5. gnt_busif \cap req_busif' \subseteq gnt_busif'
    <3>1. busif_reg' \cap req_busif' # {} =>
            BusIfGrant(busif_reg', req_busif', GetPrioCpu')
              = busif_reg' \cap req_busif'
      BY <2>p, BusIfGrantShape
    <3> QED BY <2>1, <3>1 DEF gnt_busif
  <2>6. ASSUME CPU_CORES <= BR_PORTS, NEW b \in Bank,
               NEW n \in gnt_bank[b] \cap req_bank'[b]
        PROVE  n \in gnt_bank'[b]
    <3>1. req_bank'[b] \subseteq Port
      BY <1>1 DEF TypeOK
    <3>2. n \in bank_reg'[b] \cap req_bank'[b]
      BY <2>1, <2>6
    <3>3. \A m \in bank_reg'[b] \cap req_bank'[b] :
            m >= RPORTS /\ n >= RPORTS /\ RAMPORT(m) = RAMPORT(n) => m = n
      BY <1>1, <2>1, <2>6, GrantsExclusive DEF BankRouted
    <3>4. n \in PreGranted(bank_reg'[b], req_bank'[b], wiadr', GetPrioCpu')
      BY <3>2 DEF PreGranted
    <3>5. n >= RPORTS =>
            n = SelectedWriter(RAMPORT(n), bank_reg'[b], req_bank'[b], wiadr',
                               GetPrioCpu')
      BY <2>6, <3>1, <3>2, <3>3, KeptWriterSelected
    <3>6. n \in BankGrant(bank_reg'[b], req_bank'[b], wiadr', GetPrioCpu')
      BY <3>4, <3>5 DEF BankGrant
    <3> QED BY <3>6 DEF gnt_bank
  <2> QED BY <2>2, <2>3, <2>4, <2>5, <2>6
<1> HIDE DEF Held
<1>2. IInv /\ TypeOK' /\ [Next]_vars => [Held]_vars
  BY <1>1
<1>3. Spec => [][Held]_vars
  BY <1>2, InductiveInvariant, TypeCorrect, PTL DEF Spec
<1> QED BY <1>3 DEF GrantsHeld, Held

=============================================================================
