---------------------------- MODULE ArbiterLogic ----------------------------
(***************************************************************************)
(* The combinational methods of MArbiter (sysc/memu.cpp): from the grants  *)
(* of the last clock cycle (reg), the requests of this one (req), the      *)
(* addresses of the requesters and the CPU that has priority, each returns *)
(* the set of grants.                                                      *)
(***************************************************************************)
EXTENDS MemuConfig

\* Number of CPUs the loops "i = (n + GetPrioCpu ()) % CPU_CORES" visit
\* before CPU i.
Turn(i, prio) == IF prio <= i THEN i - prio ELSE i - prio + CPU_CORES

\* The member of a non-empty set of CPUs that such a loop meets first, and
\* the one it meets last.
FirstInTurn(S, prio) ==
  CHOOSE i \in S : \A j \in S : Turn(i, prio) <= Turn(j, prio)
LastInTurn(S, prio) ==
  CHOOSE i \in S : \A j \in S : Turn(j, prio) <= Turn(i, prio)

-----------------------------------------------------------------------------
(* LineLockMethod.  idx[n] is the cache index requester n works on.        *)

\* Faulty variant: a lock can be taken away while it is requested.
KeptLocks_Preempt(reg, req) == {}

KeptLocks(reg, req) == (reg \cap req) \ {LOCK_BUSIF}

\* Faulty variant: the bus interface does not look at the index.
BusIfGetsLock_AnyIndex(reg, req, idx) == LOCK_BUSIF \in req

BusIfGetsLock(reg, req, idx) ==
  /\ LOCK_BUSIF \in req
  /\ \/ LOCK_BUSIF \in reg
     \/ \A n \in KeptLocks(reg, req) : idx[n] # idx[LOCK_BUSIF]

NewLockCandidates(reg, req, idx) ==
  {i \in req \ {LOCK_BUSIF} :
     BusIfGetsLock(reg, req, idx) => idx[i] # idx[LOCK_BUSIF]}

LineLock(reg, req, idx, prio) ==
  LET kept == KeptLocks(reg, req)
      cand == NewLockCandidates(reg, req, idx)
  IN  (IF BusIfGetsLock(reg, req, idx) THEN {LOCK_BUSIF} ELSE {})
        \cup (IF kept # {} THEN kept
              ELSE IF cand # {} THEN {FirstInTurn(cand, prio)}
              ELSE {})

-----------------------------------------------------------------------------
(* TagMethod.  Readers are ports, writers are lockers.                     *)

\* The requesters that share tag RAM port n.
TagPort(n) == {IDX_RP(n), IDX_IP(n), IDX_WP(n)}
                \cup (IF n = CPU_CORES - 1 THEN {IDX_BUSIF} ELSE {})

\* The requester of tag RAM port n that a free port is given to.
TagPortChoice(n, req) ==
  IF n = CPU_CORES - 1 /\ IDX_BUSIF \in req THEN IDX_BUSIF
  ELSE IF IDX_RP(n) \in req THEN IDX_RP(n)
  ELSE IF IDX_IP(n) \in req THEN IDX_IP(n)
  ELSE IDX_WP(n)

FreeTagPorts(reg, req) ==
  {n \in CPU : /\ reg \cap req \cap TagPort(n) = {}
               /\ req \cap TagPort(n) # {}}

TagReaders(ready, reg, req, reqw) ==
  IF ~ready THEN {}
  ELSE (reg \cap req)
         \cup (IF reqw = {}
               THEN {TagPortChoice(n, req) : n \in FreeTagPorts(reg, req)}
               ELSE {})

\* Faulty variant: the write lock moves on with the priority.
TagWriters_Preempt(ready, readers, regw, reqw, prio) ==
  IF ~ready \/ readers # {} \/ reqw = {} THEN {}
  ELSE IF LOCK_BUSIF \in reqw THEN {LOCK_BUSIF}
  ELSE {FirstInTurn(reqw, prio)}

TagWriters(ready, readers, regw, reqw, prio) ==
  IF ~ready THEN {}
  ELSE (regw \cap reqw)
         \cup (IF readers = {} /\ regw \cap reqw = {} /\ reqw # {}
               THEN IF LOCK_BUSIF \in reqw THEN {LOCK_BUSIF}
                    ELSE {FirstInTurn(reqw, prio)}
               ELSE {})

-----------------------------------------------------------------------------
(* BusIfMethod.                                                            *)

BusIfClaimants(req) ==
  {i \in CPU : req \cap {IDX_RP(i), IDX_IP(i), IDX_WP(i)} # {}}

BusIfChoice(i, req) ==
  IF IDX_RP(i) \in req THEN IDX_RP(i)
  ELSE IF IDX_IP(i) \in req THEN IDX_IP(i)
  ELSE IDX_WP(i)

BusIfGrant(reg, req, prio) ==
  IF reg \cap req # {} THEN reg \cap req
  ELSE IF BusIfClaimants(req) = {} THEN {}
  ELSE {BusIfChoice(FirstInTurn(BusIfClaimants(req), prio), req)}

-----------------------------------------------------------------------------
(* BankMethod, for one bank.  wiadr[n] is the way and index address of     *)
(* port n.  None is the -1 of the source.                                  *)

None == -1

\* n % CPU_CORES, for the index of a read or write port.
CPU_OF_IDX(n) == IF n < WPORTS THEN n
                 ELSE IF n < RPORTS THEN n - WPORTS
                 ELSE n - RPORTS

RAMPORT_BUSIF == BR_PORTS - 1
RAMPORT(n) == IF n = IDX_BUSIF THEN RAMPORT_BUSIF
              ELSE CPU_OF_IDX(n) % BR_PORTS
RamPort == 0 .. BR_PORTS - 1

\* 'sel_port' after the first three priorities: a kept grant (the loop
\* leaves the highest index), the bus interface, then the CPUs in turn.
SelectedPort(p, reg, req, prio) ==
  LET kept == {n \in reg \cap req : RAMPORT(n) = p}
      cpus == {i \in BusIfClaimants(req) : RAMPORT(i) = p}
  IN  IF kept # {} THEN CHOOSE n \in kept : \A m \in kept : m <= n
      ELSE IF p = RAMPORT_BUSIF /\ IDX_BUSIF \in req THEN IDX_BUSIF
      ELSE IF cpus # {} THEN BusIfChoice(FirstInTurn(cpus, prio), req)
      ELSE None

\* Every requester whose address matches that of the selected port.
PreGranted(reg, req, wiadr, prio) ==
  {n \in req : \/ n \in reg
               \/ LET s == SelectedPort(RAMPORT(n), reg, req, prio)
                  IN  s # None /\ wiadr[n] = wiadr[s]}

\* 'sel_port' after the loop over the write ports: the last one visited.
SelectedWriter(p, reg, req, wiadr, prio) ==
  LET s    == SelectedPort(p, reg, req, prio)
      wps  == {i \in CPU : /\ RAMPORT(i) = p
                           /\ IDX_WP(i) \in PreGranted(reg, req, wiadr, prio)}
  IN  IF s = IDX_BUSIF \/ wps = {} THEN s
      ELSE IDX_WP(LastInTurn(wps, prio))

BankGrant(reg, req, wiadr, prio) ==
  {n \in PreGranted(reg, req, wiadr, prio) :
     n >= RPORTS => n = SelectedWriter(RAMPORT(n), reg, req, wiadr, prio)}

\* 'wiadr_bank': the address port p of the bank RAM is driven with.
BankAddress(p, reg, req, wiadr, prio) ==
  LET s == SelectedPort(p, reg, req, prio)
  IN  IF s = None THEN None ELSE wiadr[s]

-----------------------------------------------------------------------------
(* SnoopMethod: the write ports told of the address of the lock holder.    *)

SnoopWriters(locks)  == locks \ {LOCK_BUSIF}
\* Faulty variant: the writer snoops its own store.
SnoopStrobe_All(locks) == IF SnoopWriters(locks) = {} THEN {} ELSE WP
SnoopStrobe(locks)   ==
  IF SnoopWriters(locks) = {} THEN {}
  ELSE WP \ {CHOOSE w \in SnoopWriters(locks) : TRUE}
SnoopSource(locks)   == CHOOSE w \in SnoopWriters(locks) : TRUE

=============================================================================
