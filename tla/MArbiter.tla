------------------------------ MODULE MArbiter ------------------------------
(***************************************************************************)
(* The arbiter of the memory unit on its own (MArbiter, sysc/memu.cpp).    *)
(*                                                                         *)
(* A state is one clock cycle: the registers, and the request and address  *)
(* lines the environment drives during the cycle.  The grants are          *)
(* functions of both.  A step is a clock edge (TransitionThread): the      *)
(* registers take over the grants, the priority counter advances and the   *)
(* environment drives new lines, restricted only by the rule of memu.h     *)
(* that an address "must be kept constant as long as 'req_*' lines are     *)
(* held".                                                                  *)
(***************************************************************************)
EXTENDS ArbiterLogic, FiniteSets

CONSTANTS
  PRIO_CLOCKS,     \* 1 << ARBITER_METHOD: clocks until the priority moves on
  Requested,       \* sets of resources that are asked for together (a bound of
                   \* the instance: the four arbitrations share only the
                   \* counter)
  MaxRequests      \* requests for one resource at a time (a bound of the
                   \* instance)

ASSUME ArbiterAssumption ==
  /\ PRIO_CLOCKS \in Nat \ {0}
  /\ Requested \subseteq SUBSET {"linelock", "tag", "bank", "busif"}
  /\ MaxRequests \in Nat

VARIABLES
  \* registers
  counter_reg, linelock_reg, tagr_reg, tagw_reg, bank_reg, busif_reg,
  \* request lines
  req_linelock, req_tagr, req_tagw, req_bank, req_busif, tagram_ready,
  \* address lines: cache index of each locker, way and index of each port
  idx, wiadr,
  \* the resources the environment asks for
  asked

regs  == <<counter_reg, linelock_reg, tagr_reg, tagw_reg, bank_reg, busif_reg>>
lines == <<req_linelock, req_tagr, req_tagw, req_bank, req_busif, tagram_ready,
           idx, wiadr>>
vars  == <<regs, lines, asked>>

WayIndex == 0 .. CACHE_WAYS * CACHE_SETS - 1

\* Priority counter: one period of the round robin.
CounterPeriod == CPU_CORES * PRIO_CLOCKS
GetPrioCpu    == (counter_reg \div PRIO_CLOCKS) % CPU_CORES

-----------------------------------------------------------------------------
(* Grant lines of the current cycle.                                       *)

gnt_linelock == LineLock(linelock_reg, req_linelock, idx, GetPrioCpu)
gnt_tagr     == TagReaders(tagram_ready, tagr_reg, req_tagr, req_tagw)
gnt_tagw     == TagWriters(tagram_ready, gnt_tagr, tagw_reg, req_tagw,
                           GetPrioCpu)
gnt_bank     == [b \in Bank |->
                   BankGrant(bank_reg[b], req_bank[b], wiadr, GetPrioCpu)]
gnt_busif    == BusIfGrant(busif_reg, req_busif, GetPrioCpu)

-----------------------------------------------------------------------------
(* Environment.                                                            *)

\* What a request vector over S can be.  Requests for a resource that the
\* environment does not ask for are never raised.
Asks(resource, S) ==
  IF resource \in asked THEN {R \in SUBSET S : Cardinality(R) <= MaxRequests}
  ELSE {{}}

\* A requester that keeps a request keeps its address.
AddressesHeld ==
  LET lockers == req_linelock \cap req_linelock'
      users   == UNION {req_bank[b] \cap req_bank'[b] : b \in Bank}
  IN  /\ \A n \in lockers : idx'[n] = idx[n]
      /\ \A n \in users : wiadr'[n] = wiadr[n]

\* Addresses matter only to a requester: the others drive 0.
AddressLines ==
  /\ idx' \in {[n \in Locker |-> IF n \in req_linelock' THEN f[n] ELSE 0] :
                f \in [req_linelock' -> Index]}
  /\ LET users == UNION {req_bank'[b] : b \in Bank}
     IN  wiadr' \in {[n \in Port |-> IF n \in users THEN f[n] ELSE 0] :
                      f \in [users -> WayIndex]}

RequestLines ==
  /\ req_linelock' \in Asks("linelock", Locker)
  /\ req_tagr' \in Asks("tag", Port)
  /\ req_tagw' \in Asks("tag", Locker)
  /\ Cardinality(req_tagr') + Cardinality(req_tagw') <= MaxRequests
  /\ req_bank' \in [Bank -> Asks("bank", Port)]
  /\ req_busif' \in Asks("busif", Port \ {IDX_BUSIF})

Environment ==
  /\ RequestLines
  /\ tagram_ready' = TRUE     \* MTagRam leaves reset after one cycle
  /\ AddressLines
  /\ AddressesHeld
  /\ UNCHANGED asked

-----------------------------------------------------------------------------
\* Reset.  Only counter_reg and linelock_reg are reset explicitly; the other
\* registers are SystemC signals that start as 0.
Init ==
  /\ counter_reg = CounterPeriod - 1  \* 0xffff, seen through its low bits
  /\ linelock_reg = {} /\ tagr_reg = {} /\ tagw_reg = {} /\ busif_reg = {}
  /\ bank_reg = [b \in Bank |-> {}]
  /\ req_linelock = {} /\ req_tagr = {} /\ req_tagw = {} /\ req_busif = {}
  /\ req_bank = [b \in Bank |-> {}]
  /\ tagram_ready = FALSE
  /\ idx = [n \in Locker |-> 0]
  /\ wiadr = [n \in Port |-> 0]
  /\ asked \in Requested

TransitionThread ==
  /\ counter_reg' = (counter_reg + 1) % CounterPeriod
  /\ linelock_reg' = gnt_linelock
  /\ tagr_reg' = gnt_tagr
  /\ tagw_reg' = gnt_tagw
  /\ bank_reg' = gnt_bank
  /\ busif_reg' = gnt_busif

Next == TransitionThread /\ Environment

Spec == Init /\ [][Next]_vars

-----------------------------------------------------------------------------
(* Properties.                                                             *)

\* Registers and lines have the widths of their declarations in memu.h.
TypeOK ==
  /\ counter_reg \in 0 .. CounterPeriod - 1
  /\ linelock_reg \subseteq Locker /\ req_linelock \subseteq Locker
  /\ tagr_reg \subseteq Port /\ req_tagr \subseteq Port
  /\ tagw_reg \subseteq Locker /\ req_tagw \subseteq Locker
  /\ bank_reg \in [Bank -> SUBSET Port] /\ req_bank \in [Bank -> SUBSET Port]
  /\ busif_reg \subseteq Port /\ req_busif \subseteq Port \ {IDX_BUSIF}
  /\ tagram_ready \in BOOLEAN
  /\ idx \in [Locker -> Index]
  /\ wiadr \in [Port -> WayIndex]

\* LineLockMethod: two write ports never hold line locks together, and the
\* bus interface and a write port only on different cache indices.
LineLockExclusive ==
  /\ \A m, n \in gnt_linelock \ {LOCK_BUSIF} : m = n
  /\ LOCK_BUSIF \in gnt_linelock =>
       \A n \in gnt_linelock \ {LOCK_BUSIF} : idx[n] # idx[LOCK_BUSIF]

\* TagMethod: a tag write lock excludes every other writer and all readers,
\* and a tag RAM port serves one reader.
TagLockExclusive ==
  /\ \A m, n \in gnt_tagw : m = n
  /\ gnt_tagw # {} => gnt_tagr = {}
  /\ \A c \in CPU : \A m, n \in gnt_tagr \cap TagPort(c) : m = n

\* BusIfMethod: "only one is set at a time" (memu.h), on which the routing of
\* the bus interface inputs relies.
BusIfOneHot == \A m, n \in gnt_busif : m = n

\* BankMethod: every granted port finds its own address on the port of the
\* bank RAM it is wired to (the assertion commented out in BankMethod), and at
\* most one of the requesters that can write is granted per RAM port.
BankRouted ==
  \A b \in Bank :
    /\ \A n \in gnt_bank[b] :
         wiadr[n] = BankAddress(RAMPORT(n), bank_reg[b], req_bank[b], wiadr,
                                GetPrioCpu)
    /\ \A m, n \in gnt_bank[b] :
         m >= RPORTS /\ n >= RPORTS /\ RAMPORT(m) = RAMPORT(n) => m = n

\* What a port is granted it has for itself, whoever has priority: line locks,
\* tag RAM, banks and bus interface (TransitionThread, the *Method processes).
Exclusive == LineLockExclusive /\ TagLockExclusive /\ BankRouted /\ BusIfOneHot

\* No preemption: a grant lasts as long as its request, whoever asks
\* meanwhile and however the priority moves.  (For a bank only while no two
\* write ports share a RAM port.)
GrantsHeld ==
  [][/\ gnt_linelock \cap req_linelock' \subseteq gnt_linelock'
     /\ gnt_tagr \cap req_tagr' \subseteq gnt_tagr'
     /\ gnt_tagw \cap req_tagw' \subseteq gnt_tagw'
     /\ gnt_busif \cap req_busif' \subseteq gnt_busif'
     /\ CPU_CORES <= BR_PORTS =>
          \A b \in Bank : gnt_bank[b] \cap req_bank'[b] \subseteq gnt_bank'[b]]_vars

\* The sensitivity lists of the arbiter's methods (memu.h) leave out the
\* registers and the counter, so a simulator does not recompute the grants
\* after an edge that changes no line.  That is right only because
\* recomputing them would change nothing, whoever has priority by then.
GrantsSettled ==
  \A prio \in CPU :
    /\ LineLock(gnt_linelock, req_linelock, idx, prio) = gnt_linelock
    /\ TagReaders(tagram_ready, gnt_tagr, req_tagr, req_tagw) = gnt_tagr
    /\ TagWriters(tagram_ready, gnt_tagr, gnt_tagw, req_tagw, prio) = gnt_tagw
    /\ BusIfGrant(gnt_busif, req_busif, prio) = gnt_busif

=============================================================================
