---------------------------- MODULE SharedMemory ----------------------------
(***************************************************************************)
(* What the memory unit promises to the CPUs: one memory, shared by all    *)
(* ports.  A store takes effect at one moment between its request and its  *)
(* acknowledgement, and a load returns the word the memory holds at the    *)
(* moment it is acknowledged.  Nothing is said of caches.                  *)
(*                                                                         *)
(* A step is a clock edge, at which several ports may make progress.       *)
(* Pending loads and stores, and the words delivered in the current cycle, *)
(* are functions whose domain is the set of ports concerned.               *)
(***************************************************************************)
CONSTANTS
  Reader, Writer,     \* the ports
  Address, Data,
  Merge(_, _, _)      \* byte select, old word, new word -> word stored

VARIABLES
  memory,        \* [Address -> Data]
  loads,         \* pending loads: reader -> address
  delivered,     \* words delivered in this cycle: reader -> word
  stores,        \* pending stores: writer -> [adr, data, bsel, cond]
  performed      \* writers whose pending store has taken effect

svars == <<memory, loads, delivered, stores, performed>>

Init ==
  /\ memory \in [Address -> Data]
  /\ loads = <<>> /\ delivered = <<>> /\ stores = <<>>
  /\ performed = {}

\* The stores of W take effect together; they are to different addresses.
Perform(W) ==
  /\ \A v, w \in W : stores[v].adr = stores[w].adr => v = w
  /\ memory' = [a \in Address |->
       IF \E w \in W : stores[w].adr = a
       THEN LET w == CHOOSE w \in W : stores[w].adr = a
            IN  Merge(stores[w].bsel, memory[a], stores[w].data)
       ELSE memory[a]]

\* Loads: a delivered word answers a pending load; the others stay pending.
Deliver ==
  /\ DOMAIN delivered' \subseteq DOMAIN loads
  /\ \A r \in DOMAIN delivered' : delivered'[r] = memory'[loads[r]]
  /\ \A r \in DOMAIN loads \ DOMAIN delivered' :
       r \in DOMAIN loads' /\ loads'[r] = loads[r]

\* Stores: W take effect now.  A store that has taken effect may be
\* acknowledged, and so may a conditional store that fails; the others stay
\* pending.
Acknowledge(W) ==
  \A w \in Writer :
    \/ /\ w \in DOMAIN stores /\ w \in DOMAIN stores'
       /\ stores'[w] = stores[w]
       /\ (w \in performed') = (w \in performed \cup W)
    \/ /\ w \in DOMAIN stores => w \in performed \cup W \/ stores[w].cond
       /\ w \notin performed'

Next ==
  \E W \in SUBSET (DOMAIN stores \ performed) :
    Perform(W) /\ Deliver /\ Acknowledge(W)

Spec == Init /\ [][Next]_svars

=============================================================================
