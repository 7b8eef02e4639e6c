----------------------------- MODULE UartProofs -----------------------------
(***************************************************************************)
(* Proofs about the UART, for buffers of any length, any delays and all    *)
(* drivers: every activity has the one job it needs, the registers follow  *)
(* the buffers, and interrupts keep their priority.                        *)
(***************************************************************************)
EXTENDS MPeripherals, WellFoundedInduction, FiniteSetTheorems, TLAPS

MaxTime == TIME_LIMIT + MaxDelay

Event == [job : Job, time : -1..MaxTime]

Uart ==
  [txbuf : Seq(Char), rxbuf : Seq(Char \cup {NoChar}), dll : {0, 1}, dlh : {0, 1},
   ier : SUBSET IerFlag, iir : Interrupt \cup {"NO_INT"}, trigger : Trigger,
   lcr : [dlab : BOOLEAN, sbc : BOOLEAN], mcr : SUBSET McrFlag, lsr : SUBSET LsrFlag,
   msr : SUBSET MsrFlag, txser : Char \cup {NoChar}, rxser : Char \cup {NoChar},
   loopback : Char \cup {NoChar}, ints : SUBSET Interrupt, char_clks : 0..3,
   fifo_len : {1, UART_MAX_FIFO_LEN}, irqPending : BOOLEAN, curTime : 0..TIME_LIMIT,
   events : Seq(Event), wrapped : BOOLEAN]

\* All but the interrupt registers.
Same(u, v) ==
  /\ v.txbuf = u.txbuf /\ v.rxbuf = u.rxbuf /\ v.dll = u.dll /\ v.dlh = u.dlh
  /\ v.ier = u.ier /\ v.trigger = u.trigger /\ v.lcr = u.lcr /\ v.mcr = u.mcr
  /\ v.lsr = u.lsr /\ v.msr = u.msr /\ v.txser = u.txser /\ v.rxser = u.rxser
  /\ v.loopback = u.loopback /\ v.char_clks = u.char_clks /\ v.fifo_len = u.fifo_len
  /\ v.curTime = u.curTime /\ v.wrapped = u.wrapped

-----------------------------------------------------------------------------
(* Lists of events.                                                        *)

Jobs(s) == {s[n].job : n \in DOMAIN s}

\* At most one event of the jobs.
Alone(jobs, s) == \A m, n \in DOMAIN s : s[m].job \in jobs /\ s[n].job \in jobs => m = n

\* A non-empty set of natural numbers has a least element.
LEMMA LeastNatural ==
  ASSUME NEW T, T \subseteq Nat, T # {}
  PROVE  \E x \in T : \A y \in T : x <= y
<1>1. IsWellFoundedOn(OpToRel(<, Nat), Nat)
  BY NatLessThanWellFounded
<1>2. PICK x \in T : \A y \in T : ~(<<y, x>> \in OpToRel(<, Nat))
  BY <1>1, WFMin
<1>3. \A y \in T : ~(y < x)
  BY <1>2 DEF OpToRel
<1> QED BY <1>3

\* Where SchedAdd puts an event.
Place(s, delay) == SelectInSeq(s, LAMBDA e : e.time > delay)

\* It is a place of the list, or none.
LEMMA PlaceFound ==
  ASSUME NEW s \in Seq(Event), NEW delay
  PROVE  Place(s, delay) \in 0..Len(s)
<1> DEFINE I == {n \in 1..Len(s) : s[n].time > delay}
<1>1. Place(s, delay) = IF I # {} THEN Min(I) ELSE 0
  BY DEF Place, SelectInSeq
<1>2. ASSUME I # {} PROVE Min(I) \in I
  <2>1. I \subseteq Nat
    OBVIOUS
  <2>2. \E x \in I : \A y \in I : x <= y
    BY <1>2, <2>1, LeastNatural
  <2> QED BY <2>2 DEF Min
<1> QED BY <1>1, <1>2

LEMMA Joined ==
  ASSUME NEW T, NEW a \in Seq(T), NEW b \in Seq(T)
  PROVE  /\ a \o b \in Seq(T) /\ Len(a \o b) = Len(a) + Len(b)
         /\ \A n \in 1..Len(a) : (a \o b)[n] = a[n]
         /\ \A n \in Len(a) + 1..Len(a) + Len(b) : (a \o b)[n] = b[n - Len(a)]
<1>1. a \o b \in Seq(T) /\ Len(a \o b) = Len(a) + Len(b)
  OBVIOUS
<1>2. \A n \in 1..Len(a) : (a \o b)[n] = a[n]
  OBVIOUS
<1>3. \A n \in Len(a) + 1..Len(a) + Len(b) : (a \o b)[n] = b[n - Len(a)]
  OBVIOUS
<1> QED BY <1>1, <1>2, <1>3

\* A list with an event put before one of its own, or at its end.
Put(s, k, e) == IF k = 0 THEN Append(s, e) ELSE InsertAt(s, k, e)

LEMMA Inserted ==
  ASSUME NEW s \in Seq(Event), NEW e \in Event, NEW k \in 0..Len(s)
  PROVE  /\ Put(s, k, e) \in Seq(Event) /\ Jobs(Put(s, k, e)) = Jobs(s) \cup {e.job}
         /\ \A jobs : Alone(jobs, s) /\ (e.job \notin jobs \/ jobs \cap Jobs(s) = {})
                        => Alone(jobs, Put(s, k, e))
<1> DEFINE r == Put(s, k, e)
           p == IF k = 0 THEN Len(s) + 1 ELSE k
<1>1. Len(s) \in Nat /\ p \in 1..Len(s) + 1 /\ p \in Int /\ DOMAIN s = 1..Len(s)
  OBVIOUS
<1>2. r = SubSeq(s, 1, p - 1) \o <<e>> \o SubSeq(s, p, Len(s))
  <2>1. CASE k = 0
    <3>1. SubSeq(s, 1, p - 1) = s /\ SubSeq(s, p, Len(s)) = <<>>
      BY <2>1
    <3> QED BY <2>1, <3>1 DEF Put
  <2>2. CASE k # 0
    BY <2>2 DEF InsertAt, Put
  <2> QED BY <2>1, <2>2
<1> HIDE DEF p, r
<1>3. SubSeq(s, 1, p - 1) \in Seq(Event) /\ Len(SubSeq(s, 1, p - 1)) = p - 1
      /\ \A n \in 1..p - 1 : SubSeq(s, 1, p - 1)[n] = s[n]
  BY <1>1
<1>4. SubSeq(s, p, Len(s)) \in Seq(Event) /\ Len(SubSeq(s, p, Len(s))) = Len(s) - p + 1
      /\ \A n \in 1..Len(s) - p + 1 : SubSeq(s, p, Len(s))[n] = s[p + n - 1]
  BY <1>1
<1> DEFINE a == SubSeq(s, 1, p - 1)
           b == SubSeq(s, p, Len(s))
<1> HIDE DEF a, b
<1>5. /\ r \in Seq(Event) /\ DOMAIN r = 1..Len(s) + 1 /\ r[p] = e
      /\ \A n \in 1..p - 1 : r[n] = s[n]
      /\ \A n \in p + 1..Len(s) + 1 : r[n] = s[n - 1]
  <2>1. r = a \o <<e>> \o b /\ a \in Seq(Event) /\ b \in Seq(Event) /\ Len(a) = p - 1 /\ Len(b) = Len(s) - p + 1
        /\ (\A n \in 1..p - 1 : a[n] = s[n]) /\ (\A n \in 1..Len(s) - p + 1 : b[n] = s[p + n - 1])
    BY <1>2, <1>3, <1>4 DEF a, b
  <2> DEFINE c == a \o <<e>>
  <2>2. <<e>> \in Seq(Event) /\ Len(<<e>>) = 1 /\ <<e>>[1] = e
    OBVIOUS
  <2>3. c \in Seq(Event) /\ Len(c) = Len(a) + 1 /\ (\A n \in 1..Len(a) : c[n] = a[n])
        /\ \A n \in Len(a) + 1..Len(a) + 1 : c[n] = <<e>>[n - Len(a)]
    BY <2>1, <2>2, Joined
  <2>4. Len(a) \in Nat /\ Len(a) + 1 = p
    BY <1>1, <2>1
  <2>5. c[p] = e
    <3>1. p \in Len(a) + 1..Len(a) + 1 /\ p - Len(a) = 1
      BY <2>4
    <3> QED BY <2>2, <2>3, <3>1
  <2> HIDE DEF c
  <2>6. /\ c \o b \in Seq(Event) /\ Len(c \o b) = Len(c) + Len(b)
        /\ \A n \in 1..Len(c) : (c \o b)[n] = c[n]
        /\ \A n \in Len(c) + 1..Len(c) + Len(b) : (c \o b)[n] = b[n - Len(c)]
    <3>1. c \in Seq(Event) /\ b \in Seq(Event)
      BY <2>1, <2>3
    <3> QED BY <3>1, Joined
  <2>7. r = c \o b
    BY <2>1 DEF c
  <2>8. Len(c) = p /\ Len(c) + Len(b) = Len(s) + 1 /\ Len(r) = Len(s) + 1
    <3>1. Len(c) = p
      BY <2>3, <2>4
    <3>2. Len(r) = Len(c) + Len(b)
      BY <2>6, <2>7
    <3>3. Len(b) = Len(s) - p + 1
      BY <2>1
    <3> QED BY <1>1, <3>1, <3>2, <3>3
  <2>9. \A n \in 1..p - 1 : n \in 1..p /\ n \in 1..Len(a)
    BY <1>1, <2>1
  <2>10. \A n \in p + 1..Len(s) + 1 : n - p \in 1..Len(s) - p + 1 /\ p + (n - p) - 1 = n - 1
    BY <1>1
  <2>11. p \in 1..p
    BY <1>1
  <2>12. \A n \in 1..p - 1 : r[n] = s[n]
    BY <2>1, <2>3, <2>6, <2>7, <2>8, <2>9
  <2>13. \A n \in p + 1..Len(s) + 1 : r[n] = s[n - 1]
    <3> SUFFICES ASSUME NEW n \in p + 1..Len(s) + 1 PROVE r[n] = s[n - 1]
      OBVIOUS
    <3>1. r[n] = b[n - Len(c)]
      BY <2>6, <2>7, <2>8
    <3>2. b[n - p] = s[p + (n - p) - 1]
      BY <2>1, <2>10
    <3> QED BY <2>8, <2>10, <3>1, <3>2
  <2>14. r[p] = e
    BY <2>5, <2>6, <2>7, <2>8, <2>11
  <2>15. r \in Seq(Event)
    BY <2>6, <2>7
  <2>16. DOMAIN r = 1..Len(s) + 1
    BY <2>8, <2>15
  <2> QED BY <2>12, <2>13, <2>14, <2>15, <2>16
<1>6. \A n \in DOMAIN r : n = p \/ (n \in 1..p - 1 /\ n \in DOMAIN s /\ r[n] = s[n])
                               \/ (n \in p + 1..Len(s) + 1 /\ n - 1 \in DOMAIN s /\ r[n] = s[n - 1])
  BY <1>1, <1>5
<1>7. \A n \in DOMAIN s : (n \in DOMAIN r /\ r[n] = s[n]) \/ (n + 1 \in DOMAIN r /\ r[n + 1] = s[n])
  <2> SUFFICES ASSUME NEW n \in DOMAIN s
               PROVE  (n \in DOMAIN r /\ r[n] = s[n]) \/ (n + 1 \in DOMAIN r /\ r[n + 1] = s[n])
    OBVIOUS
  <2>1. CASE n < p
    <3>1. n \in 1..p - 1 /\ n \in 1..Len(s) + 1
      BY <1>1, <2>1
    <3> QED BY <1>5, <3>1
  <2>2. CASE n >= p
    <3>1. n + 1 \in p + 1..Len(s) + 1 /\ (n + 1) - 1 = n
      BY <1>1, <2>2
    <3> QED BY <1>1, <1>5, <3>1
  <2> QED BY <1>1, <2>1, <2>2
<1>8. Jobs(r) = Jobs(s) \cup {e.job}
  <2>1. \A n \in DOMAIN r : r[n].job \in Jobs(s) \cup {e.job}
    BY <1>5, <1>6 DEF Jobs
  <2>2. \A n \in DOMAIN s : s[n].job \in Jobs(r)
    BY <1>7 DEF Jobs
  <2>3. p \in DOMAIN r /\ e.job \in Jobs(r)
    BY <1>1, <1>5 DEF Jobs
  <2> QED BY <2>1, <2>2, <2>3 DEF Jobs
<1>9. ASSUME NEW jobs, Alone(jobs, s), e.job \notin jobs \/ jobs \cap Jobs(s) = {}
      PROVE  Alone(jobs, r)
  <2> SUFFICES ASSUME NEW m \in DOMAIN r, NEW n \in DOMAIN r, r[m].job \in jobs, r[n].job \in jobs
               PROVE  m = n
    BY DEF Alone
  <2>1. CASE e.job \in jobs
    <3>1. \A i \in DOMAIN s : s[i].job \notin jobs
      BY <1>9, <2>1 DEF Jobs
    <3> QED BY <1>6, <3>1
  <2>2. CASE e.job \notin jobs
    <3>1. m # p /\ n # p
      BY <1>5, <2>2
    <3>2. CASE m < p /\ n < p
      BY <1>1, <1>5, <1>6, <1>9, <3>1, <3>2 DEF Alone
    <3>3. CASE m > p /\ n > p
      <4>1. m - 1 \in DOMAIN s /\ n - 1 \in DOMAIN s /\ r[m] = s[m - 1] /\ r[n] = s[n - 1]
        BY <1>1, <1>5, <1>6, <3>3
      <4>2. m - 1 = n - 1
        BY <1>9, <4>1 DEF Alone
      <4> QED BY <1>5, <4>2
    <3>4. CASE m < p /\ n > p
      <4>1. m \in DOMAIN s /\ n - 1 \in DOMAIN s /\ r[m] = s[m] /\ r[n] = s[n - 1]
        BY <1>1, <1>5, <1>6, <3>4
      <4>2. m = n - 1
        BY <1>9, <4>1 DEF Alone
      <4> QED BY <1>1, <1>5, <3>4, <4>2
    <3>5. CASE m > p /\ n < p
      <4>1. n \in DOMAIN s /\ m - 1 \in DOMAIN s /\ r[n] = s[n] /\ r[m] = s[m - 1]
        BY <1>1, <1>5, <1>6, <3>5
      <4>2. n = m - 1
        BY <1>9, <4>1 DEF Alone
      <4> QED BY <1>1, <1>5, <3>5, <4>2
    <3> QED BY <1>1, <1>5, <3>1, <3>2, <3>3, <3>4, <3>5
  <2> QED BY <2>1, <2>2
<1> QED BY <1>5, <1>8, <1>9 DEF r

\* The function by which Without goes through a list.
LeftIs(f, s, job, last) ==
  f = [n \in 0..last |->
         IF n = 0 THEN <<>>
         ELSE IF s[n].job = job THEN f[n - 1] ELSE Append(f[n - 1], s[n])]

LEMMA LeftDefined ==
  ASSUME NEW s, NEW job
  PROVE  \A last \in Nat : \E f : LeftIs(f, s, job, last)
<1> DEFINE T == {last \in Nat : ~\E f : LeftIs(f, s, job, last)}
<1>1. SUFFICES ASSUME T # {} PROVE FALSE
  OBVIOUS
<1>2. PICK last \in T : \A m \in T : last <= m
  <2>1. T \subseteq Nat
    OBVIOUS
  <2> QED BY <1>1, <2>1, LeastNatural
<1>3. CASE last = 0
  <2>1. LeftIs([n \in 0..0 |-> <<>>], s, job, 0)
    BY DEF LeftIs
  <2> QED BY <1>2, <1>3, <2>1
<1>4. CASE last # 0
  <2>1. last - 1 \in Nat /\ last - 1 \notin T /\ last \in Nat
    BY <1>2, <1>4
  <2>2. PICK f : LeftIs(f, s, job, last - 1)
    BY <2>1
  <2> DEFINE next == IF s[last].job = job THEN f[last - 1] ELSE Append(f[last - 1], s[last])
             g == [n \in 0..last |-> IF n = last THEN next ELSE f[n]]
  <2>3. ASSUME NEW n \in 0..last
        PROVE  g[n] = IF n = 0 THEN <<>>
                      ELSE IF s[n].job = job THEN g[n - 1] ELSE Append(g[n - 1], s[n])
    <3>1. CASE n = last
      <4>1. last - 1 \in 0..last /\ last - 1 # last /\ g[last - 1] = f[last - 1]
        BY <2>1
      <4> QED BY <1>4, <3>1, <4>1
    <3>2. CASE n # last
      <4>1. n \in 0..last - 1 /\ g[n] = f[n]
        BY <2>1, <3>2
      <4>2. n # 0 => n - 1 \in 0..last /\ n - 1 # last /\ g[n - 1] = f[n - 1]
        BY <2>1, <3>2
      <4>3. f[n] = IF n = 0 THEN <<>>
                   ELSE IF s[n].job = job THEN f[n - 1] ELSE Append(f[n - 1], s[n])
        BY <2>2, <4>1 DEF LeftIs
      <4> HIDE DEF g
      <4> QED BY <4>1, <4>2, <4>3
    <3> QED BY <3>1, <3>2
  <2>4. LeftIs(g, s, job, last)
    <3>1. g = [n \in 0..last |-> g[n]]
      OBVIOUS
    <3> HIDE DEF g
    <3> QED BY <2>3, <3>1 DEF LeftIs
  <2> QED BY <1>2, <2>4
<1> QED BY <1>3, <1>4

\* SchedFindRemove: what is left of a list.
LEMMA WithoutLeft ==
  ASSUME NEW s \in Seq(Event), NEW job
  PROVE  /\ Without(s, job) \in Seq(Event) /\ Jobs(Without(s, job)) = Jobs(s) \ {job}
         /\ \A jobs : Alone(jobs, s) => Alone(jobs, Without(s, job))
<1> DEFINE f == CHOOSE g : LeftIs(g, s, job, Len(s))
           Before(n) == {s[m].job : m \in 1..n}
           Right(n) == /\ f[n] \in Seq(Event) /\ Jobs(f[n]) = Before(n) \ {job}
                       /\ \A jobs : Alone(jobs, s) => Alone(jobs, f[n])
           T == {n \in 0..Len(s) : ~Right(n)}
<1>1. Len(s) \in Nat /\ DOMAIN s = 1..Len(s) /\ \A n \in 1..Len(s) : s[n] \in Event
  OBVIOUS
<1>2. LeftIs(f, s, job, Len(s))
  BY <1>1, LeftDefined
<1>3. Without(s, job) = f[Len(s)]
  BY DEF Without, LeftIs
<1> HIDE DEF f
<1>4. /\ f[0] = <<>>
      /\ \A n \in 1..Len(s) :
           f[n] = IF s[n].job = job THEN f[n - 1] ELSE Append(f[n - 1], s[n])
  <2>1. \A n \in 0..Len(s) :
          f[n] = IF n = 0 THEN <<>>
                 ELSE IF s[n].job = job THEN f[n - 1] ELSE Append(f[n - 1], s[n])
    BY <1>2 DEF LeftIs
  <2> QED BY <1>1, <2>1
<1>5. Right(0)
  BY <1>4 DEF Jobs, Alone
<1>6. ASSUME NEW n \in 1..Len(s), Right(n - 1) PROVE Right(n)
  <2>1. Before(n) = Before(n - 1) \cup {s[n].job}
    <3>1. \A m \in 1..n : m \in 1..n - 1 \/ m = n
      BY <1>1
    <3>2. \A m \in 1..n - 1 : m \in 1..n
      BY <1>1
    <3>3. n \in 1..n
      BY <1>1
    <3> QED BY <3>1, <3>2, <3>3
  <2>2. CASE s[n].job = job
    BY <1>4, <1>6, <2>1, <2>2
  <2>3. CASE s[n].job # job
    <3>1. f[n] = Put(f[n - 1], 0, s[n]) /\ s[n] \in Event /\ 0 \in 0..Len(f[n - 1])
      <4>1. f[n] = Put(f[n - 1], 0, s[n]) /\ s[n] \in Event
        BY <1>1, <1>4, <2>3 DEF Put
      <4>2. Len(f[n - 1]) \in Nat
        BY <1>6
      <4> QED BY <4>1, <4>2
    <3>2. f[n] \in Seq(Event) /\ Jobs(f[n]) = Jobs(f[n - 1]) \cup {s[n].job}
      <4>1. f[n - 1] \in Seq(Event)
        BY <1>6
      <4> DEFINE g == f[n - 1]
      <4>2. g \in Seq(Event) /\ 0 \in 0..Len(g) /\ s[n] \in Event /\ f[n] = Put(g, 0, s[n])
        BY <3>1, <4>1
      <4> HIDE DEF g
      <4>3. Put(g, 0, s[n]) \in Seq(Event) /\ Jobs(Put(g, 0, s[n])) = Jobs(g) \cup {s[n].job}
        BY <4>2, Inserted
      <4> QED BY <4>2, <4>3 DEF g
    <3>3. ASSUME NEW jobs, Alone(jobs, s) PROVE Alone(jobs, f[n])
      <4>1. s[n].job \in jobs => jobs \cap Before(n - 1) = {}
        <5>1. \A m \in 1..n - 1 : m \in DOMAIN s /\ n \in DOMAIN s /\ m # n
          BY <1>1
        <5> QED BY <3>3, <5>1 DEF Alone
      <4>2. s[n].job \notin jobs \/ jobs \cap Jobs(f[n - 1]) = {}
        BY <1>6, <4>1
      <4>3. f[n - 1] \in Seq(Event) /\ Alone(jobs, f[n - 1])
        BY <1>6, <3>3
      <4> QED BY <3>1, <4>2, <4>3, Inserted
    <3> QED BY <1>6, <2>1, <2>3, <3>2, <3>3
  <2> QED BY <2>2, <2>3
<1>7. T = {}
  <2>1. SUFFICES ASSUME T # {} PROVE FALSE
    OBVIOUS
  <2>2. T \subseteq Nat
    BY <1>1
  <2>3. PICK n \in T : \A m \in T : n <= m
    BY <2>1, <2>2, LeastNatural
  <2>4. n \in 0..Len(s) /\ ~Right(n)
    BY <2>3
  <2> HIDE DEF Right
  <2>5. n # 0
    BY <1>5, <2>4
  <2>6. n \in 1..Len(s) /\ n - 1 \in 0..Len(s) /\ ~(n <= n - 1)
    BY <1>1, <2>4, <2>5
  <2>7. Right(n - 1)
    BY <2>3, <2>6
  <2> QED BY <1>6, <2>4, <2>6, <2>7
<1>8. Right(Len(s))
  <2>1. Len(s) \in 0..Len(s)
    BY <1>1
  <2> QED BY <1>7, <2>1
<1>9. Before(Len(s)) = Jobs(s)
  BY <1>1 DEF Jobs
<1> QED BY <1>3, <1>8, <1>9

\* A list without its first event.
LEMMA TailLeft ==
  ASSUME NEW s \in Seq(Event), s # <<>>
  PROVE  /\ Tail(s) \in Seq(Event) /\ Head(s) \in Event
         /\ Jobs(Tail(s)) \subseteq Jobs(s) /\ Jobs(s) = Jobs(Tail(s)) \cup {Head(s).job}
         /\ \A jobs : Alone(jobs, s) => Alone(jobs, Tail(s))
         /\ \A jobs : Alone(jobs, s) /\ Head(s).job \in jobs => jobs \cap Jobs(Tail(s)) = {}
<1>1. /\ Tail(s) \in Seq(Event) /\ Len(Tail(s)) = Len(s) - 1 /\ Len(s) \in Nat /\ Len(s) > 0
      /\ Head(s) = s[1] /\ s[1] \in Event
  OBVIOUS
<1>2. DOMAIN s = 1..Len(s) /\ DOMAIN Tail(s) = 1..Len(s) - 1
  BY <1>1
<1>3. \A n \in DOMAIN Tail(s) : Tail(s)[n] = s[n + 1] /\ n + 1 \in DOMAIN s /\ n + 1 # 1 /\ n \in Int
  BY <1>1, <1>2
<1>4. \A n \in DOMAIN s : n = 1 \/ (n - 1 \in DOMAIN Tail(s) /\ Tail(s)[n - 1] = s[n])
  <2> SUFFICES ASSUME NEW n \in DOMAIN s, n # 1
               PROVE  n - 1 \in DOMAIN Tail(s) /\ Tail(s)[n - 1] = s[n]
    OBVIOUS
  <2>1. n - 1 \in DOMAIN Tail(s) /\ (n - 1) + 1 = n
    BY <1>1, <1>2
  <2> QED BY <1>3, <2>1
<1>5. 1 \in DOMAIN s
  BY <1>1, <1>2
<1>6. Jobs(Tail(s)) \subseteq Jobs(s)
  BY <1>3 DEF Jobs
<1>7. Jobs(s) = Jobs(Tail(s)) \cup {Head(s).job}
  <2>1. \A n \in DOMAIN s : s[n].job \in Jobs(Tail(s)) \cup {Head(s).job}
    BY <1>1, <1>4 DEF Jobs
  <2>2. Head(s).job \in Jobs(s)
    BY <1>1, <1>5 DEF Jobs
  <2> QED BY <1>6, <2>1, <2>2 DEF Jobs
<1>8. ASSUME NEW jobs, Alone(jobs, s) PROVE Alone(jobs, Tail(s))
  <2> SUFFICES ASSUME NEW m \in DOMAIN Tail(s), NEW n \in DOMAIN Tail(s),
                      Tail(s)[m].job \in jobs, Tail(s)[n].job \in jobs
               PROVE  m = n
    BY DEF Alone
  <2>1. m + 1 = n + 1
    BY <1>3, <1>8 DEF Alone
  <2> QED BY <1>3, <2>1
<1>9. ASSUME NEW jobs, Alone(jobs, s), Head(s).job \in jobs PROVE jobs \cap Jobs(Tail(s)) = {}
  BY <1>1, <1>3, <1>5, <1>9 DEF Alone, Jobs
<1> QED BY <1>1, <1>6, <1>7, <1>8, <1>9

\* A list with one more event, and one without those of a job.
Added(s, r, job) ==
  /\ Jobs(r) = Jobs(s) \cup {job}
  /\ \A jobs : Alone(jobs, s) /\ (job \notin jobs \/ jobs \cap Jobs(s) = {}) => Alone(jobs, r)

Cut(s, r, job) == /\ Jobs(r) = Jobs(s) \ {job}
                  /\ \A jobs : Alone(jobs, s) => Alone(jobs, r)

-----------------------------------------------------------------------------
(* Interrupts and events, the parts the operations are made of.            *)

Pending(u) == u.irqPending <=> u.iir # "NO_INT"

Covered(u) == \A i \in Raised(u) : Urgency(u.iir) >= Urgency(i)

\* A UART with the line set while enabled interrupts wait, and none of them more
\* urgent than the one in IIR.
Good(u) == u \in Uart /\ Pending(u) /\ Covered(u)

\* An interrupt that may be reported over another is at least as urgent, and one
\* that may not be is at most as urgent.
LEMMA Urgencies ==
  /\ \A i, j \in Interrupt : j \in Overridden(i) => Urgency(i) >= Urgency(j)
  /\ \A i, j \in Interrupt : j \notin Overridden(i) => Urgency(j) >= Urgency(i)
  /\ \A i \in Interrupt : "NO_INT" \in Overridden(i) /\ Urgency(i) > 0
  /\ \A i \in Interrupt \cup {"NO_INT"} : Urgency(i) \in Nat
  /\ Urgency("NO_INT") = 0
BY DEF Interrupt, Overridden, Urgency

\* uart_int_msi and the like.
LEMMA IntMade ==
  ASSUME NEW u \in Uart, NEW i \in Interrupt, NEW v, v = uart_int(u, i)
  PROVE  /\ v \in Uart /\ Same(u, v) /\ v.events = u.events /\ v.ints = u.ints \cup {i}
         /\ v.iir \in {u.iir, i}
         /\ Pending(u) => Pending(v)
         /\ Good(u) => Good(v)
<1>1. CASE Enable(i) \in u.ier /\ u.iir \in Overridden(i)
  <2>1. v = [u EXCEPT !.ints = u.ints \cup {i}, !.iir = i, !.irqPending = TRUE]
    BY <1>1 DEF uart_int, Uart
  <2>2. u.ints \cup {i} \in SUBSET Interrupt
    BY DEF Uart
  <2>3. v \in Uart /\ Same(u, v) /\ v.events = u.events
    <3>1. v \in Uart
      BY <2>1, <2>2, Zenon DEF Uart
    <3>2. Same(u, v)
      BY <2>1, Zenon DEF Uart, Same
    <3>3. v.events = u.events
      BY <2>1, Zenon DEF Uart
    <3> QED BY <3>1, <3>2, <3>3
  <2>4. v.ints = u.ints \cup {i} /\ v.iir = i /\ v.irqPending = TRUE
    BY <2>1, <2>2, Zenon DEF Uart
  <2>5. Pending(v)
    BY <2>4 DEF Pending, Interrupt
  <2>6. ASSUME Good(u) PROVE Covered(v)
    <3> SUFFICES ASSUME NEW j \in Raised(v) PROVE Urgency(i) >= Urgency(j)
      BY <2>4 DEF Covered
    <3>1. j = i \/ j \in Raised(u)
      BY <2>3, <2>4 DEF Raised, Same
    <3>2. u.iir \in Interrupt \cup {"NO_INT"} /\ j \in Interrupt
      BY <2>3, <3>1 DEF Uart, Raised
    <3>3. Urgency(i) >= Urgency(u.iir)
      BY <1>1, <3>2, Urgencies
    <3> QED BY <2>6, <3>1, <3>2, <3>3, Urgencies DEF Good, Covered
  <2> QED BY <2>3, <2>4, <2>5, <2>6 DEF Good
<1>2. CASE ~(Enable(i) \in u.ier /\ u.iir \in Overridden(i))
  <2>1. v = [u EXCEPT !.ints = u.ints \cup {i}]
    BY <1>2 DEF uart_int
  <2>2. u.ints \cup {i} \in SUBSET Interrupt
    BY DEF Uart
  <2>3. v \in Uart /\ Same(u, v) /\ v.events = u.events
    <3>1. v \in Uart
      BY <2>1, <2>2, Zenon DEF Uart
    <3>2. Same(u, v)
      BY <2>1, Zenon DEF Uart, Same
    <3>3. v.events = u.events
      BY <2>1, Zenon DEF Uart
    <3> QED BY <3>1, <3>2, <3>3
  <2>4. v.ints = u.ints \cup {i} /\ v.iir = u.iir /\ (v.irqPending <=> u.irqPending)
    BY <2>1, <2>2, Zenon DEF Uart
  <2>5. Pending(u) => Pending(v)
    BY <2>4 DEF Pending
  <2>6. ASSUME Good(u) PROVE Covered(v)
    <3> SUFFICES ASSUME NEW j \in Raised(v) PROVE Urgency(u.iir) >= Urgency(j)
      BY <2>4 DEF Covered
    <3>1. j \in Raised(u) \/ (j = i /\ Enable(i) \in u.ier)
      BY <2>3, <2>4 DEF Raised, Same
    <3>2. u.iir \in Interrupt \cup {"NO_INT"}
      BY DEF Uart
    <3>3. j = i /\ Enable(i) \in u.ier => Urgency(u.iir) >= Urgency(j)
      BY <1>2, <3>2, Urgencies
    <3> QED BY <2>6, <3>1, <3>3 DEF Good, Covered
  <2> QED BY <2>3, <2>4, <2>5, <2>6 DEF Good
<1> QED BY <1>1, <1>2

\* uart_check_rlsi and uart_check_rdi.
LEMMA Checked ==
  ASSUME NEW u, Good(u)
  PROVE  /\ Good(uart_check_rlsi(u)) /\ Same(u, uart_check_rlsi(u))
         /\ uart_check_rlsi(u).events = u.events
         /\ uart_check_rlsi(u).ints = u.ints \cup (IF "OVRRUN" \in u.lsr THEN {"RLSI"} ELSE {})
         /\ Good(uart_check_rdi(u)) /\ Same(u, uart_check_rdi(u))
         /\ uart_check_rdi(u).events = u.events
         /\ uart_check_rdi(u).ints \in {u.ints, u.ints \cup {"RDI"}}
<1>1. u \in Uart /\ Same(u, u) /\ "RLSI" \in Interrupt /\ "RDI" \in Interrupt
  BY DEF Good, Same, Interrupt
<1> QED BY <1>1, IntMade DEF uart_check_rlsi, uart_check_rdi

\* uart_next_int: the most urgent of the interrupts raised.
LEMMA NextInt ==
  ASSUME NEW u \in Uart, Pending(u), NEW v, v = uart_next_int(u)
  PROVE  Good(v) /\ Same(u, v) /\ v.events = u.events /\ v.ints = u.ints
<1> DEFINE s == <<"RLSI", "RDI", "CTI", "THRI", "MSI">>
           I == {n \in 1..5 : s[n] \in Raised(u)}
           next == SelectInSeq(s, LAMBDA i : i \in Raised(u))
<1>1. Len(s) = 5 /\ \A n \in 1..5 : s[n] \in Interrupt
  BY DEF Interrupt
<1>2. next = IF I # {} THEN Min(I) ELSE 0
  BY <1>1 DEF SelectInSeq
<1>3. \A i \in Raised(u) : i \in u.ints /\ i \in Interrupt /\ Enable(i) \in u.ier
  BY DEF Raised, Uart
<1>4. \A i \in Interrupt : \E n \in 1..5 : i = s[n]
  <2>1. s[1] = "RLSI" /\ s[2] = "RDI" /\ s[3] = "CTI" /\ s[4] = "THRI" /\ s[5] = "MSI"
    OBVIOUS
  <2> HIDE DEF s
  <2> QED BY <2>1 DEF Interrupt
<1>5. \A m, n \in 1..5 : m <= n => Urgency(s[m]) >= Urgency(s[n])
  <2>1. /\ Urgency(s[1]) = 5 /\ Urgency(s[2]) = 4 /\ Urgency(s[3]) = 3 /\ Urgency(s[4]) = 2
        /\ Urgency(s[5]) = 1
    BY DEF Urgency
  <2> HIDE DEF s
  <2> QED BY <2>1
<1> HIDE DEF s
<1>6. CASE I = {}
  <2>1. next = 0
    BY <1>2, <1>6
  <2>2. v = [u EXCEPT !.iir = "NO_INT", !.irqPending = FALSE]
    BY <2>1 DEF uart_next_int, s
  <2>3. v \in Uart
    BY <2>2, Zenon DEF Uart
  <2>4. Same(u, v)
    BY <2>2, Zenon DEF Uart, Same
  <2>5. v.events = u.events /\ v.ints = u.ints /\ v.iir = "NO_INT" /\ v.irqPending = FALSE
    BY <2>2, Zenon DEF Uart
  <2>6. Raised(v) = {}
    <3>1. Raised(v) = Raised(u)
      BY <2>4, <2>5 DEF Raised, Same
    <3> QED BY <1>3, <1>4, <1>6, <3>1
  <2> QED BY <2>3, <2>4, <2>5, <2>6 DEF Good, Pending, Covered
<1>7. CASE I # {}
  <2>1. next \in I /\ \A n \in I : next <= n
    <3>1. I \subseteq Nat
      OBVIOUS
    <3>2. \E x \in I : \A y \in I : x <= y
      BY <1>7, <3>1, LeastNatural
    <3> QED BY <1>2, <1>7, <3>2 DEF Min
  <2> DEFINE i == s[next]
  <2>2. next \in 1..5 /\ next # 0 /\ i \in Raised(u)
    BY <2>1
  <2>3. v = uart_int(u, i)
    <3>1. next # 0
      BY <2>2
    <3> QED BY <3>1 DEF uart_next_int, s
  <2>4. i \in Interrupt /\ i \in u.ints /\ Enable(i) \in u.ier
    BY <1>3, <2>2
  <2>5. \A j \in Raised(u) : Urgency(i) >= Urgency(j)
    <3> SUFFICES ASSUME NEW j \in Raised(u) PROVE Urgency(i) >= Urgency(j)
      OBVIOUS
    <3>1. PICK n \in 1..5 : j = s[n]
      BY <1>3, <1>4
    <3>2. n \in I /\ next <= n
      BY <2>1, <3>1
    <3> QED BY <1>5, <2>2, <3>1, <3>2
  <2> HIDE DEF i, next, I
  <2>6. /\ v \in Uart /\ Same(u, v) /\ v.events = u.events /\ v.ints = u.ints \cup {i}
        /\ Pending(v)
    BY <2>3, <2>4, IntMade
  <2>7. v.ints = u.ints /\ Raised(v) = Raised(u)
    BY <2>4, <2>6 DEF Raised, Same
  <2>8. Urgency(v.iir) >= Urgency(i)
    <3>1. u.iir \in Interrupt \cup {"NO_INT"}
      BY DEF Uart
    <3>2. CASE u.iir \in Overridden(i)
      <4>1. v = [u EXCEPT !.ints = @ \cup {i}, !.iir = i, !.irqPending = TRUE]
        BY <2>3, <2>4, <3>2 DEF uart_int, Uart
      <4>2. v.iir = i
        BY <4>1, Zenon DEF Uart
      <4> QED BY <2>4, <4>2, Urgencies
    <3>3. CASE u.iir \notin Overridden(i)
      <4>1. v = [u EXCEPT !.ints = @ \cup {i}]
        BY <2>3, <3>3 DEF uart_int
      <4>2. v.iir = u.iir /\ u.iir \in Interrupt
        <5>1. v.iir = u.iir
          BY <4>1, Zenon DEF Uart
        <5> QED BY <2>4, <3>1, <3>3, <5>1, Urgencies
      <4> QED BY <2>4, <3>3, <4>2, Urgencies
    <3> QED BY <3>2, <3>3
  <2>9. Covered(v)
    <3> SUFFICES ASSUME NEW j \in Raised(u) PROVE Urgency(v.iir) >= Urgency(j)
      BY <2>7 DEF Covered
    <3>1. Urgency(i) \in Nat /\ Urgency(j) \in Nat /\ Urgency(v.iir) \in Nat
      <4>1. v.iir \in Interrupt \cup {"NO_INT"} /\ i \in Interrupt \cup {"NO_INT"} /\ j \in Interrupt \cup {"NO_INT"}
        BY <1>3, <2>4, <2>6 DEF Uart
      <4> QED BY <4>1, Urgencies
    <3> QED BY <2>5, <2>8, <3>1
  <2> QED BY <2>6, <2>7, <2>9 DEF Good
<1> QED BY <1>6, <1>7

\* With other events, the registers are as good as before.
WithEvents(u, s) == [u EXCEPT !.events = s]

LEMMA EventsSet ==
  ASSUME NEW u \in Uart, NEW s \in Seq(Event)
  PROVE  /\ WithEvents(u, s) \in Uart /\ Same(u, WithEvents(u, s))
         /\ WithEvents(u, s).events = s /\ WithEvents(u, s).ints = u.ints
         /\ WithEvents(u, s).iir = u.iir /\ (Pending(u) => Pending(WithEvents(u, s)))
         /\ (Good(u) => Good(WithEvents(u, s)))
<1> DEFINE v == WithEvents(u, s)
<1>0. v = [u EXCEPT !.events = s]
  BY DEF WithEvents
<1> HIDE DEF v
<1>1. v \in Uart
  BY <1>0, Zenon DEF Uart
<1>2. Same(u, v)
  BY <1>0, Zenon DEF Uart, Same
<1>3. v.events = s /\ v.ints = u.ints /\ v.iir = u.iir /\ (v.irqPending <=> u.irqPending)
  BY <1>0, Zenon DEF Uart
<1>4. Raised(v) = Raised(u)
  BY <1>2, <1>3 DEF Same, Raised
<1> QED BY <1>1, <1>2, <1>3, <1>4 DEF v, Good, Pending, Covered

\* Clearing an interrupt.
LEMMA IntCleared ==
  ASSUME NEW u, Good(u), NEW i \in Interrupt, NEW v, v = uart_clear_int(u, i)
  PROVE  /\ Good(v) /\ Same(u, v) /\ v.ints = u.ints \ {i}
         /\ i = "CTI" => Cut(u.events, v.events, "int_cti")
         /\ i # "CTI" => v.events = u.events
<1> DEFINE x == [u EXCEPT !.ints = @ \ {i}]
           w == IF i = "CTI" THEN SchedFindRemove(x, "int_cti") ELSE x
<1>1. u \in Uart /\ u.events \in Seq(Event) /\ u.ints \in SUBSET Interrupt
  BY DEF Good, Uart
<1>2. /\ x \in Uart /\ Same(u, x) /\ x.events = u.events /\ x.ints = u.ints \ {i}
      /\ x.iir = u.iir /\ (Pending(u) => Pending(x)) /\ (Good(u) => Good(x))
  <2>1. x = [u EXCEPT !.ints = u.ints \ {i}]
    OBVIOUS
  <2> HIDE DEF x
  <2>2. u.ints \ {i} \in SUBSET Interrupt
    BY <1>1
  <2>3. x \in Uart
    BY <1>1, <2>1, <2>2, Zenon DEF Uart
  <2>4. Same(u, x)
    BY <1>1, <2>1, Zenon DEF Uart, Same
  <2>5. x.events = u.events /\ x.ints = u.ints \ {i} /\ x.iir = u.iir
        /\ (x.irqPending <=> u.irqPending)
    BY <1>1, <2>1, Zenon DEF Uart
  <2>6. Raised(x) \subseteq Raised(u)
    BY <2>4, <2>5 DEF Same, Raised
  <2> QED BY <2>3, <2>4, <2>5, <2>6 DEF Good, Pending, Covered
<1> HIDE DEF x
<1>3. /\ w \in Uart /\ Same(x, w) /\ w.ints = x.ints /\ (Pending(x) => Pending(w))
      /\ (Good(x) => Good(w))
      /\ w.events = IF i = "CTI" THEN Without(x.events, "int_cti") ELSE x.events
  <2>1. CASE i = "CTI"
    <3>1. w = WithEvents(x, Without(x.events, "int_cti"))
      BY <2>1 DEF SchedFindRemove, WithEvents
    <3>2. Without(x.events, "int_cti") \in Seq(Event)
      BY <1>1, <1>2, WithoutLeft
    <3> HIDE DEF w
    <3> QED BY <1>2, <2>1, <3>1, <3>2, EventsSet
  <2>2. CASE i # "CTI"
    <3>1. w = x /\ Same(x, x)
      BY <2>2 DEF Same
    <3> QED BY <1>2, <2>2, <3>1
  <2> QED BY <2>1, <2>2
<1>4. v = IF u.iir = i THEN uart_next_int(w) ELSE w
  BY DEF uart_clear_int, x
<1> HIDE DEF w
<1>5. Good(w) /\ Pending(w)
  BY <1>2, <1>3 DEF Good
<1>6. Good(v) /\ Same(w, v) /\ v.events = w.events /\ v.ints = w.ints
  <2>1. Same(w, w)
    BY DEF Same
  <2> QED BY <1>3, <1>4, <1>5, <2>1, NextInt
<1>7. Same(u, v)
  BY <1>2, <1>3, <1>6 DEF Same
<1>8. CASE i = "CTI"
  <2>1. v.events = Without(u.events, "int_cti")
    BY <1>2, <1>3, <1>6, <1>8
  <2>2. Cut(u.events, v.events, "int_cti")
    BY <1>1, <2>1, WithoutLeft DEF Cut
  <2> QED BY <1>2, <1>3, <1>6, <1>7, <1>8, <2>2
<1>9. CASE i # "CTI"
  BY <1>2, <1>3, <1>6, <1>7, <1>9
<1> QED BY <1>8, <1>9

\* SchedAdd, for the delays of the code.
LEMMA Scheduled ==
  ASSUME NEW u, Good(u), NEW job \in Job, NEW delay \in 0..MaxDelay,
         NEW v, v = SchedAdd(u, job, delay)
  PROVE  /\ Good(v) /\ Same(u, v) /\ v.ints = u.ints
         /\ Added(u.events, v.events, job)
<1> DEFINE later == Place(u.events, delay)
           event == [job |-> job, time |-> u.curTime + delay]
           s == Put(u.events, later, event)
<1>1. u \in Uart /\ u.events \in Seq(Event) /\ u.curTime \in 0..TIME_LIMIT
  BY DEF Good, Uart
<1>2. event \in Event /\ event.job = job
  <2>1. TIME_LIMIT \in Nat /\ MaxDelay \in Nat
    BY UartAssumption DEF MaxDelay
  <2>2. u.curTime + delay \in -1..MaxTime
    BY <1>1, <2>1 DEF MaxTime
  <2> QED BY <2>2 DEF Event
<1>3. later \in 0..Len(u.events)
  BY <1>1, PlaceFound
<1>4. v = WithEvents(u, s)
  BY <1>1 DEF SchedAdd, Place, SelectInSeq, Put, WithEvents
<1> HIDE DEF later, event
<1>5. /\ s \in Seq(Event) /\ Jobs(s) = Jobs(u.events) \cup {job}
      /\ \A jobs : Alone(jobs, u.events) /\ (job \notin jobs \/ jobs \cap Jobs(u.events) = {})
                     => Alone(jobs, s)
  BY <1>1, <1>2, <1>3, Inserted
<1> HIDE DEF s
<1>6. Added(u.events, s, job)
  BY <1>5 DEF Added
<1> QED BY <1>1, <1>4, <1>5, <1>6, EventsSet

\* SchedFindRemove.
LEMMA Removed ==
  ASSUME NEW u, Good(u), NEW job, NEW v, v = SchedFindRemove(u, job)
  PROVE  /\ Good(v) /\ Same(u, v) /\ v.ints = u.ints
         /\ Cut(u.events, v.events, job)
<1>1. u \in Uart /\ u.events \in Seq(Event)
  BY DEF Good, Uart
<1>2. v = WithEvents(u, Without(u.events, job))
  BY DEF SchedFindRemove, WithEvents
<1>3. Without(u.events, job) \in Seq(Event) /\ Cut(u.events, Without(u.events, job), job)
  BY <1>1, WithoutLeft DEF Cut
<1> QED BY <1>1, <1>2, <1>3, EventsSet

-----------------------------------------------------------------------------
(* The inductive invariant.                                                *)

Tx == {"tx_send", "char_clock", "send_break"}
Rx == {"recv_char", "check_char"}
Cti == {"int_cti"}

\* The job of the transmitter: while a character is in the shift register its
\* clock or its break, before that the start of it.
TxJobs(u) ==
  IF "TXSERE" \notin u.lsr THEN IF u.lcr.sbc THEN {"send_break"} ELSE {"char_clock"}
  ELSE IF u.txbuf # <<>> THEN {"tx_send"} ELSE {}

TxRight(u) == Alone(Tx, u.events) /\ Tx \cap Jobs(u.events) = TxJobs(u) /\ u.wrapped = FALSE

RxRight(u) == Alone(Rx, u.events)

CtiRight(u) ==
  /\ Alone(Cti, u.events)
  /\ "CTI" \in u.ints \/ "int_cti" \in Jobs(u.events) => u.rxbuf # <<>>

Fits(u) == Len(u.txbuf) <= u.fifo_len /\ Len(u.rxbuf) <= u.fifo_len

LsrRight(u) ==
  /\ "RDRDY" \in u.lsr <=> u.rxbuf # <<>>
  /\ "TXBUFE" \in u.lsr <=> u.txbuf = <<>>
  /\ "OVRRUN" \in u.lsr <=> "RLSI" \in u.ints

ClocksRight(u) == ~u.lcr.dlab => u.char_clks = char_clks(u)

Right(u) ==
  Good(u) /\ TxRight(u) /\ RxRight(u) /\ CtiRight(u) /\ Fits(u) /\ LsrRight(u) /\ ClocksRight(u)

Receives(u) == Rx \cap Jobs(u.events) # {}

\* What a driver keeps to holds until its request is executed.
Kept(u, we, byte) ==
  /\ Addressed(u, byte.reg)
  /\ we /\ byte.reg = "LCR" /\ u.lcr.sbc /\ ~byte.value.sbc => Drained(u)

UartInv ==
  /\ workload \in Workloads /\ slave \in {"top", "transfer", "acked"} /\ simulating \in BOOLEAN
  /\ Right(uart)
  /\ "error" \notin workload.input => Receives(uart)
  /\ request \in Requests \cup {NoRequest}
  /\ slave # "acked" => \A n \in DOMAIN request.bytes : Kept(uart, request.we, request.bytes[n])

\* The delays of the events.
LEMMA Delays ==
  ASSUME NEW u \in Uart
  PROVE  /\ 0 \in 0..MaxDelay /\ u.char_clks \in 0..MaxDelay /\ CHECK_DELAY \in 0..MaxDelay
         /\ CHAR_TIMEOUT * u.char_clks \in 0..MaxDelay
<1>1. u.char_clks \in 0..3 /\ CHECK_DELAY \in Nat \ {0} /\ CHAR_TIMEOUT \in Nat \ {0}
  BY UartAssumption DEF Uart
<1>2. u.char_clks = 0 \/ u.char_clks = 1 \/ u.char_clks = 2 \/ u.char_clks = 3
  BY <1>1
<1>3. CHAR_TIMEOUT * u.char_clks \in 0..3 * CHAR_TIMEOUT
  BY <1>1, <1>2
<1> QED BY <1>1, <1>3 DEF MaxDelay

\* What Good depends on.
LEMMA GoodKept ==
  ASSUME NEW u, Good(u), NEW v \in Uart, v.ints = u.ints, v.iir = u.iir,
         v.irqPending <=> u.irqPending, v.ier = u.ier
  PROVE  Good(v)
BY DEF Good, Pending, Covered, Raised

-----------------------------------------------------------------------------
(* The transmitter.                                                        *)

\* uart_tx_send, when there is something to send and no job of the transmitter.
LEMMA TxSent ==
  ASSUME NEW u, Good(u), u.txbuf # <<>>, Alone(Tx, u.events), Tx \cap Jobs(u.events) = {},
         NEW v, v = uart_tx_send(u)
  PROVE  /\ Good(v) /\ v.txbuf = Tail(u.txbuf)
         /\ v.lsr = (u.lsr \ {"TXSERE"}) \cup (IF Tail(u.txbuf) = <<>> THEN {"TXBUFE"} ELSE {})
         /\ Jobs(v.events) = Jobs(u.events) \cup {IF u.lcr.sbc THEN "send_break" ELSE "char_clock"}
         /\ Alone(Tx, v.events)
         /\ Alone(Rx, u.events) => Alone(Rx, v.events)
         /\ Alone(Cti, u.events) => Alone(Cti, v.events)
         /\ v.ints \in {u.ints, u.ints \cup {"THRI"}}
         /\ v.rxbuf = u.rxbuf /\ v.dll = u.dll /\ v.dlh = u.dlh /\ v.lcr = u.lcr
         /\ v.char_clks = u.char_clks /\ v.fifo_len = u.fifo_len /\ v.wrapped = u.wrapped
<1> DEFINE job == IF u.lcr.sbc THEN "send_break" ELSE "char_clock"
           delay == IF u.lcr.sbc THEN 0 ELSE u.char_clks
           x == [u EXCEPT !.txser = Head(u.txbuf), !.txbuf = Tail(u.txbuf),
                          !.lsr = u.lsr \ {"TXSERE"}]
           w == SchedAdd(x, job, delay)
           y == [w EXCEPT !.lsr = w.lsr \cup {"TXBUFE"}]
<1>1. u \in Uart /\ u.txbuf \in Seq(Char) /\ u.lsr \in SUBSET LsrFlag
  BY DEF Good, Uart
<1>2. v = IF w.txbuf # <<>> THEN w ELSE uart_int(y, "THRI")
  <2>1. u.lcr.sbc = TRUE \/ u.lcr.sbc = FALSE
    BY <1>1 DEF Uart
  <2>2. CASE u.lcr.sbc = TRUE
    BY <2>2 DEF uart_tx_send
  <2>3. CASE u.lcr.sbc = FALSE
    BY <2>3 DEF uart_tx_send
  <2> QED BY <2>1, <2>2, <2>3
<1>3. /\ Good(x) /\ x.events = u.events /\ x.ints = u.ints /\ x.txbuf = Tail(u.txbuf)
      /\ x.lsr = u.lsr \ {"TXSERE"}
      /\ x.rxbuf = u.rxbuf /\ x.dll = u.dll /\ x.dlh = u.dlh /\ x.lcr = u.lcr
      /\ x.char_clks = u.char_clks /\ x.fifo_len = u.fifo_len /\ x.wrapped = u.wrapped
  <2>1. x = [u EXCEPT !.txser = Head(u.txbuf), !.txbuf = Tail(u.txbuf),
                      !.lsr = u.lsr \ {"TXSERE"}]
    OBVIOUS
  <2> HIDE DEF x
  <2>2. Head(u.txbuf) \in Char \cup {NoChar} /\ Tail(u.txbuf) \in Seq(Char)
        /\ u.lsr \ {"TXSERE"} \in SUBSET LsrFlag
    BY <1>1
  <2>3. x \in Uart
    BY <1>1, <2>1, <2>2, Zenon DEF Uart
  <2>4. x.txbuf = Tail(u.txbuf) /\ x.lsr = u.lsr \ {"TXSERE"}
    BY <1>1, <2>1, Zenon DEF Uart
  <2>5. /\ x.rxbuf = u.rxbuf /\ x.dll = u.dll /\ x.dlh = u.dlh /\ x.lcr = u.lcr
        /\ x.char_clks = u.char_clks /\ x.fifo_len = u.fifo_len /\ x.wrapped = u.wrapped
    BY <1>1, <2>1, Zenon DEF Uart
  <2>6. /\ x.events = u.events /\ x.ints = u.ints /\ x.iir = u.iir
        /\ (x.irqPending <=> u.irqPending) /\ x.ier = u.ier
    BY <1>1, <2>1, Zenon DEF Uart
  <2>7. Good(x)
    BY <2>3, <2>6, GoodKept
  <2> QED BY <2>4, <2>5, <2>6, <2>7
<1> HIDE DEF x
<1>4. job \in Job /\ job \in Tx /\ job \notin Rx /\ job \notin Cti /\ delay \in 0..MaxDelay
  BY <1>1, Delays DEF Job, Tx, Rx, Cti
<1> HIDE DEF job, delay
<1>5. /\ Good(w) /\ Same(x, w) /\ w.ints = x.ints /\ Jobs(w.events) = Jobs(u.events) \cup {job}
      /\ \A jobs : Alone(jobs, u.events) /\ (job \notin jobs \/ jobs \cap Jobs(u.events) = {})
                     => Alone(jobs, w.events)
  <2>1. w = SchedAdd(x, job, delay)
    OBVIOUS
  <2> HIDE DEF w
  <2>2. Good(w) /\ Same(x, w) /\ w.ints = x.ints /\ Added(x.events, w.events, job)
    BY <1>3, <1>4, <2>1, Scheduled
  <2> QED BY <1>3, <2>2 DEF Added
<1>6. Alone(Tx, w.events) /\ (Alone(Rx, u.events) => Alone(Rx, w.events))
      /\ (Alone(Cti, u.events) => Alone(Cti, w.events))
  BY <1>4, <1>5
<1>7. /\ w.txbuf = Tail(u.txbuf) /\ w.lsr = u.lsr \ {"TXSERE"} /\ w.ints = u.ints
      /\ w.rxbuf = u.rxbuf /\ w.dll = u.dll /\ w.dlh = u.dlh /\ w.lcr = u.lcr
      /\ w.char_clks = u.char_clks /\ w.fifo_len = u.fifo_len /\ w.wrapped = u.wrapped
  BY <1>3, <1>5 DEF Same
<1> HIDE DEF w
<1>8. CASE Tail(u.txbuf) # <<>>
  <2>1. v = w
    BY <1>2, <1>7, <1>8
  <2> QED BY <1>5, <1>6, <1>7, <1>8, <2>1 DEF job
<1>9. CASE Tail(u.txbuf) = <<>>
  <2>1. v = uart_int(y, "THRI")
    BY <1>2, <1>7, <1>9
  <2>2. /\ Good(y) /\ y.events = w.events /\ y.ints = u.ints /\ y.txbuf = Tail(u.txbuf)
        /\ y.lsr = (u.lsr \ {"TXSERE"}) \cup {"TXBUFE"}
        /\ y.rxbuf = u.rxbuf /\ y.dll = u.dll /\ y.dlh = u.dlh /\ y.lcr = u.lcr
        /\ y.char_clks = u.char_clks /\ y.fifo_len = u.fifo_len /\ y.wrapped = u.wrapped
    <3>1. y = [w EXCEPT !.lsr = w.lsr \cup {"TXBUFE"}]
      OBVIOUS
    <3> HIDE DEF y
    <3>2. w \in Uart
      BY <1>5 DEF Good
    <3>3. w.lsr \cup {"TXBUFE"} \in SUBSET LsrFlag
      BY <3>2 DEF Uart, LsrFlag
    <3>4. y \in Uart
      BY <3>1, <3>2, <3>3, Zenon DEF Uart
    <3>5. y.lsr = w.lsr \cup {"TXBUFE"} /\ y.txbuf = w.txbuf
      BY <3>1, <3>2, Zenon DEF Uart
    <3>6. /\ y.rxbuf = w.rxbuf /\ y.dll = w.dll /\ y.dlh = w.dlh /\ y.lcr = w.lcr
          /\ y.char_clks = w.char_clks /\ y.fifo_len = w.fifo_len /\ y.wrapped = w.wrapped
      BY <3>1, <3>2, Zenon DEF Uart
    <3>7. /\ y.events = w.events /\ y.ints = w.ints /\ y.iir = w.iir
          /\ (y.irqPending <=> w.irqPending) /\ y.ier = w.ier
      BY <3>1, <3>2, Zenon DEF Uart
    <3>8. Good(y)
      BY <1>5, <3>4, <3>7, GoodKept
    <3> QED BY <1>7, <3>5, <3>6, <3>7, <3>8
  <2> HIDE DEF y
  <2>3. "THRI" \in Interrupt /\ y \in Uart
    BY <2>2 DEF Interrupt, Good
  <2>4. Good(v) /\ Same(y, v) /\ v.events = y.events /\ v.ints = y.ints \cup {"THRI"}
    BY <2>1, <2>2, <2>3, IntMade
  <2> QED BY <1>5, <1>6, <1>9, <2>2, <2>4 DEF Same, job
<1> QED BY <1>8, <1>9

\* What the invariant depends on, besides events and interrupts.
Core(u, v) ==
  /\ v.txbuf = u.txbuf /\ v.rxbuf = u.rxbuf /\ v.dll = u.dll /\ v.dlh = u.dlh /\ v.lcr = u.lcr
  /\ v.lsr = u.lsr /\ v.char_clks = u.char_clks /\ v.fifo_len = u.fifo_len
  /\ v.wrapped = u.wrapped

\* A list of which the first event, of the job, has been taken.
Popped(s, r, job) ==
  /\ Jobs(s) = Jobs(r) \cup {job}
  /\ \A jobs : Alone(jobs, s) => Alone(jobs, r) /\ (job \in jobs => jobs \cap Jobs(r) = {})

\* What an event leaves alone.
Calm(u, v) == /\ v.lcr = u.lcr /\ (Drained(u) => Drained(v))
              /\ Receives(u) => Receives(v)

LEMMA EventTaken ==
  ASSUME NEW u, Good(u), u.events # <<>>, NEW v, v = WithEvents(u, Tail(u.events))
  PROVE  /\ Good(v) /\ Same(u, v) /\ v.ints = u.ints /\ Head(u.events).job \in Job
         /\ Popped(u.events, v.events, Head(u.events).job)
<1>1. u \in Uart /\ u.events \in Seq(Event)
  BY DEF Good, Uart
<1>2. Tail(u.events) \in Seq(Event) /\ Popped(u.events, Tail(u.events), Head(u.events).job)
  BY <1>1, TailLeft DEF Popped
<1>3. Head(u.events).job \in Job
  <2>1. Head(u.events) \in Event
    BY <1>1, TailLeft
  <2> QED BY <2>1 DEF Event
<1> DEFINE s == Tail(u.events)
<1>4. s \in Seq(Event) /\ v = WithEvents(u, s)
  BY <1>2
<1> HIDE DEF s
<1>5. v.events = s /\ Good(v) /\ Same(u, v) /\ v.ints = u.ints
  BY <1>1, <1>4, EventsSet
<1> QED BY <1>2, <1>3, <1>5 DEF s

\* uart_tx_send as the end of an event.
LEMMA SendingKept ==
  ASSUME NEW u, Right(u), NEW w, Good(w), Core(u, w), w.ints = u.ints, NEW job \in Tx,
         Popped(u.events, w.events, job), w.txbuf # <<>>, NEW v, v = uart_tx_send(w)
  PROVE  Right(v) /\ Calm(u, v)
<1>1. /\ Jobs(u.events) = Jobs(w.events) \cup {job} /\ Tx \cap Jobs(w.events) = {}
      /\ Alone(Tx, w.events) /\ Alone(Rx, w.events) /\ Alone(Cti, w.events)
  BY DEF Popped, Right, TxRight, RxRight, CtiRight
<1>2. /\ Good(v) /\ v.txbuf = Tail(w.txbuf)
      /\ v.lsr = (w.lsr \ {"TXSERE"}) \cup (IF Tail(w.txbuf) = <<>> THEN {"TXBUFE"} ELSE {})
      /\ Jobs(v.events) = Jobs(w.events) \cup {IF w.lcr.sbc THEN "send_break" ELSE "char_clock"}
      /\ Alone(Tx, v.events) /\ Alone(Rx, v.events) /\ Alone(Cti, v.events)
      /\ v.ints \in {w.ints, w.ints \cup {"THRI"}}
      /\ v.rxbuf = w.rxbuf /\ v.dll = w.dll /\ v.dlh = w.dlh /\ v.lcr = w.lcr
      /\ v.char_clks = w.char_clks /\ v.fifo_len = w.fifo_len /\ v.wrapped = w.wrapped
  BY <1>1, TxSent
<1>3. TxRight(v)
  <2>1. "TXSERE" \notin v.lsr /\ v.wrapped = FALSE /\ v.lcr = w.lcr
    BY <1>2 DEF Core, Right, TxRight
  <2>2. Tx \cap Jobs(v.events) = TxJobs(v)
    BY <1>1, <1>2, <2>1 DEF Tx, TxJobs
  <2> QED BY <1>2, <2>1, <2>2 DEF TxRight
<1>4. RxRight(v) /\ CtiRight(v)
  BY <1>1, <1>2 DEF RxRight, CtiRight, Right, Core
<1>5. Fits(v)
  <2>1. w.txbuf \in Seq(Char) /\ w.fifo_len \in Nat /\ Len(w.txbuf) <= w.fifo_len
    <3>1. w.txbuf \in Seq(Char) /\ w.fifo_len \in {1, UART_MAX_FIFO_LEN}
      BY DEF Good, Uart
    <3>2. UART_MAX_FIFO_LEN \in Nat
      BY UartAssumption
    <3> QED BY <3>1, <3>2 DEF Right, Fits, Core
  <2>2. Len(Tail(w.txbuf)) <= w.fifo_len
    BY <2>1
  <2> QED BY <1>2, <2>2 DEF Fits, Right, Core
<1>6. LsrRight(v)
  BY <1>2 DEF LsrRight, Right, Core
<1>7. ClocksRight(v)
  BY <1>2 DEF ClocksRight, Right, Core, char_clks
<1>8. Calm(u, v)
  <2>1. ~Drained(u)
    BY DEF Drained, Core
  <2>2. Receives(u) => Receives(v)
    BY <1>1, <1>2 DEF Receives, Rx, Tx
  <2> QED BY <1>2, <2>1, <2>2 DEF Calm, Core
<1> QED BY <1>2, <1>3, <1>4, <1>5, <1>6, <1>7, <1>8 DEF Right

\* The events of the transmitter.
LEMMA TransmitterKept ==
  ASSUME NEW u, Right(u), u.events # <<>>, NEW input, Head(u.events).job \in Tx,
         NEW v, v = RunEvent(u, input)
  PROVE  Right(v) /\ Calm(u, v)
<1> DEFINE job == Head(u.events).job
           p == WithEvents(u, Tail(u.events))
<1>1. Good(p) /\ Same(u, p) /\ p.ints = u.ints /\ Popped(u.events, p.events, job)
  BY EventTaken DEF Right
<1>2. Core(u, p)
  BY <1>1 DEF Same, Core
<1>3. job \in TxJobs(u)
  <2>1. job \in Jobs(u.events)
    BY <1>1 DEF Popped
  <2> QED BY <2>1 DEF Right, TxRight
<1>4. CASE job = "tx_send"
  <2>1. v = uart_tx_send(p)
    BY <1>4 DEF RunEvent, WithEvents
  <2>2. p.txbuf # <<>>
    BY <1>2, <1>3, <1>4 DEF TxJobs, Core
  <2> HIDE DEF p, job
  <2> QED BY <1>1, <1>2, <1>4, <2>1, <2>2, SendingKept DEF Tx
<1>5. ASSUME NEW w, Good(w), Core(u, w), w.ints = u.ints, Popped(u.events, w.events, job),
             job # "tx_send", v = NextChar(w)
      PROVE  Right(v) /\ Calm(u, v)
  <2>1. "TXSERE" \notin u.lsr
    BY <1>3, <1>5 DEF TxJobs
  <2>2. CASE w.txbuf # <<>>
    <3>1. v = uart_tx_send(w)
      BY <1>5, <2>2 DEF NextChar
    <3>2. job \in Tx
      OBVIOUS
    <3> HIDE DEF job, p
    <3> QED BY <1>5, <2>2, <3>1, <3>2, SendingKept
  <2>3. CASE w.txbuf = <<>>
    <3>1. v = [w EXCEPT !.lsr = w.lsr \cup {"TXSERE"}]
      BY <1>5, <2>3 DEF NextChar
    <3>2. w \in Uart /\ w.lsr \cup {"TXSERE"} \in SUBSET LsrFlag
      BY <1>5 DEF Good, Uart, LsrFlag
    <3>3. v \in Uart
      BY <3>1, <3>2, Zenon DEF Uart
    <3>4. v.lsr = w.lsr \cup {"TXSERE"} /\ v.txbuf = w.txbuf
      BY <3>1, <3>2, Zenon DEF Uart
    <3>5. /\ v.rxbuf = w.rxbuf /\ v.dll = w.dll /\ v.dlh = w.dlh /\ v.lcr = w.lcr
          /\ v.char_clks = w.char_clks /\ v.fifo_len = w.fifo_len /\ v.wrapped = w.wrapped
      BY <3>1, <3>2, Zenon DEF Uart
    <3>6. /\ v.events = w.events /\ v.ints = w.ints /\ v.iir = w.iir
          /\ (v.irqPending <=> w.irqPending) /\ v.ier = w.ier
      BY <3>1, <3>2, Zenon DEF Uart
    <3>7. Good(v)
      BY <1>5, <3>3, <3>6, GoodKept
    <3>8. /\ Jobs(u.events) = Jobs(v.events) \cup {job} /\ Tx \cap Jobs(v.events) = {}
          /\ Alone(Tx, v.events) /\ Alone(Rx, v.events) /\ Alone(Cti, v.events)
      BY <1>5, <3>6 DEF Popped, Right, TxRight, RxRight, CtiRight
    <3>9. TxRight(v)
      <4>1. TxJobs(v) = {}
        BY <2>3, <3>4 DEF TxJobs
      <4>2. v.wrapped = FALSE
        BY <1>5, <3>5 DEF TxRight, Right, Core
      <4> QED BY <3>8, <4>1, <4>2 DEF TxRight
    <3>10. RxRight(v) /\ CtiRight(v) /\ Fits(v) /\ LsrRight(v) /\ ClocksRight(v)
      <4>1. Core(u, w) /\ w.ints = u.ints
        BY <1>5
      <4>2. RxRight(v) /\ CtiRight(v)
        BY <3>5, <3>6, <3>8, <4>1 DEF RxRight, CtiRight, Right, Core
      <4>3. Fits(v)
        BY <3>4, <3>5, <4>1 DEF Right, Core, Fits
      <4>4. LsrRight(v)
        BY <3>4, <3>5, <3>6, <4>1 DEF Right, Core, LsrRight
      <4>5. ClocksRight(v)
        BY <3>5, <4>1 DEF Right, Core, ClocksRight, char_clks
      <4> QED BY <4>2, <4>3, <4>4, <4>5
    <3>11. Calm(u, v)
      <4>1. Receives(u) => Receives(v)
        BY <3>8 DEF Receives, Rx, Tx
      <4> QED BY <1>5, <2>1, <3>5, <4>1 DEF Calm, Core, Drained
    <3> QED BY <3>7, <3>9, <3>10, <3>11 DEF Right
  <2> QED BY <2>2, <2>3
<1>6. CASE job = "send_break"
  <2>1. v = NextChar(p)
    BY <1>6 DEF RunEvent, WithEvents, uart_send_break
  <2> HIDE DEF p, job
  <2> QED BY <1>1, <1>2, <1>5, <1>6, <2>1
<1>7. CASE job = "char_clock"
  <2> DEFINE w == send_char(p)
  <2>1. v = NextChar(w)
    BY <1>7 DEF RunEvent, WithEvents, uart_char_clock
  <2> HIDE DEF p, job
  <2>2. Good(w) /\ Core(u, w) /\ w.ints = u.ints /\ w.events = p.events
    <3>1. CASE "LOOP" \in p.mcr
      <4>1. w = [p EXCEPT !.loopback = p.txser]
        BY <3>1 DEF send_char
      <4> HIDE DEF w
      <4>2. p \in Uart /\ p.txser \in Char \cup {NoChar}
        BY <1>1 DEF Good, Uart
      <4>3. w \in Uart
        BY <4>1, <4>2, Zenon DEF Uart
      <4>4. Core(p, w)
        BY <4>1, <4>2, Zenon DEF Uart, Core
      <4>5. /\ w.events = p.events /\ w.ints = p.ints /\ w.iir = p.iir
            /\ (w.irqPending <=> p.irqPending) /\ w.ier = p.ier
        BY <4>1, <4>2, Zenon DEF Uart
      <4>6. Good(w)
        BY <1>1, <4>3, <4>5, GoodKept
      <4> QED BY <1>1, <1>2, <4>4, <4>5, <4>6 DEF Core
    <3>2. CASE "LOOP" \notin p.mcr
      <4>1. w = p
        BY <3>2 DEF send_char
      <4> QED BY <1>1, <1>2, <4>1
    <3> QED BY <3>1, <3>2
  <2> HIDE DEF w
  <2> QED BY <1>1, <1>5, <1>7, <2>1, <2>2
<1> QED BY <1>4, <1>6, <1>7 DEF Tx

-----------------------------------------------------------------------------
(* The receiver.                                                           *)

WithLsr(u, lsr) == [u EXCEPT !.lsr = lsr]

LEMMA LsrSet ==
  ASSUME NEW u, Good(u), NEW lsr \in SUBSET LsrFlag, NEW v, v = WithLsr(u, lsr)
  PROVE  /\ Good(v) /\ v.lsr = lsr /\ v.events = u.events /\ v.ints = u.ints
         /\ v.txbuf = u.txbuf /\ v.rxbuf = u.rxbuf /\ v.dll = u.dll /\ v.dlh = u.dlh
         /\ v.lcr = u.lcr /\ v.char_clks = u.char_clks /\ v.fifo_len = u.fifo_len
         /\ v.wrapped = u.wrapped /\ v.ier = u.ier
<1>1. u \in Uart /\ v = [u EXCEPT !.lsr = lsr]
  BY DEF Good, WithLsr
<1>2. v \in Uart
  BY <1>1, Zenon DEF Uart
<1>3. v.lsr = lsr
  BY <1>1, Zenon DEF Uart
<1>4. /\ v.txbuf = u.txbuf /\ v.rxbuf = u.rxbuf /\ v.dll = u.dll /\ v.dlh = u.dlh
      /\ v.lcr = u.lcr /\ v.char_clks = u.char_clks /\ v.fifo_len = u.fifo_len
      /\ v.wrapped = u.wrapped
  BY <1>1, Zenon DEF Uart
<1>5. /\ v.events = u.events /\ v.ints = u.ints /\ v.iir = u.iir
      /\ (v.irqPending <=> u.irqPending) /\ v.ier = u.ier
  BY <1>1, Zenon DEF Uart
<1>6. Good(v)
  BY <1>2, <1>5, GoodKept
<1> QED BY <1>3, <1>4, <1>5, <1>6

WithRxbuf(u, rxbuf) == [u EXCEPT !.rxbuf = rxbuf]

LEMMA RxbufSet ==
  ASSUME NEW u, Good(u), NEW rxbuf \in Seq(Char \cup {NoChar}), NEW v, v = WithRxbuf(u, rxbuf)
  PROVE  /\ Good(v) /\ v.rxbuf = rxbuf /\ v.events = u.events /\ v.ints = u.ints
         /\ v.txbuf = u.txbuf /\ v.lsr = u.lsr /\ v.dll = u.dll /\ v.dlh = u.dlh
         /\ v.lcr = u.lcr /\ v.char_clks = u.char_clks /\ v.fifo_len = u.fifo_len
         /\ v.wrapped = u.wrapped
<1>1. u \in Uart /\ v = [u EXCEPT !.rxbuf = rxbuf]
  BY DEF Good, WithRxbuf
<1>2. v \in Uart
  BY <1>1, Zenon DEF Uart
<1>3. v.rxbuf = rxbuf
  BY <1>1, Zenon DEF Uart
<1>4. /\ v.txbuf = u.txbuf /\ v.lsr = u.lsr /\ v.dll = u.dll /\ v.dlh = u.dlh
      /\ v.lcr = u.lcr /\ v.char_clks = u.char_clks /\ v.fifo_len = u.fifo_len
      /\ v.wrapped = u.wrapped
  BY <1>1, Zenon DEF Uart
<1>5. /\ v.events = u.events /\ v.ints = u.ints /\ v.iir = u.iir
      /\ (v.irqPending <=> u.irqPending) /\ v.ier = u.ier
  BY <1>1, Zenon DEF Uart
<1>6. Good(v)
  BY <1>2, <1>5, GoodKept
<1> QED BY <1>3, <1>4, <1>5, <1>6

\* The fields that the receiver leaves alone.
NotRx(u, v) ==
  /\ v.txbuf = u.txbuf /\ v.dll = u.dll /\ v.dlh = u.dlh /\ v.lcr = u.lcr
  /\ v.char_clks = u.char_clks /\ v.fifo_len = u.fifo_len /\ v.wrapped = u.wrapped
  /\ ("TXSERE" \in v.lsr <=> "TXSERE" \in u.lsr) /\ ("TXBUFE" \in v.lsr <=> "TXBUFE" \in u.lsr)

\* uart_add_char.
LEMMA CharKept ==
  ASSUME NEW u, Right(u), NEW ch \in Char \cup {NoChar}, NEW v, v = uart_add_char(u, ch)
  PROVE  Right(v) /\ Calm(u, v)
<1> DEFINE x1 == WithLsr(u, u.lsr \cup {"RDRDY"})
           x2 == uart_clear_int(x1, "CTI")
           delay == CHAR_TIMEOUT * u.char_clks
           x3 == SchedAdd(x2, "int_cti", delay)
           y == WithLsr(x3, x3.lsr \cup {"OVRRUN", "RXERR"})
           z == WithRxbuf(x3, Append(x3.rxbuf, ch))
           full == Len(u.rxbuf) + 1 > u.fifo_len
           w == IF full THEN uart_int(y, "RLSI")
                ELSE IF u.rxbuf = <<>> THEN uart_check_rlsi(z) ELSE z
<1>1. v = uart_check_rdi(w)
  BY DEF uart_add_char, WithLsr, WithRxbuf
<1>2. /\ u \in Uart /\ Good(u) /\ u.lsr \in SUBSET LsrFlag /\ u.rxbuf \in Seq(Char \cup {NoChar})
      /\ u.fifo_len \in Nat \ {0} /\ u.ints \in SUBSET Interrupt
  BY UartAssumption DEF Right, Good, Uart
<1> HIDE DEF w
<1>3. /\ Good(x1) /\ x1.lsr = u.lsr \cup {"RDRDY"} /\ x1.rxbuf = u.rxbuf /\ x1.events = u.events
      /\ x1.ints = u.ints /\ NotRx(u, x1)
  <2>1. u.lsr \cup {"RDRDY"} \in SUBSET LsrFlag
    BY <1>2 DEF LsrFlag
  <2> DEFINE lsr == u.lsr \cup {"RDRDY"}
  <2>2. lsr \in SUBSET LsrFlag /\ x1 = WithLsr(u, lsr)
    BY <2>1
  <2> HIDE DEF lsr, x1
  <2>3. /\ Good(x1) /\ x1.lsr = lsr /\ x1.events = u.events /\ x1.ints = u.ints
        /\ x1.txbuf = u.txbuf /\ x1.rxbuf = u.rxbuf /\ x1.dll = u.dll /\ x1.dlh = u.dlh
        /\ x1.lcr = u.lcr /\ x1.char_clks = u.char_clks /\ x1.fifo_len = u.fifo_len
        /\ x1.wrapped = u.wrapped
    BY <1>2, <2>2, LsrSet
  <2> QED BY <2>3 DEF NotRx, lsr
<1> HIDE DEF x1
<1>4. /\ Good(x2) /\ Same(x1, x2) /\ x2.ints = u.ints \ {"CTI"} /\ Cut(u.events, x2.events, "int_cti")
  <2>1. "CTI" \in Interrupt
    BY DEF Interrupt
  <2> QED BY <1>3, <2>1, IntCleared
<1> HIDE DEF x2
<1>5. /\ Good(x3) /\ Same(x2, x3) /\ x3.ints = x2.ints /\ Added(x2.events, x3.events, "int_cti")
  <2>1. delay \in 0..MaxDelay /\ "int_cti" \in Job
    BY <1>2, Delays DEF Job
  <2> HIDE DEF delay
  <2> QED BY <1>4, <2>1, Scheduled
<1> HIDE DEF x3
<1>6. /\ x3.lsr = u.lsr \cup {"RDRDY"} /\ x3.rxbuf = u.rxbuf /\ NotRx(u, x3)
      /\ x3.ints = u.ints \ {"CTI"}
  BY <1>3, <1>4, <1>5 DEF Same, NotRx
<1>7. /\ Jobs(x3.events) = Jobs(u.events) \cup {"int_cti"}
      /\ Alone(Tx, x3.events) /\ Alone(Rx, x3.events) /\ Alone(Cti, x3.events)
  <2>1. /\ Jobs(x2.events) = Jobs(u.events) \ {"int_cti"}
        /\ Alone(Tx, x2.events) /\ Alone(Rx, x2.events) /\ Alone(Cti, x2.events)
    BY <1>4 DEF Cut, Right, TxRight, RxRight, CtiRight
  <2>2. "int_cti" \notin Tx /\ "int_cti" \notin Rx /\ Cti \cap Jobs(x2.events) = {}
    BY <2>1 DEF Tx, Rx, Cti
  <2> QED BY <1>5, <2>1, <2>2 DEF Added
<1>8. /\ Good(w) /\ w.events = x3.events /\ NotRx(u, w)
      /\ w.rxbuf \in Seq(Char \cup {NoChar}) /\ w.rxbuf # <<>> /\ Len(w.rxbuf) <= u.fifo_len
      /\ "RDRDY" \in w.lsr /\ ("OVRRUN" \in w.lsr <=> "RLSI" \in w.ints)
  <2>1. CASE full
    <3>1. w = uart_int(y, "RLSI")
      BY <2>1 DEF w
    <3>2. /\ Good(y) /\ y.lsr = u.lsr \cup {"RDRDY", "OVRRUN", "RXERR"} /\ y.rxbuf = u.rxbuf
          /\ y.events = x3.events /\ y.ints = x3.ints /\ NotRx(u, y)
      <4> DEFINE lsr == x3.lsr \cup {"OVRRUN", "RXERR"}
      <4>1. lsr \in SUBSET LsrFlag /\ y = WithLsr(x3, lsr)
        BY <1>2, <1>6 DEF LsrFlag
      <4> HIDE DEF lsr, y
      <4>2. /\ Good(y) /\ y.lsr = lsr /\ y.events = x3.events /\ y.ints = x3.ints
            /\ y.txbuf = x3.txbuf /\ y.rxbuf = x3.rxbuf /\ y.dll = x3.dll /\ y.dlh = x3.dlh
            /\ y.lcr = x3.lcr /\ y.char_clks = x3.char_clks /\ y.fifo_len = x3.fifo_len
            /\ y.wrapped = x3.wrapped
        BY <1>5, <4>1, LsrSet
      <4> QED BY <1>6, <4>2 DEF NotRx, lsr
    <3> HIDE DEF y
    <3>3. /\ Good(w) /\ Same(y, w) /\ w.events = y.events /\ w.ints = y.ints \cup {"RLSI"}
      <4>1. y \in Uart /\ "RLSI" \in Interrupt
        BY <3>2 DEF Good, Interrupt
      <4> QED BY <3>1, <3>2, <4>1, IntMade
    <3>4. w.rxbuf = u.rxbuf /\ u.rxbuf # <<>>
      <4>1. w.rxbuf = u.rxbuf
        BY <3>2, <3>3 DEF Same
      <4>2. u.rxbuf # <<>>
        BY <1>2, <2>1
      <4> QED BY <4>1, <4>2
    <3>5. Len(u.rxbuf) <= u.fifo_len
      BY DEF Right, Fits
    <3>6. NotRx(u, w) /\ w.lsr = y.lsr
      BY <3>2, <3>3 DEF Same, NotRx
    <3> QED BY <1>2, <3>2, <3>3, <3>4, <3>5, <3>6
  <2>2. CASE ~full
    <3>1. /\ Good(z) /\ z.lsr = u.lsr \cup {"RDRDY"} /\ z.rxbuf = Append(u.rxbuf, ch)
          /\ z.events = x3.events /\ z.ints = u.ints \ {"CTI"} /\ NotRx(u, z)
      <4> DEFINE rxbuf == Append(x3.rxbuf, ch)
      <4>1. rxbuf \in Seq(Char \cup {NoChar}) /\ z = WithRxbuf(x3, rxbuf)
        BY <1>2, <1>6
      <4> HIDE DEF rxbuf, z
      <4>2. /\ Good(z) /\ z.rxbuf = rxbuf /\ z.events = x3.events /\ z.ints = x3.ints
            /\ z.txbuf = x3.txbuf /\ z.lsr = x3.lsr /\ z.dll = x3.dll /\ z.dlh = x3.dlh
            /\ z.lcr = x3.lcr /\ z.char_clks = x3.char_clks /\ z.fifo_len = x3.fifo_len
            /\ z.wrapped = x3.wrapped
        BY <1>5, <4>1, RxbufSet
      <4> QED BY <1>6, <4>2 DEF NotRx, rxbuf
    <3> HIDE DEF z
    <3>2. "OVRRUN" \in z.lsr <=> "RLSI" \in z.ints
      BY <3>1 DEF Right, LsrRight
    <3>3. /\ Good(w) /\ w.events = z.events /\ NotRx(u, w) /\ w.lsr = z.lsr /\ w.rxbuf = z.rxbuf
          /\ ("RLSI" \in w.ints <=> "RLSI" \in z.ints)
      <4>1. CASE u.rxbuf = <<>>
        <5>1. w = uart_check_rlsi(z)
          BY <2>2, <4>1 DEF w
        <5>2. /\ Good(w) /\ Same(z, w) /\ w.events = z.events
              /\ w.ints = z.ints \cup (IF "OVRRUN" \in z.lsr THEN {"RLSI"} ELSE {})
          BY <3>1, <5>1, Checked
        <5> QED BY <3>1, <3>2, <5>2 DEF Same, NotRx
      <4>2. CASE u.rxbuf # <<>>
        BY <2>2, <3>1, <4>2 DEF w
      <4> QED BY <4>1, <4>2
    <3>4. Append(u.rxbuf, ch) \in Seq(Char \cup {NoChar}) /\ Append(u.rxbuf, ch) # <<>>
          /\ Len(Append(u.rxbuf, ch)) <= u.fifo_len
      BY <1>2, <2>2
    <3> QED BY <3>1, <3>2, <3>3, <3>4
  <2> QED BY <2>1, <2>2
<1>9. /\ Good(v) /\ Same(w, v) /\ v.events = w.events /\ v.ints \in {w.ints, w.ints \cup {"RDI"}}
  BY <1>1, <1>8, Checked
<1>10. NotRx(u, v) /\ v.rxbuf = w.rxbuf /\ v.lsr = w.lsr /\ ("RLSI" \in v.ints <=> "RLSI" \in w.ints)
  BY <1>8, <1>9 DEF Same, NotRx
<1>11. Jobs(v.events) = Jobs(u.events) \cup {"int_cti"}
       /\ Alone(Tx, v.events) /\ Alone(Rx, v.events) /\ Alone(Cti, v.events)
  BY <1>7, <1>8, <1>9
<1>12. TxRight(v)
  <2>1. TxJobs(v) = TxJobs(u)
    BY <1>10 DEF NotRx, TxJobs
  <2>2. Tx \cap Jobs(v.events) = Tx \cap Jobs(u.events)
    BY <1>11 DEF Tx
  <2> QED BY <1>10, <1>11, <2>1, <2>2 DEF TxRight, Right, NotRx
<1>13. RxRight(v) /\ CtiRight(v)
  BY <1>8, <1>10, <1>11 DEF RxRight, CtiRight
<1>14. Fits(v)
  BY <1>8, <1>10 DEF Right, Fits, NotRx
<1>15. LsrRight(v)
  BY <1>8, <1>10 DEF Right, LsrRight, NotRx
<1>16. ClocksRight(v)
  BY <1>10 DEF Right, ClocksRight, NotRx, char_clks
<1>17. Calm(u, v)
  BY <1>10, <1>11 DEF Calm, NotRx, Drained, Receives
<1> QED BY <1>9, <1>12, <1>13, <1>14, <1>15, <1>16, <1>17 DEF Right

\* A job of the receiver, or none, instead of the one that was due.
LEMMA Rescheduled ==
  ASSUME NEW u, Right(u), NEW v, Good(v), Core(u, v), v.ints = u.ints, NEW s,
         NEW job \in Rx, Popped(u.events, s, job),
         v.events = s \/ \E next \in Rx : Added(s, v.events, next)
  PROVE  /\ Right(v) /\ v.lcr = u.lcr /\ (Drained(u) => Drained(v))
         /\ v.events # s => Receives(v)
<1>1. /\ Jobs(u.events) = Jobs(s) \cup {job} /\ Rx \cap Jobs(s) = {}
      /\ Alone(Tx, s) /\ Alone(Rx, s) /\ Alone(Cti, s)
  BY DEF Popped, Right, TxRight, RxRight, CtiRight
<1>2. \A next \in Rx : next \notin Tx /\ next \notin Cti
  BY DEF Tx, Rx, Cti
<1>3. /\ Alone(Tx, v.events) /\ Alone(Rx, v.events) /\ Alone(Cti, v.events)
      /\ Tx \cap Jobs(v.events) = Tx \cap Jobs(u.events)
      /\ Cti \cap Jobs(v.events) = Cti \cap Jobs(u.events)
      /\ v.events # s => Receives(v)
  <2>1. CASE v.events = s
    BY <1>1, <1>2, <2>1
  <2>2. ASSUME NEW next \in Rx, Added(s, v.events, next)
        PROVE  /\ Alone(Tx, v.events) /\ Alone(Rx, v.events) /\ Alone(Cti, v.events)
               /\ Jobs(v.events) = Jobs(s) \cup {next}
    BY <1>1, <1>2, <2>2 DEF Added
  <2>3. ASSUME NEW next \in Rx, Added(s, v.events, next)
        PROVE  /\ Tx \cap Jobs(v.events) = Tx \cap Jobs(u.events)
               /\ Cti \cap Jobs(v.events) = Cti \cap Jobs(u.events)
               /\ Receives(v)
    <3>1. Jobs(v.events) = Jobs(s) \cup {next} /\ next \notin Tx /\ next \notin Cti
          /\ job \notin Tx /\ job \notin Cti
      BY <1>2, <2>2, <2>3
    <3>2. Receives(v)
      BY <3>1 DEF Receives
    <3>3. Tx \cap Jobs(v.events) = Tx \cap Jobs(u.events)
      BY <1>1, <3>1
    <3>4. Cti \cap Jobs(v.events) = Cti \cap Jobs(u.events)
      BY <1>1, <3>1
    <3> QED BY <3>2, <3>3, <3>4
  <2> QED BY <2>1, <2>2, <2>3
<1>4. TxRight(v)
  <2>1. TxJobs(v) = TxJobs(u)
    BY DEF Core, TxJobs
  <2> QED BY <1>3, <2>1 DEF Right, TxRight, Core
<1>5. RxRight(v) /\ CtiRight(v)
  <2>1. "int_cti" \in Jobs(v.events) => "int_cti" \in Jobs(u.events)
    BY <1>3 DEF Cti
  <2> QED BY <1>3, <2>1 DEF Right, RxRight, CtiRight, Core
<1>6. Fits(v) /\ LsrRight(v) /\ ClocksRight(v)
  BY DEF Right, Fits, LsrRight, ClocksRight, Core, char_clks
<1> QED BY <1>3, <1>4, <1>5, <1>6 DEF Right, Core, Drained

WithRxser(u, ch) == [u EXCEPT !.rxser = ch]

LEMMA RxserSet ==
  ASSUME NEW u, Good(u), NEW ch \in Char \cup {NoChar}, NEW v, v = WithRxser(u, ch)
  PROVE  Good(v) /\ Core(u, v) /\ v.events = u.events /\ v.ints = u.ints
<1>1. u \in Uart /\ v = [u EXCEPT !.rxser = ch]
  BY DEF Good, WithRxser
<1>2. v \in Uart
  BY <1>1, Zenon DEF Uart
<1>3. Core(u, v)
  BY <1>1, Zenon DEF Uart, Core
<1>4. /\ v.events = u.events /\ v.ints = u.ints /\ v.iir = u.iir
      /\ (v.irqPending <=> u.irqPending) /\ v.ier = u.ier
  BY <1>1, Zenon DEF Uart
<1> QED BY <1>2, <1>3, <1>4, GoodKept

\* The events of the receiver.
LEMMA ReceiverKept ==
  ASSUME NEW u, Right(u), u.events # <<>>, NEW input \in Char \cup {"eof", "error"},
         Head(u.events).job \in Rx, NEW v, v = RunEvent(u, input)
  PROVE  /\ Right(v) /\ v.lcr = u.lcr /\ (Drained(u) => Drained(v))
         /\ input # "error" => Receives(v)
<1> DEFINE job == Head(u.events).job
           p == WithEvents(u, Tail(u.events))
<1>1. Good(p) /\ Same(u, p) /\ p.ints = u.ints /\ Popped(u.events, p.events, job)
  BY EventTaken DEF Right
<1>2. Core(u, p) /\ p \in Uart /\ job \in Rx
  BY <1>1 DEF Same, Core, Good
<1>3. ASSUME NEW q, Good(q), Core(u, q), q.ints = u.ints, q.events = p.events,
             NEW next \in Rx, NEW delay \in 0..MaxDelay, NEW x, x = SchedAdd(q, next, delay)
      PROVE  Right(x) /\ x.lcr = u.lcr /\ (Drained(u) => Drained(x)) /\ Receives(x)
  <2>1. next \in Job
    BY DEF Rx, Job
  <2>2. Good(x) /\ Same(q, x) /\ x.ints = q.ints /\ Added(q.events, x.events, next)
    BY <1>3, <2>1, Scheduled
  <2>3. Core(u, x) /\ x.ints = u.ints /\ Added(p.events, x.events, next)
    BY <1>3, <2>2 DEF Same, Core
  <2>4. Receives(x)
    BY <2>3 DEF Added, Receives
  <2> HIDE DEF p, job
  <2> QED BY <1>1, <1>2, <2>2, <2>3, <2>4, Rescheduled
<1>4. CASE job = "recv_char"
  <2> DEFINE q == WithRxser(p, p.loopback)
             x == IF "LOOP" \in p.mcr THEN SchedAdd(q, "recv_char", p.char_clks)
                  ELSE SchedAdd(p, "check_char", CHECK_DELAY)
  <2>1. v = uart_add_char(x, p.rxser)
    BY <1>4 DEF RunEvent, uart_recv_char, WithEvents, WithRxser
  <2> HIDE DEF p, job
  <2>2. p.rxser \in Char \cup {NoChar} /\ p.loopback \in Char \cup {NoChar}
    BY <1>2 DEF Uart
  <2>3. /\ p.char_clks \in 0..MaxDelay /\ CHECK_DELAY \in 0..MaxDelay
        /\ "recv_char" \in Rx /\ "check_char" \in Rx
    BY <1>2, Delays DEF Rx
  <2>4. Right(x) /\ x.lcr = u.lcr /\ (Drained(u) => Drained(x)) /\ Receives(x)
    <3>1. CASE "LOOP" \in p.mcr
      <4>1. x = SchedAdd(q, "recv_char", p.char_clks)
        BY <3>1
      <4>2. Good(q) /\ Core(p, q) /\ q.events = p.events /\ q.ints = p.ints
        BY <1>1, <2>2, RxserSet
      <4>3. Core(u, q) /\ q.ints = u.ints
        BY <1>1, <1>2, <4>2 DEF Core
      <4> HIDE DEF q, x
      <4> QED BY <1>3, <2>3, <4>1, <4>2, <4>3
    <3>2. CASE "LOOP" \notin p.mcr
      <4>1. x = SchedAdd(p, "check_char", CHECK_DELAY)
        BY <3>2
      <4> HIDE DEF q, x
      <4> QED BY <1>1, <1>2, <1>3, <2>3, <4>1
    <3> QED BY <3>1, <3>2
  <2> HIDE DEF x
  <2>5. Right(v) /\ Calm(x, v)
    BY <2>1, <2>2, <2>4, CharKept
  <2> QED BY <2>4, <2>5 DEF Calm
<1>5. CASE job = "check_char"
  <2>1. v = uart_check_char(p, input)
    BY <1>5 DEF RunEvent, WithEvents
  <2> HIDE DEF p, job
  <2>2. CHECK_DELAY \in 0..MaxDelay /\ p.char_clks \in 0..MaxDelay
        /\ "recv_char" \in Rx /\ "check_char" \in Rx
    BY <1>2, Delays DEF Rx
  <2>3. CASE input = "eof"
    <3>1. v = SchedAdd(p, "check_char", CHECK_DELAY)
      BY <2>1, <2>3 DEF uart_check_char
    <3> QED BY <1>1, <1>2, <1>3, <2>2, <3>1
  <2>4. CASE input = "error"
    <3>1. v = p
      BY <2>1, <2>4 DEF uart_check_char
    <3> QED BY <1>1, <1>2, <2>4, <3>1, Rescheduled
  <2>5. CASE input # "eof" /\ input # "error"
    <3> DEFINE q == WithRxser(p, input)
    <3>1. v = SchedAdd(q, "recv_char", p.char_clks)
      BY <2>1, <2>5 DEF uart_check_char, WithRxser
    <3>2. Good(q) /\ Core(p, q) /\ q.events = p.events /\ q.ints = p.ints
      <4>1. input \in Char \cup {NoChar}
        BY <2>5
      <4> QED BY <1>1, <4>1, RxserSet
    <3>3. Core(u, q) /\ q.ints = u.ints
      BY <1>1, <1>2, <3>2 DEF Core
    <3> HIDE DEF q
    <3> QED BY <1>3, <2>2, <3>1, <3>2, <3>3
  <2> QED BY <2>3, <2>4, <2>5
<1> QED BY <1>4, <1>5 DEF Rx

\* uart_int_cti.
LEMMA TimeoutKept ==
  ASSUME NEW u, Right(u), u.events # <<>>, NEW input, Head(u.events).job = "int_cti",
         NEW v, v = RunEvent(u, input)
  PROVE  Right(v) /\ Calm(u, v)
<1> DEFINE p == WithEvents(u, Tail(u.events))
<1>1. Good(p) /\ Same(u, p) /\ p.ints = u.ints /\ Popped(u.events, p.events, "int_cti")
  BY EventTaken DEF Right
<1>2. v = uart_int(p, "CTI")
  BY DEF RunEvent, WithEvents
<1> HIDE DEF p
<1>3. Good(v) /\ Same(p, v) /\ v.events = p.events /\ v.ints = u.ints \cup {"CTI"}
  <2>1. "CTI" \in Interrupt /\ p \in Uart
    BY <1>1 DEF Good, Interrupt
  <2> QED BY <1>1, <1>2, <2>1, IntMade
<1>4. Core(u, v)
  BY <1>1, <1>3 DEF Same, Core
<1>5. /\ Jobs(u.events) = Jobs(v.events) \cup {"int_cti"}
      /\ Alone(Tx, v.events) /\ Alone(Rx, v.events) /\ Alone(Cti, v.events)
  BY <1>1, <1>3 DEF Popped, Right, TxRight, RxRight, CtiRight
<1>6. TxRight(v)
  <2>1. TxJobs(v) = TxJobs(u)
    BY <1>4 DEF Core, TxJobs
  <2>2. Tx \cap Jobs(v.events) = Tx \cap Jobs(u.events)
    BY <1>5 DEF Tx
  <2> QED BY <1>4, <1>5, <2>1, <2>2 DEF Right, TxRight, Core
<1>7. RxRight(v) /\ CtiRight(v)
  <2>1. v.rxbuf # <<>>
    BY <1>4, <1>5 DEF Right, CtiRight, Core
  <2> QED BY <1>5, <2>1 DEF RxRight, CtiRight
<1>8. Fits(v) /\ ClocksRight(v)
  BY <1>4 DEF Right, Fits, ClocksRight, Core, char_clks
<1>9. LsrRight(v)
  BY <1>3, <1>4 DEF Right, LsrRight, Core
<1>10. Calm(u, v)
  BY <1>4, <1>5 DEF Calm, Core, Drained, Receives, Rx
<1> QED BY <1>3, <1>6, <1>7, <1>8, <1>9, <1>10 DEF Right

\* RunEvent.
LEMMA EventKept ==
  ASSUME NEW u, Right(u), u.events # <<>>, NEW input \in Char \cup {"eof", "error"},
         NEW v, v = RunEvent(u, input)
  PROVE  /\ Right(v) /\ v.lcr = u.lcr /\ (Drained(u) => Drained(v))
         /\ input # "error" /\ Receives(u) => Receives(v)
<1>1. Head(u.events).job \in Job
  BY EventTaken DEF Right
<1>2. CASE Head(u.events).job \in Tx
  BY <1>2, TransmitterKept DEF Calm
<1>3. CASE Head(u.events).job \in Rx
  BY <1>3, ReceiverKept
<1>4. CASE Head(u.events).job = "int_cti"
  BY <1>4, TimeoutKept DEF Calm
<1> QED BY <1>1, <1>2, <1>3, <1>4 DEF Job, Tx, Rx

-----------------------------------------------------------------------------
(* The registers.                                                          *)

\* Interrupts and timeouts come and go without harm.
LEMMA QuietKept ==
  ASSUME NEW u, Right(u), NEW v, Good(v), Core(u, v),
         v.events = u.events \/ Cut(u.events, v.events, "int_cti"),
         "RLSI" \in v.ints <=> "RLSI" \in u.ints, "CTI" \in v.ints => "CTI" \in u.ints
  PROVE  Right(v) /\ Calm(u, v)
<1>1. /\ Alone(Tx, v.events) /\ Alone(Rx, v.events) /\ Alone(Cti, v.events)
      /\ Jobs(v.events) = Jobs(u.events) \/ Jobs(v.events) = Jobs(u.events) \ {"int_cti"}
  BY DEF Cut, Right, TxRight, RxRight, CtiRight
<1>2. /\ Tx \cap Jobs(v.events) = Tx \cap Jobs(u.events)
      /\ Rx \cap Jobs(v.events) = Rx \cap Jobs(u.events)
      /\ "int_cti" \in Jobs(v.events) => "int_cti" \in Jobs(u.events)
  BY <1>1 DEF Tx, Rx
<1>3. TxRight(v)
  <2>1. TxJobs(v) = TxJobs(u)
    BY DEF Core, TxJobs
  <2> QED BY <1>1, <1>2, <2>1 DEF Right, TxRight, Core
<1>4. RxRight(v) /\ CtiRight(v)
  BY <1>1, <1>2 DEF Right, RxRight, CtiRight, Core
<1>5. Fits(v) /\ ClocksRight(v)
  BY DEF Right, Fits, ClocksRight, Core, char_clks
<1>6. LsrRight(v)
  BY DEF Right, LsrRight, Core
<1>7. Calm(u, v)
  BY <1>2 DEF Calm, Core, Drained, Receives
<1> QED BY <1>3, <1>4, <1>5, <1>6, <1>7 DEF Right

LEMMA SameCore ==
  ASSUME NEW u, NEW v, Same(u, v)
  PROVE  Core(u, v)
BY DEF Same, Core

\* Clearing an interrupt other than that of the line status.
LEMMA ClearKept ==
  ASSUME NEW u, Right(u), NEW i \in Interrupt \ {"RLSI"}, NEW v, v = uart_clear_int(u, i)
  PROVE  Right(v) /\ Calm(u, v)
<1>1. /\ Good(v) /\ Same(u, v) /\ v.ints = u.ints \ {i}
      /\ v.events = u.events \/ Cut(u.events, v.events, "int_cti")
  BY IntCleared DEF Right
<1> QED BY <1>1, SameCore, QuietKept

\* Raising one other than those of the line status and the timeout.
LEMMA RaiseKept ==
  ASSUME NEW u, Right(u), NEW i \in Interrupt \ {"RLSI", "CTI"}, NEW v, v = uart_int(u, i)
  PROVE  Right(v) /\ Calm(u, v)
<1>1. Good(v) /\ Same(u, v) /\ v.ints = u.ints \cup {i} /\ v.events = u.events
  BY IntMade DEF Right, Good
<1> QED BY <1>1, SameCore, QuietKept

\* The modem registers.
LEMMA ModemKept ==
  ASSUME NEW u, Right(u), NEW msr \in SUBSET MsrFlag, NEW mcr \in SUBSET McrFlag, NEW v,
         v = [u EXCEPT !.msr = msr] \/ v = [u EXCEPT !.mcr = mcr]
  PROVE  Right(v) /\ Calm(u, v)
<1>1. u \in Uart /\ Good(u)
  BY DEF Right, Good
<1>2. CASE v = [u EXCEPT !.msr = msr]
  <2>1. v \in Uart
    BY <1>1, <1>2, Zenon DEF Uart
  <2>2. Core(u, v)
    BY <1>1, <1>2, Zenon DEF Uart, Core
  <2>3. /\ v.events = u.events /\ v.ints = u.ints /\ v.iir = u.iir
        /\ (v.irqPending <=> u.irqPending) /\ v.ier = u.ier
    BY <1>1, <1>2, Zenon DEF Uart
  <2>4. Good(v)
    BY <1>1, <2>1, <2>3, GoodKept, Zenon
  <2> HIDE <1>2
  <2> QED BY <2>2, <2>3, <2>4, QuietKept, Zenon
<1>3. CASE v = [u EXCEPT !.mcr = mcr]
  <2>1. v \in Uart
    BY <1>1, <1>3, Zenon DEF Uart
  <2>2. Core(u, v)
    BY <1>1, <1>3, Zenon DEF Uart, Core
  <2>3. /\ v.events = u.events /\ v.ints = u.ints /\ v.iir = u.iir
        /\ (v.irqPending <=> u.irqPending) /\ v.ier = u.ier
    BY <1>1, <1>3, Zenon DEF Uart
  <2>4. Good(v)
    BY <1>1, <2>1, <2>3, GoodKept, Zenon
  <2> QED BY <2>2, <2>3, <2>4, QuietKept, Zenon
<1> QED BY <1>2, <1>3

\* uart_loopback.
LEMMA LoopbackKept ==
  ASSUME NEW u, Right(u), NEW v, v = uart_loopback(u)
  PROVE  Right(v) /\ (Receives(u) => Receives(v))
<1> DEFINE deltas == (u.msr \cap {"DDCD", "TERI", "DDSR", "DCTS"}) \cup Delta(u)
           msr == Level(u) \cup deltas
           w == [u EXCEPT !.msr = msr]
<1>1. CASE "LOOP" \notin u.mcr
  BY <1>1 DEF uart_loopback
<1>2. CASE "LOOP" \in u.mcr
  <2>1. v = IF deltas # {} THEN uart_int(w, "MSI") ELSE w
    BY <1>2 DEF uart_loopback
  <2>2. msr \in SUBSET MsrFlag
    BY DEF Level, Delta, MsrFlag
  <2> HIDE DEF deltas, msr
  <2>3. Right(w) /\ Calm(u, w)
    <3>1. {} \in SUBSET McrFlag
      OBVIOUS
    <3> QED BY <2>2, <3>1, ModemKept, Zenon
  <2> HIDE DEF w
  <2>4. CASE deltas # {}
    <3>1. "MSI" \in Interrupt \ {"RLSI", "CTI"} /\ v = uart_int(w, "MSI")
      BY <2>1, <2>4 DEF Interrupt
    <3>2. Right(v) /\ Calm(w, v)
      BY <2>3, <3>1, RaiseKept
    <3> QED BY <2>3, <3>2 DEF Calm
  <2>5. CASE deltas = {}
    BY <2>1, <2>3, <2>5 DEF Calm
  <2> QED BY <2>4, <2>5
<1> QED BY <1>1, <1>2

\* Reading RXBUF.
LEMMA ReadRxbufKept ==
  ASSUME NEW u, Right(u), NEW v, v = ReadRxbuf(u)
  PROVE  Right(v) /\ (Receives(u) => Receives(v))
<1> DEFINE rxbuf == IF u.rxbuf = <<>> THEN u.rxbuf ELSE Tail(u.rxbuf)
           x == WithRxbuf(u, rxbuf)
           y == uart_clear_int(x, "RDI")
           w == uart_clear_int(y, "CTI")
           delay == CHAR_TIMEOUT * u.char_clks
           e == WithLsr(w, w.lsr \ {"RDRDY"})
           f == WithLsr(w, w.lsr \cup {"RDRDY"})
           g == SchedAdd(f, "int_cti", delay)
           h == uart_check_rlsi(g)
<1>1. v = IF w.rxbuf = <<>> THEN e ELSE uart_check_rdi(h)
  <2>1. x = [u EXCEPT !.rxbuf = IF @ = <<>> THEN @ ELSE Tail(@)]
    BY DEF WithRxbuf
  <2> QED BY <2>1 DEF ReadRxbuf, WithLsr
<1>2. /\ u \in Uart /\ Good(u) /\ u.lsr \in SUBSET LsrFlag /\ u.rxbuf \in Seq(Char \cup {NoChar})
      /\ u.fifo_len \in Nat /\ u.ints \in SUBSET Interrupt
  BY UartAssumption DEF Right, Good, Uart
<1>3. rxbuf \in Seq(Char \cup {NoChar}) /\ Len(rxbuf) <= u.fifo_len
  <2>1. Len(u.rxbuf) <= u.fifo_len
    BY DEF Right, Fits
  <2> QED BY <1>2, <2>1
<1> HIDE DEF rxbuf
<1>4. /\ Good(x) /\ x.rxbuf = rxbuf /\ x.events = u.events /\ x.ints = u.ints /\ NotRx(u, x)
      /\ x.lsr = u.lsr
  <2>1. /\ Good(x) /\ x.rxbuf = rxbuf /\ x.events = u.events /\ x.ints = u.ints
        /\ x.txbuf = u.txbuf /\ x.lsr = u.lsr /\ x.dll = u.dll /\ x.dlh = u.dlh
        /\ x.lcr = u.lcr /\ x.char_clks = u.char_clks /\ x.fifo_len = u.fifo_len
        /\ x.wrapped = u.wrapped
    BY <1>2, <1>3, RxbufSet
  <2> QED BY <2>1 DEF NotRx
<1> HIDE DEF x
<1>5. Good(y) /\ Same(x, y) /\ y.ints = u.ints \ {"RDI"} /\ y.events = u.events
  <2>1. "RDI" \in Interrupt /\ "RDI" # "CTI"
    BY DEF Interrupt
  <2> QED BY <1>4, <2>1, IntCleared
<1> HIDE DEF y
<1>6. Good(w) /\ Same(y, w) /\ w.ints = u.ints \ {"RDI", "CTI"} /\ Cut(u.events, w.events, "int_cti")
  <2>1. "CTI" \in Interrupt
    BY DEF Interrupt
  <2> QED BY <1>5, <2>1, IntCleared
<1> HIDE DEF w
<1>7. w.rxbuf = rxbuf /\ w.lsr = u.lsr /\ NotRx(u, w) /\ w \in Uart
  BY <1>4, <1>5, <1>6 DEF Same, NotRx, Good
<1>8. /\ Jobs(w.events) = Jobs(u.events) \ {"int_cti"}
      /\ Alone(Tx, w.events) /\ Alone(Rx, w.events) /\ Alone(Cti, w.events)
  BY <1>6 DEF Cut, Right, TxRight, RxRight, CtiRight
<1>9. ASSUME NEW q, Good(q), NotRx(u, q), q.rxbuf = rxbuf,
             "OVRRUN" \in q.lsr <=> "RLSI" \in q.ints, "RDRDY" \in q.lsr <=> rxbuf # <<>>,
             Alone(Tx, q.events), Alone(Rx, q.events), Alone(Cti, q.events),
             Jobs(q.events) \in {Jobs(w.events), Jobs(w.events) \cup {"int_cti"}},
             "CTI" \in q.ints \/ "int_cti" \in Jobs(q.events) => rxbuf # <<>>
      PROVE  Right(q) /\ (Receives(u) => Receives(q))
  <2>1. TxRight(q)
    <3>1. TxJobs(q) = TxJobs(u)
      BY <1>9 DEF NotRx, TxJobs
    <3>2. Tx \cap Jobs(q.events) = Tx \cap Jobs(u.events)
      BY <1>8, <1>9 DEF Tx
    <3> QED BY <1>9, <3>1, <3>2 DEF Right, TxRight, NotRx
  <2>2. RxRight(q) /\ CtiRight(q)
    BY <1>9 DEF RxRight, CtiRight
  <2>3. Fits(q)
    BY <1>3, <1>9 DEF Right, Fits, NotRx
  <2>4. LsrRight(q)
    BY <1>9 DEF Right, LsrRight, NotRx
  <2>5. ClocksRight(q)
    BY <1>9 DEF Right, ClocksRight, NotRx, char_clks
  <2>6. Receives(u) => Receives(q)
    BY <1>8, <1>9 DEF Receives, Rx
  <2> QED BY <1>9, <2>1, <2>2, <2>3, <2>4, <2>5, <2>6 DEF Right
<1>10. "OVRRUN" \in u.lsr <=> "RLSI" \in u.ints
  BY DEF Right, LsrRight
<1>11. CASE w.rxbuf = <<>>
  <2>1. v = e
    BY <1>1, <1>11
  <2> DEFINE lsr == w.lsr \ {"RDRDY"}
  <2>2. lsr \in SUBSET LsrFlag /\ e = WithLsr(w, lsr)
    BY <1>2, <1>7
  <2> HIDE DEF lsr, e
  <2>3. /\ Good(e) /\ e.lsr = lsr /\ e.events = w.events /\ e.ints = w.ints
        /\ e.txbuf = w.txbuf /\ e.rxbuf = w.rxbuf /\ e.dll = w.dll /\ e.dlh = w.dlh
        /\ e.lcr = w.lcr /\ e.char_clks = w.char_clks /\ e.fifo_len = w.fifo_len
        /\ e.wrapped = w.wrapped
    BY <1>6, <2>2, LsrSet
  <2>4. NotRx(u, e) /\ e.rxbuf = rxbuf /\ e.lsr = u.lsr \ {"RDRDY"} /\ e.ints = u.ints \ {"RDI", "CTI"}
    BY <1>6, <1>7, <2>3 DEF NotRx, lsr
  <2> QED BY <1>7, <1>8, <1>9, <1>10, <1>11, <2>1, <2>3, <2>4
<1>12. CASE w.rxbuf # <<>>
  <2>1. v = uart_check_rdi(h)
    BY <1>1, <1>12
  <2> DEFINE lsr == w.lsr \cup {"RDRDY"}
  <2>2. lsr \in SUBSET LsrFlag /\ f = WithLsr(w, lsr)
    BY <1>2, <1>7 DEF LsrFlag
  <2> HIDE DEF lsr, f
  <2>3. /\ Good(f) /\ f.lsr = lsr /\ f.events = w.events /\ f.ints = w.ints
        /\ f.txbuf = w.txbuf /\ f.rxbuf = w.rxbuf /\ f.dll = w.dll /\ f.dlh = w.dlh
        /\ f.lcr = w.lcr /\ f.char_clks = w.char_clks /\ f.fifo_len = w.fifo_len
        /\ f.wrapped = w.wrapped
    BY <1>6, <2>2, LsrSet
  <2>4. NotRx(u, f) /\ f.rxbuf = rxbuf /\ f.lsr = u.lsr \cup {"RDRDY"} /\ f.ints = u.ints \ {"RDI", "CTI"}
    BY <1>6, <1>7, <2>3 DEF NotRx, lsr
  <2>5. Good(g) /\ Same(f, g) /\ g.ints = f.ints /\ Added(w.events, g.events, "int_cti")
    <3>1. delay \in 0..MaxDelay /\ "int_cti" \in Job
      BY <1>2, Delays DEF Job
    <3> HIDE DEF delay
    <3> QED BY <2>3, <3>1, Scheduled
  <2> HIDE DEF g
  <2>6. /\ Jobs(g.events) = Jobs(w.events) \cup {"int_cti"}
        /\ Alone(Tx, g.events) /\ Alone(Rx, g.events) /\ Alone(Cti, g.events)
    <3>1. "int_cti" \notin Tx /\ "int_cti" \notin Rx /\ Cti \cap Jobs(w.events) = {}
      BY <1>8 DEF Tx, Rx, Cti
    <3> QED BY <1>8, <2>5, <3>1 DEF Added
  <2>7. /\ Good(h) /\ Same(g, h) /\ h.events = g.events
        /\ h.ints = g.ints \cup (IF "OVRRUN" \in g.lsr THEN {"RLSI"} ELSE {})
    BY <2>5, Checked
  <2> HIDE DEF h
  <2>8. /\ Good(v) /\ Same(h, v) /\ v.events = h.events /\ v.ints \in {h.ints, h.ints \cup {"RDI"}}
    BY <2>1, <2>7, Checked
  <2>9. NotRx(u, v) /\ v.rxbuf = rxbuf /\ v.lsr = u.lsr \cup {"RDRDY"}
    <3>1. NotRx(u, g) /\ g.rxbuf = rxbuf /\ g.lsr = u.lsr \cup {"RDRDY"}
      BY <2>4, <2>5 DEF NotRx, Same
    <3>2. NotRx(u, h) /\ h.rxbuf = rxbuf /\ h.lsr = u.lsr \cup {"RDRDY"}
      BY <2>7, <3>1 DEF NotRx, Same
    <3> QED BY <2>8, <3>2 DEF NotRx, Same
  <2>10. "OVRRUN" \in v.lsr <=> "RLSI" \in v.ints
    <3>1. g.lsr = u.lsr \cup {"RDRDY"} /\ g.ints = u.ints \ {"RDI", "CTI"}
      BY <2>4, <2>5 DEF Same
    <3>2. "RLSI" \in h.ints <=> "OVRRUN" \in u.lsr
      BY <1>10, <2>7, <3>1
    <3> QED BY <2>8, <2>9, <3>2
  <2>11. v.events = g.events
    BY <2>7, <2>8
  <2> QED BY <1>7, <1>9, <1>12, <2>6, <2>8, <2>9, <2>10, <2>11
<1> QED BY <1>11, <1>12

\* Reading LSR.
LEMMA ReadLsrKept ==
  ASSUME NEW u, Right(u), NEW v,
         v = uart_clear_int(WithLsr(u, u.lsr \ {"OVRRUN", "RXERR"}), "RLSI")
  PROVE  Right(v) /\ (Receives(u) => Receives(v))
<1> DEFINE lsr == u.lsr \ {"OVRRUN", "RXERR"}
           x == WithLsr(u, lsr)
<1>1. u \in Uart /\ Good(u) /\ lsr \in SUBSET LsrFlag /\ u.ints \in SUBSET Interrupt
  BY DEF Right, Good, Uart
<1>2. lsr = u.lsr \ {"OVRRUN", "RXERR"} /\ v = uart_clear_int(x, "RLSI")
  OBVIOUS
<1> HIDE DEF lsr
<1>3. /\ Good(x) /\ x.lsr = lsr /\ x.events = u.events /\ x.ints = u.ints
      /\ x.txbuf = u.txbuf /\ x.rxbuf = u.rxbuf /\ x.dll = u.dll /\ x.dlh = u.dlh
      /\ x.lcr = u.lcr /\ x.char_clks = u.char_clks /\ x.fifo_len = u.fifo_len
      /\ x.wrapped = u.wrapped
  BY <1>1, LsrSet
<1> HIDE DEF x
<1>4. Good(v) /\ Same(x, v) /\ v.ints = u.ints \ {"RLSI"} /\ v.events = u.events
  <2>1. "RLSI" \in Interrupt /\ "RLSI" # "CTI"
    BY DEF Interrupt
  <2> DEFINE w == uart_clear_int(x, "RLSI")
  <2>2. Good(w) /\ Same(x, w) /\ w.ints = x.ints \ {"RLSI"} /\ w.events = x.events
    BY <1>3, <2>1, IntCleared
  <2>3. v = w
    BY <1>2
  <2> HIDE DEF w
  <2> QED BY <1>3, <2>2, <2>3
<1>5. /\ v.lsr = u.lsr \ {"OVRRUN", "RXERR"} /\ v.txbuf = u.txbuf /\ v.rxbuf = u.rxbuf
      /\ v.dll = u.dll /\ v.dlh = u.dlh /\ v.lcr = u.lcr /\ v.char_clks = u.char_clks
      /\ v.fifo_len = u.fifo_len /\ v.wrapped = u.wrapped
  BY <1>2, <1>3, <1>4 DEF Same
<1>6. TxRight(v)
  <2>1. TxJobs(v) = TxJobs(u)
    BY <1>5 DEF TxJobs
  <2> QED BY <1>4, <1>5, <2>1 DEF Right, TxRight
<1>7. RxRight(v) /\ CtiRight(v) /\ Fits(v) /\ ClocksRight(v)
  BY <1>4, <1>5 DEF Right, RxRight, CtiRight, Fits, ClocksRight, char_clks
<1>8. LsrRight(v)
  BY <1>4, <1>5 DEF Right, LsrRight
<1> QED BY <1>4, <1>6, <1>7, <1>8 DEF Right, Receives

\* uart_read_byte.
LEMMA ReadKept ==
  ASSUME NEW u, Right(u), NEW reg, NEW v, v = uart_read_byte(u, reg)
  PROVE  Right(v) /\ (Receives(u) => Receives(v))
<1>1. CASE reg = "RXBUF"
  <2>1. v = ReadRxbuf(u)
    BY <1>1 DEF uart_read_byte
  <2> QED BY <2>1, ReadRxbufKept
<1>2. CASE reg = "IIR"
  <2>1. v = uart_clear_int(u, "THRI") \/ v = u
    BY <1>2 DEF uart_read_byte
  <2>2. "THRI" \in Interrupt \ {"RLSI"}
    BY DEF Interrupt
  <2>3. CASE v = uart_clear_int(u, "THRI")
    BY <2>2, <2>3, ClearKept DEF Calm
  <2> QED BY <2>1, <2>3
<1>3. CASE reg = "LSR"
  <2>1. v = uart_clear_int(WithLsr(u, u.lsr \ {"OVRRUN", "RXERR"}), "RLSI")
    BY <1>3 DEF uart_read_byte, WithLsr
  <2> QED BY <2>1, ReadLsrKept
<1>4. CASE reg = "MSR"
  <2> DEFINE x == [u EXCEPT !.msr = {}]
             y == uart_clear_int(x, "MSI")
  <2>1. v = uart_loopback(y)
    BY <1>4 DEF uart_read_byte
  <2>2. Right(x) /\ Calm(u, x)
    <3>1. {} \in SUBSET McrFlag /\ {} \in SUBSET MsrFlag
      OBVIOUS
    <3> QED BY <3>1, ModemKept, Zenon
  <2> HIDE DEF x
  <2>3. Right(y) /\ Calm(x, y)
    <3>1. "MSI" \in Interrupt \ {"RLSI"}
      BY DEF Interrupt
    <3> QED BY <2>2, <3>1, ClearKept
  <2> HIDE DEF y
  <2>4. Right(v) /\ (Receives(y) => Receives(v))
    BY <2>1, <2>3, LoopbackKept
  <2> QED BY <2>2, <2>3, <2>4 DEF Calm
<1>5. CASE reg \notin {"RXBUF", "IIR", "LSR", "MSR"}
  <2>1. v = u
    BY <1>5 DEF uart_read_byte
  <2> QED BY <2>1
<1> QED BY <1>1, <1>2, <1>3, <1>4, <1>5

WithTxbuf(u, txbuf) == [u EXCEPT !.txbuf = txbuf]

LEMMA TxbufSet ==
  ASSUME NEW u, Good(u), NEW txbuf \in Seq(Char), NEW v, v = WithTxbuf(u, txbuf)
  PROVE  /\ Good(v) /\ v.txbuf = txbuf /\ v.events = u.events /\ v.ints = u.ints
         /\ v.rxbuf = u.rxbuf /\ v.lsr = u.lsr /\ v.dll = u.dll /\ v.dlh = u.dlh
         /\ v.lcr = u.lcr /\ v.char_clks = u.char_clks /\ v.fifo_len = u.fifo_len
         /\ v.wrapped = u.wrapped
<1>1. u \in Uart /\ v = [u EXCEPT !.txbuf = txbuf]
  BY DEF Good, WithTxbuf
<1>2. v \in Uart
  BY <1>1, Zenon DEF Uart
<1>3. v.txbuf = txbuf
  BY <1>1, Zenon DEF Uart
<1>4. /\ v.rxbuf = u.rxbuf /\ v.lsr = u.lsr /\ v.dll = u.dll /\ v.dlh = u.dlh
      /\ v.lcr = u.lcr /\ v.char_clks = u.char_clks /\ v.fifo_len = u.fifo_len
      /\ v.wrapped = u.wrapped
  BY <1>1, Zenon DEF Uart
<1>5. /\ v.events = u.events /\ v.ints = u.ints /\ v.iir = u.iir
      /\ (v.irqPending <=> u.irqPending) /\ v.ier = u.ier
  BY <1>1, Zenon DEF Uart
<1>6. Good(v)
  BY <1>2, <1>5, GoodKept
<1> QED BY <1>3, <1>4, <1>5, <1>6

LEMMA Replaced ==
  ASSUME NEW T, NEW b \in Seq(T), NEW e \in T, b # <<>>
  PROVE  /\ [b EXCEPT ![1] = e] \in Seq(T) /\ [b EXCEPT ![1] = e] # <<>>
         /\ Len([b EXCEPT ![1] = e]) = Len(b)
<1> DEFINE c == [b EXCEPT ![1] = e]
<1>1. Len(b) \in Nat \ {0} /\ DOMAIN b = 1..Len(b) /\ \A n \in 1..Len(b) : b[n] \in T
  OBVIOUS
<1>2. c \in [1..Len(b) -> T]
  BY <1>1
<1>3. c \in Seq(T) /\ Len(c) = Len(b)
  BY <1>1, <1>2
<1>4. c # <<>>
  BY <1>1, <1>3
<1> QED BY <1>3, <1>4

LEMMA Longer ==
  ASSUME NEW T, NEW b \in Seq(T), NEW e \in T
  PROVE  /\ Append(b, e) \in Seq(T) /\ Append(b, e) # <<>> /\ Len(Append(b, e)) = Len(b) + 1
         /\ Len(b) \in Nat
OBVIOUS

\* The fields that the transmitter leaves alone.
NotTx(u, v) ==
  /\ v.rxbuf = u.rxbuf /\ v.dll = u.dll /\ v.dlh = u.dlh /\ v.lcr = u.lcr
  /\ v.char_clks = u.char_clks /\ v.wrapped = u.wrapped
  /\ v.lsr \ {"TXBUFE"} = u.lsr \ {"TXBUFE"} /\ v.ints = u.ints

\* Writing TXBUF.
LEMMA WriteTxbufKept ==
  ASSUME NEW u, Right(u), NEW value \in Char, NEW v, v = WriteTxbuf(u, value)
  PROVE  Right(v) /\ (Receives(u) => Receives(v))
<1> DEFINE x == WithLsr(u, u.lsr \ {"TXBUFE"})
           over == [x.txbuf EXCEPT ![1] = value]
           more == Append(x.txbuf, value)
           y == WithTxbuf(x, more)
           w == IF Len(u.txbuf) = u.fifo_len THEN WithTxbuf(x, over)
                ELSE IF u.txbuf = <<>> /\ "TXSERE" \in u.lsr THEN SchedAdd(y, "tx_send", 0) ELSE y
<1>1. v = uart_clear_int(w, "THRI")
  BY DEF WriteTxbuf, WithLsr, WithTxbuf
<1>2. /\ u \in Uart /\ Good(u) /\ u.lsr \in SUBSET LsrFlag /\ u.txbuf \in Seq(Char)
      /\ u.fifo_len \in Nat \ {0} /\ Len(u.txbuf) <= u.fifo_len
  BY UartAssumption DEF Right, Good, Uart, Fits
<1> HIDE DEF w
<1>3. /\ Good(x) /\ x.lsr = u.lsr \ {"TXBUFE"} /\ x.events = u.events /\ x.txbuf = u.txbuf
      /\ NotTx(u, x) /\ x.fifo_len = u.fifo_len
  <2> DEFINE lsr == u.lsr \ {"TXBUFE"}
  <2>1. lsr \in SUBSET LsrFlag /\ x = WithLsr(u, lsr)
    BY <1>2
  <2> HIDE DEF lsr, x
  <2>2. /\ Good(x) /\ x.lsr = lsr /\ x.events = u.events /\ x.ints = u.ints
        /\ x.txbuf = u.txbuf /\ x.rxbuf = u.rxbuf /\ x.dll = u.dll /\ x.dlh = u.dlh
        /\ x.lcr = u.lcr /\ x.char_clks = u.char_clks /\ x.fifo_len = u.fifo_len
        /\ x.wrapped = u.wrapped
    BY <1>2, <2>1, LsrSet
  <2> QED BY <2>2 DEF NotTx, lsr
<1> HIDE DEF x
<1>4. ASSUME NEW b \in Seq(Char), NEW q, q = WithTxbuf(x, b)
      PROVE  /\ Good(q) /\ q.txbuf = b /\ q.lsr = u.lsr \ {"TXBUFE"} /\ q.events = u.events
             /\ NotTx(u, q) /\ q.fifo_len = u.fifo_len
  <2>1. /\ Good(q) /\ q.txbuf = b /\ q.events = x.events /\ q.ints = x.ints
        /\ q.rxbuf = x.rxbuf /\ q.lsr = x.lsr /\ q.dll = x.dll /\ q.dlh = x.dlh
        /\ q.lcr = x.lcr /\ q.char_clks = x.char_clks /\ q.fifo_len = x.fifo_len
        /\ q.wrapped = x.wrapped
    BY <1>3, <1>4, TxbufSet
  <2> QED BY <1>3, <2>1 DEF NotTx
<1>5. ASSUME NEW q, Good(q), q.txbuf \in Seq(Char), q.txbuf # <<>>, Len(q.txbuf) <= u.fifo_len,
             q.lsr = u.lsr \ {"TXBUFE"}, NotTx(u, q), q.fifo_len = u.fifo_len,
             Alone(Tx, q.events), Alone(Rx, q.events), Alone(Cti, q.events),
             IF u.txbuf = <<>> /\ "TXSERE" \in u.lsr
             THEN Jobs(q.events) = Jobs(u.events) \cup {"tx_send"}
             ELSE Jobs(q.events) = Jobs(u.events)
      PROVE  Right(q) /\ (Receives(u) => Receives(q))
  <2>1. /\ q.rxbuf = u.rxbuf /\ q.dll = u.dll /\ q.dlh = u.dlh /\ q.lcr = u.lcr
        /\ q.char_clks = u.char_clks /\ q.wrapped = u.wrapped /\ q.ints = u.ints
    BY <1>5 DEF NotTx
  <2>2. TxRight(q)
    <3>1. Tx \cap Jobs(u.events) = TxJobs(u) /\ "tx_send" \in Tx /\ u.wrapped = FALSE
      BY DEF Right, TxRight, Tx
    <3>2. CASE "TXSERE" \notin u.lsr
      BY <1>5, <2>1, <3>1, <3>2 DEF TxRight, TxJobs
    <3>3. CASE "TXSERE" \in u.lsr /\ u.txbuf = <<>>
      <4>1. TxJobs(q) = {"tx_send"}
        BY <1>5, <3>3 DEF TxJobs
      <4>2. Tx \cap Jobs(q.events) = {"tx_send"}
        <5>1. Jobs(q.events) = Jobs(u.events) \cup {"tx_send"} /\ Tx \cap Jobs(u.events) = {}
          BY <1>5, <3>1, <3>3 DEF TxJobs
        <5> QED BY <3>1, <5>1
      <4> QED BY <1>5, <2>1, <3>1, <4>1, <4>2 DEF TxRight
    <3>4. CASE "TXSERE" \in u.lsr /\ u.txbuf # <<>>
      BY <1>5, <2>1, <3>1, <3>4 DEF TxRight, TxJobs
    <3> QED BY <3>2, <3>3, <3>4
  <2>3. RxRight(q) /\ CtiRight(q)
    BY <1>5, <2>1 DEF Right, RxRight, CtiRight
  <2>4. Fits(q)
    BY <1>5, <2>1 DEF Right, Fits
  <2>5. LsrRight(q)
    BY <1>5, <2>1 DEF Right, LsrRight
  <2>6. ClocksRight(q)
    BY <2>1 DEF Right, ClocksRight, char_clks
  <2>7. Receives(u) => Receives(q)
    BY <1>5 DEF Receives
  <2> QED BY <1>5, <2>2, <2>3, <2>4, <2>5, <2>6, <2>7 DEF Right
<1>6. Alone(Tx, u.events) /\ Alone(Rx, u.events) /\ Alone(Cti, u.events)
      /\ Tx \cap Jobs(u.events) = TxJobs(u)
  BY DEF Right, TxRight, RxRight, CtiRight
<1>7. Right(w) /\ (Receives(u) => Receives(w))
  <2>1. CASE Len(u.txbuf) = u.fifo_len
    <3>1. w = WithTxbuf(x, over)
      BY <2>1 DEF w
    <3>2. over \in Seq(Char) /\ over # <<>> /\ Len(over) <= u.fifo_len /\ u.txbuf # <<>>
      <4>1. x.txbuf = u.txbuf /\ u.txbuf \in Seq(Char) /\ u.txbuf # <<>>
        BY <1>2, <1>3, <2>1
      <4>2. over \in Seq(Char) /\ over # <<>> /\ Len(over) = Len(u.txbuf)
        BY <4>1, Replaced
      <4> HIDE DEF over
      <4> QED BY <1>2, <4>1, <4>2
    <3> HIDE DEF over
    <3>3. /\ Good(w) /\ w.txbuf = over /\ w.lsr = u.lsr \ {"TXBUFE"} /\ w.events = u.events
          /\ NotTx(u, w) /\ w.fifo_len = u.fifo_len
      BY <1>4, <3>1, <3>2
    <3> QED BY <1>5, <1>6, <3>2, <3>3
  <2>2. CASE Len(u.txbuf) # u.fifo_len
    <3>1. more \in Seq(Char) /\ more # <<>> /\ Len(more) <= u.fifo_len
      <4>1. more \in Seq(Char) /\ more # <<>> /\ Len(more) = Len(u.txbuf) + 1 /\ Len(u.txbuf) \in Nat
        BY <1>2, <1>3, Longer
      <4> HIDE DEF more
      <4> QED BY <1>2, <2>2, <4>1
    <3> HIDE DEF more
    <3>2. /\ Good(y) /\ y.txbuf = more /\ y.lsr = u.lsr \ {"TXBUFE"} /\ y.events = u.events
          /\ NotTx(u, y) /\ y.fifo_len = u.fifo_len
      BY <1>4, <3>1
    <3> HIDE DEF y
    <3>3. CASE u.txbuf = <<>> /\ "TXSERE" \in u.lsr
      <4>1. w = SchedAdd(y, "tx_send", 0)
        BY <2>2, <3>3 DEF w
      <4>2. Good(w) /\ Same(y, w) /\ w.ints = y.ints /\ Added(y.events, w.events, "tx_send")
        <5>1. "tx_send" \in Job /\ 0 \in 0..MaxDelay
          BY <1>2, Delays DEF Job
        <5> QED BY <3>2, <4>1, <5>1, Scheduled
      <4>3. /\ Jobs(w.events) = Jobs(u.events) \cup {"tx_send"}
            /\ Alone(Tx, w.events) /\ Alone(Rx, w.events) /\ Alone(Cti, w.events)
        <5>1. Tx \cap Jobs(u.events) = {} /\ "tx_send" \notin Rx /\ "tx_send" \notin Cti
          BY <1>6, <3>3 DEF TxJobs, Rx, Cti
        <5> QED BY <1>6, <3>2, <4>2, <5>1 DEF Added
      <4>4. /\ w.txbuf = more /\ w.lsr = u.lsr \ {"TXBUFE"} /\ NotTx(u, w)
            /\ w.fifo_len = u.fifo_len
        BY <3>2, <4>2 DEF Same, NotTx
      <4> QED BY <1>5, <3>1, <3>3, <4>2, <4>3, <4>4
    <3>4. CASE ~(u.txbuf = <<>> /\ "TXSERE" \in u.lsr)
      <4>1. w = y
        BY <2>2, <3>4 DEF w
      <4> QED BY <1>5, <1>6, <3>1, <3>2, <3>4, <4>1
    <3> QED BY <3>3, <3>4
  <2> QED BY <2>1, <2>2
<1>8. Right(v) /\ Calm(w, v)
  <2>1. "THRI" \in Interrupt \ {"RLSI"}
    BY DEF Interrupt
  <2> QED BY <1>1, <1>7, <2>1, ClearKept
<1> QED BY <1>7, <1>8 DEF Calm

\* The invariant but for the length of the buffers.
Body(u) ==
  Good(u) /\ TxRight(u) /\ RxRight(u) /\ CtiRight(u) /\ LsrRight(u) /\ ClocksRight(u)

\* What a reset of the transmitter's buffer does.
TxEmptied(u) == [u EXCEPT !.txbuf = <<>>, !.lsr = u.lsr \cup {"TXBUFE"}]

LEMMA TxReset ==
  ASSUME NEW u, Body(u), NEW fie \in BOOLEAN, NEW x, x = TxEmptied(u),
         NEW v, v = SchedFindRemove(IF fie THEN uart_int(x, "THRI") ELSE x, "tx_send")
  PROVE  /\ Body(v) /\ v.txbuf = <<>> /\ v.rxbuf = u.rxbuf /\ v.fifo_len = u.fifo_len
         /\ Receives(u) => Receives(v)
<1> DEFINE y == IF fie THEN uart_int(x, "THRI") ELSE x
<1>1. u \in Uart /\ Good(u) /\ u.lsr \cup {"TXBUFE"} \in SUBSET LsrFlag /\ <<>> \in Seq(Char)
  BY DEF Body, Good, Uart, LsrFlag
<1>2. /\ Good(x) /\ x.txbuf = <<>> /\ x.lsr = u.lsr \cup {"TXBUFE"} /\ x.rxbuf = u.rxbuf
      /\ x.dll = u.dll /\ x.dlh = u.dlh /\ x.lcr = u.lcr /\ x.char_clks = u.char_clks
      /\ x.fifo_len = u.fifo_len /\ x.wrapped = u.wrapped /\ x.events = u.events /\ x.ints = u.ints
  <2>0. x = [u EXCEPT !.txbuf = <<>>, !.lsr = u.lsr \cup {"TXBUFE"}]
    BY DEF TxEmptied
  <2>1. x \in Uart
    BY <1>1, <2>0, Zenon DEF Uart
  <2>2. x.txbuf = <<>> /\ x.lsr = u.lsr \cup {"TXBUFE"}
    BY <1>1, <2>0, Zenon DEF Uart
  <2>3. /\ x.rxbuf = u.rxbuf /\ x.dll = u.dll /\ x.dlh = u.dlh /\ x.lcr = u.lcr
        /\ x.char_clks = u.char_clks /\ x.fifo_len = u.fifo_len /\ x.wrapped = u.wrapped
    BY <1>1, <2>0, Zenon DEF Uart
  <2>4. /\ x.events = u.events /\ x.ints = u.ints /\ x.iir = u.iir
        /\ (x.irqPending <=> u.irqPending) /\ x.ier = u.ier
    BY <1>1, <2>0, Zenon DEF Uart
  <2>5. Good(x)
    BY <1>1, <2>1, <2>4, GoodKept
  <2> QED BY <2>2, <2>3, <2>4, <2>5
<1>3. Good(y) /\ Same(x, y) /\ y.events = x.events /\ y.ints \in {x.ints, x.ints \cup {"THRI"}}
  <2>1. CASE fie = TRUE
    <3>1. y = uart_int(x, "THRI")
      BY <2>1
    <3>2. x \in Uart /\ "THRI" \in Interrupt
      BY <1>2 DEF Good, Interrupt
    <3> DEFINE z == uart_int(x, "THRI")
    <3>3. z \in Uart /\ Same(x, z) /\ z.events = x.events /\ z.ints = x.ints \cup {"THRI"}
      BY <3>2, IntMade
    <3>4. Good(x) => Good(z)
      BY <3>2, IntMade
    <3>5. y = z
      BY <3>1
    <3> HIDE DEF z, y
    <3> QED BY <1>2, <3>3, <3>4, <3>5, Zenon
  <2>2. CASE fie = FALSE
    <3>1. y = x /\ Same(x, x)
      BY <2>2 DEF Same
    <3> HIDE DEF y
    <3> QED BY <1>2, <3>1, Zenon
  <2> QED BY <2>1, <2>2
<1>4. v = SchedFindRemove(y, "tx_send")
  OBVIOUS
<1> HIDE DEF y
<1>5. Good(v) /\ Same(y, v) /\ v.ints = y.ints /\ Cut(y.events, v.events, "tx_send")
  BY <1>3, <1>4, Removed
<1>6. Jobs(v.events) = Jobs(u.events) \ {"tx_send"}
      /\ Alone(Tx, v.events) /\ Alone(Rx, v.events) /\ Alone(Cti, v.events)
  <2>1. y.events = u.events
    BY <1>2, <1>3, Zenon
  <2>2. Cut(u.events, v.events, "tx_send")
    BY <1>5, <2>1, Zenon
  <2>3. Alone(Tx, u.events) /\ Alone(Rx, u.events) /\ Alone(Cti, u.events)
    BY Zenon DEF Body, TxRight, RxRight, CtiRight
  <2> QED BY <2>2, <2>3, Zenon DEF Cut
<1>7. /\ v.txbuf = <<>> /\ v.lsr = u.lsr \cup {"TXBUFE"} /\ v.rxbuf = u.rxbuf
      /\ v.dll = u.dll /\ v.dlh = u.dlh /\ v.lcr = u.lcr /\ v.char_clks = u.char_clks
      /\ v.fifo_len = u.fifo_len /\ v.wrapped = u.wrapped
  BY <1>2, <1>3, <1>5, Zenon DEF Same
<1>8. v.ints \in {u.ints, u.ints \cup {"THRI"}}
  BY <1>2, <1>3, <1>5, Zenon
<1>9. Body(u)
  OBVIOUS
<1>10. TxRight(v)
  <2>1. Tx \cap Jobs(u.events) = TxJobs(u) /\ u.wrapped = FALSE
    BY <1>9, Zenon DEF Body, TxRight
  <2>2. TxJobs(v) = TxJobs(u) \ {"tx_send"}
    <3>1. "TXSERE" \in v.lsr <=> "TXSERE" \in u.lsr
      BY <1>7, Zenon
    <3>2. CASE "TXSERE" \notin u.lsr
      <4>1. TxJobs(v) = TxJobs(u) /\ "tx_send" \notin TxJobs(u)
        BY <1>7, <3>1, <3>2 DEF TxJobs
      <4> QED BY <4>1
    <3>3. CASE "TXSERE" \in u.lsr
      BY <1>7, <3>1, <3>3 DEF TxJobs
    <3> QED BY <3>2, <3>3
  <2>3. Tx \cap Jobs(v.events) = TxJobs(v)
    BY <1>6, <2>1, <2>2
  <2> QED BY <1>6, <1>7, <2>1, <2>3 DEF TxRight
<1> QED
  <2>1. RxRight(v) /\ CtiRight(v)
    BY <1>6, <1>7, <1>8, <1>9 DEF Body, RxRight, CtiRight
  <2>2. LsrRight(v)
    BY <1>7, <1>8, <1>9 DEF Body, LsrRight
  <2>3. ClocksRight(v)
    BY <1>7, <1>9 DEF Body, ClocksRight, char_clks
  <2>4. Receives(u) => Receives(v)
    BY <1>6 DEF Receives, Rx
  <2> QED BY <1>5, <1>7, <1>10, <2>1, <2>2, <2>3, <2>4 DEF Body

\* What a reset of the receiver's buffer does.
RxEmptied(u) == [u EXCEPT !.rxbuf = <<>>, !.lsr = u.lsr \ {"RDRDY"}]

LEMMA RxReset ==
  ASSUME NEW u, Body(u), NEW x, x = RxEmptied(u),
         NEW v, v = uart_clear_int(uart_clear_int(x, "RDI"), "CTI")
  PROVE  /\ Body(v) /\ v.rxbuf = <<>> /\ v.txbuf = u.txbuf /\ v.fifo_len = u.fifo_len
         /\ Receives(u) => Receives(v)
<1> DEFINE y == uart_clear_int(x, "RDI")
<1>1. u \in Uart /\ Good(u) /\ u.lsr \ {"RDRDY"} \in SUBSET LsrFlag /\ <<>> \in Seq(Char \cup {NoChar})
  BY DEF Body, Good, Uart, LsrFlag
<1>2. /\ Good(x) /\ x.rxbuf = <<>> /\ x.lsr = u.lsr \ {"RDRDY"} /\ x.txbuf = u.txbuf
      /\ x.dll = u.dll /\ x.dlh = u.dlh /\ x.lcr = u.lcr /\ x.char_clks = u.char_clks
      /\ x.fifo_len = u.fifo_len /\ x.wrapped = u.wrapped /\ x.events = u.events /\ x.ints = u.ints
  <2>0. x = [u EXCEPT !.rxbuf = <<>>, !.lsr = u.lsr \ {"RDRDY"}]
    BY DEF RxEmptied
  <2>1. x \in Uart
    BY <1>1, <2>0, Zenon DEF Uart
  <2>2. x.rxbuf = <<>> /\ x.lsr = u.lsr \ {"RDRDY"}
    BY <1>1, <2>0, Zenon DEF Uart
  <2>3. /\ x.txbuf = u.txbuf /\ x.dll = u.dll /\ x.dlh = u.dlh /\ x.lcr = u.lcr
        /\ x.char_clks = u.char_clks /\ x.fifo_len = u.fifo_len /\ x.wrapped = u.wrapped
    BY <1>1, <2>0, Zenon DEF Uart
  <2>4. /\ x.events = u.events /\ x.ints = u.ints /\ x.iir = u.iir
        /\ (x.irqPending <=> u.irqPending) /\ x.ier = u.ier
    BY <1>1, <2>0, Zenon DEF Uart
  <2>5. Good(x)
    BY <1>1, <2>1, <2>4, GoodKept
  <2> QED BY <2>2, <2>3, <2>4, <2>5
<1>3. v = uart_clear_int(y, "CTI")
  OBVIOUS
<1>4. "RDI" \in Interrupt /\ "RDI" # "CTI" /\ "CTI" \in Interrupt
  BY DEF Interrupt
<1>5. Good(y) /\ Same(x, y) /\ y.ints = x.ints \ {"RDI"} /\ y.events = x.events
  BY <1>2, <1>4, IntCleared
<1> HIDE DEF y
<1>6. Good(v) /\ Same(y, v) /\ v.ints = y.ints \ {"CTI"} /\ Cut(y.events, v.events, "int_cti")
  BY <1>3, <1>4, <1>5, IntCleared
<1>7. /\ v.rxbuf = <<>> /\ v.lsr = u.lsr \ {"RDRDY"} /\ v.txbuf = u.txbuf
      /\ v.dll = u.dll /\ v.dlh = u.dlh /\ v.lcr = u.lcr /\ v.char_clks = u.char_clks
      /\ v.fifo_len = u.fifo_len /\ v.wrapped = u.wrapped
  BY <1>2, <1>5, <1>6, Zenon DEF Same
<1>8. v.ints = (u.ints \ {"RDI"}) \ {"CTI"} /\ Cut(u.events, v.events, "int_cti")
  BY <1>2, <1>5, <1>6, Zenon
<1>9. Body(u)
  OBVIOUS
<1>10. Jobs(v.events) = Jobs(u.events) \ {"int_cti"}
       /\ Alone(Tx, v.events) /\ Alone(Rx, v.events) /\ Alone(Cti, v.events)
  <2>1. Alone(Tx, u.events) /\ Alone(Rx, u.events) /\ Alone(Cti, u.events)
    BY <1>9, Zenon DEF Body, TxRight, RxRight, CtiRight
  <2> QED BY <1>8, <2>1, Zenon DEF Cut
<1>11. TxRight(v)
  <2>1. Tx \cap Jobs(u.events) = TxJobs(u) /\ u.wrapped = FALSE
    BY <1>9, Zenon DEF Body, TxRight
  <2>2. TxJobs(v) = TxJobs(u)
    BY <1>7 DEF TxJobs
  <2>3. Tx \cap Jobs(v.events) = Tx \cap Jobs(u.events)
    BY <1>10 DEF Tx
  <2> QED BY <1>7, <1>10, <2>1, <2>2, <2>3 DEF TxRight
<1> QED
  <2>1. RxRight(v) /\ CtiRight(v)
    BY <1>7, <1>8, <1>10 DEF RxRight, CtiRight
  <2>2. LsrRight(v)
    BY <1>7, <1>8, <1>9 DEF Body, LsrRight
  <2>3. ClocksRight(v)
    BY <1>7, <1>9 DEF Body, ClocksRight, char_clks
  <2>4. Receives(u) => Receives(v)
    BY <1>10 DEF Receives, Rx
  <2> QED BY <1>6, <1>7, <1>11, <2>1, <2>2, <2>3, <2>4 DEF Body

FifosSet(u, trigger, len) == [u EXCEPT !.trigger = trigger, !.fifo_len = len]

LEMMA FifosKept ==
  ASSUME NEW u, Body(u), NEW trigger \in Trigger, NEW len \in {1, UART_MAX_FIFO_LEN},
         NEW v, v = FifosSet(u, trigger, len)
  PROVE  /\ Body(v) /\ v.txbuf = u.txbuf /\ v.rxbuf = u.rxbuf /\ v.fifo_len = len
         /\ Receives(u) => Receives(v)
<1>1. u \in Uart /\ Good(u)
  BY DEF Body, Good
<1>2. v = [u EXCEPT !.trigger = trigger, !.fifo_len = len]
  BY DEF FifosSet
<1>3. v \in Uart
  BY <1>1, <1>2, Zenon DEF Uart
<1>4. v.fifo_len = len
  BY <1>1, <1>2, Zenon DEF Uart
<1>5. /\ v.txbuf = u.txbuf /\ v.rxbuf = u.rxbuf /\ v.dll = u.dll /\ v.dlh = u.dlh
      /\ v.lcr = u.lcr /\ v.lsr = u.lsr /\ v.char_clks = u.char_clks /\ v.wrapped = u.wrapped
  BY <1>1, <1>2, Zenon DEF Uart
<1>6. /\ v.events = u.events /\ v.ints = u.ints /\ v.iir = u.iir
      /\ (v.irqPending <=> u.irqPending) /\ v.ier = u.ier
  BY <1>1, <1>2, Zenon DEF Uart
<1>7. Good(v)
  BY <1>1, <1>3, <1>6, GoodKept
<1>8. TxRight(v)
  <2>1. TxJobs(v) = TxJobs(u)
    BY <1>5 DEF TxJobs
  <2> QED BY <1>5, <1>6, <2>1 DEF Body, TxRight
<1>9. RxRight(v) /\ CtiRight(v) /\ LsrRight(v) /\ ClocksRight(v)
  BY <1>5, <1>6 DEF Body, RxRight, CtiRight, LsrRight, ClocksRight, char_clks
<1> QED BY <1>4, <1>5, <1>6, <1>7, <1>8, <1>9 DEF Body, Receives

\* Writing FCR.
LEMMA WriteFcrKept ==
  ASSUME NEW u, Right(u), NEW value \in Values("FCR"), NEW v, v = WriteFcr(u, value)
  PROVE  Right(v) /\ (Receives(u) => Receives(v))
<1> DEFINE len == IF value.fie THEN UART_MAX_FIFO_LEN ELSE 1
           reset == value.reset \cup (IF len # u.fifo_len THEN {"rx", "tx"} ELSE {})
           p == FifosSet(u, value.trigger, len)
           x == TxEmptied(p)
           t == SchedFindRemove(IF value.fie THEN uart_int(x, "THRI") ELSE x, "tx_send")
           w == IF "tx" \notin reset THEN p ELSE t
           y == RxEmptied(w)
           z == uart_clear_int(uart_clear_int(y, "RDI"), "CTI")
<1>1. v = IF "rx" \notin reset THEN w ELSE z
  BY DEF WriteFcr, FifosSet, TxEmptied, RxEmptied
<1>2. /\ value.fie \in BOOLEAN /\ value.trigger \in Trigger /\ len \in {1, UART_MAX_FIFO_LEN}
      /\ Body(u) /\ Fits(u)
  BY DEF Values, Right, Body
<1>3. len # u.fifo_len => "rx" \in reset /\ "tx" \in reset
  OBVIOUS
<1> HIDE DEF len, reset
<1>4. /\ Body(p) /\ p.txbuf = u.txbuf /\ p.rxbuf = u.rxbuf /\ p.fifo_len = len
      /\ Receives(u) => Receives(p)
  BY <1>2, FifosKept
<1> HIDE DEF p
<1>5. /\ Body(t) /\ t.txbuf = <<>> /\ t.rxbuf = p.rxbuf /\ t.fifo_len = p.fifo_len
      /\ Receives(p) => Receives(t)
  <2>1. x = TxEmptied(p)
    OBVIOUS
  <2> HIDE DEF x
  <2> QED BY <1>2, <1>4, <2>1, TxReset
<1> HIDE DEF t
<1>6. /\ Body(w) /\ w.fifo_len = len /\ w.rxbuf = u.rxbuf /\ (Receives(u) => Receives(w))
      /\ "tx" \in reset => w.txbuf = <<>>
      /\ "tx" \notin reset => w.txbuf = u.txbuf
  BY <1>4, <1>5
<1> HIDE DEF w
<1>7. /\ Body(z) /\ z.rxbuf = <<>> /\ z.txbuf = w.txbuf /\ z.fifo_len = w.fifo_len
      /\ Receives(w) => Receives(z)
  <2>1. y = RxEmptied(w)
    OBVIOUS
  <2> HIDE DEF y
  <2> QED BY <1>6, <2>1, RxReset
<1> HIDE DEF z
<1>8. /\ Body(v) /\ v.fifo_len = len /\ (Receives(u) => Receives(v))
      /\ v.txbuf = <<>> \/ (v.txbuf = u.txbuf /\ len = u.fifo_len)
      /\ v.rxbuf = <<>> \/ (v.rxbuf = u.rxbuf /\ len = u.fifo_len)
  BY <1>1, <1>3, <1>6, <1>7
<1>9. Fits(v)
  <2>1. Len(<<>>) = 0 /\ len \in Nat
    BY <1>2, UartAssumption
  <2> QED BY <1>2, <1>8, <2>1 DEF Fits
<1> QED BY <1>8, <1>9 DEF Body, Right

LcrSet(u, value, clks) == [u EXCEPT !.lcr = value, !.char_clks = clks]

\* Writing LCR, which drivers do with a break only on an idle transmitter.
LEMMA WriteLcrKept ==
  ASSUME NEW u, Right(u), NEW value \in Values("LCR"), u.lcr.sbc /\ ~value.sbc => Drained(u),
         NEW v, v = WriteLcr(u, value)
  PROVE  Right(v) /\ (Receives(u) => Receives(v))
<1> DEFINE w == SetBreak(u, value.sbc)
           clks == char_clks(u)
<1>1. v = LcrSet(w, value, clks)
  BY DEF WriteLcr, LcrSet
<1>2. /\ u \in Uart /\ Good(u) /\ value \in [dlab : BOOLEAN, sbc : BOOLEAN]
      /\ value.sbc \in BOOLEAN /\ u.lcr.sbc \in BOOLEAN
  BY DEF Right, Good, Uart, Values
<1>3. clks \in 0..3
  BY <1>2 DEF Uart, char_clks
<1> HIDE DEF clks
<1> DEFINE busy == "TXSERE" \notin u.lsr
           theJob == IF "TXSERE" \notin u.lsr THEN IF value.sbc THEN {"send_break"} ELSE {"char_clock"}
                   ELSE IF u.txbuf # <<>> THEN {"tx_send"} ELSE {}
<1>4. Tx \cap Jobs(u.events) = TxJobs(u)
      /\ Alone(Tx, u.events) /\ Alone(Rx, u.events) /\ Alone(Cti, u.events)
  BY DEF Right, TxRight, RxRight, CtiRight
<1>5. /\ Good(w) /\ Same(u, w) /\ w.ints = u.ints
      /\ Tx \cap Jobs(w.events) = theJob
      /\ Jobs(w.events) \ Tx = Jobs(u.events) \ Tx
      /\ Alone(Tx, w.events) /\ Alone(Rx, w.events) /\ Alone(Cti, w.events)
  <2>1. CASE value.sbc /\ ~u.lcr.sbc /\ busy
    <3> DEFINE x == SchedFindRemove(u, "char_clock")
    <3>1. w = SchedAdd(x, "send_break", 0)
      BY <2>1 DEF SetBreak
    <3>2. Good(x) /\ Same(u, x) /\ x.ints = u.ints /\ Cut(u.events, x.events, "char_clock")
      BY <1>2, Removed
    <3> HIDE DEF x
    <3>3. Good(w) /\ Same(x, w) /\ w.ints = x.ints /\ Added(x.events, w.events, "send_break")
      <4>1. "send_break" \in Job /\ 0 \in 0..MaxDelay
        BY <1>2, Delays DEF Job
      <4> HIDE DEF w
      <4> QED BY <3>1, <3>2, <4>1, Scheduled
    <3> HIDE DEF w
    <3>4. /\ Jobs(x.events) = Jobs(u.events) \ {"char_clock"}
          /\ Alone(Tx, x.events) /\ Alone(Rx, x.events) /\ Alone(Cti, x.events)
      BY <1>4, <3>2 DEF Cut
    <3>5. TxJobs(u) = {"char_clock"} /\ theJob = {"send_break"}
      BY <2>1 DEF TxJobs
    <3>6. Tx \cap Jobs(x.events) = {} /\ "send_break" \in Tx /\ "char_clock" \in Tx
          /\ "send_break" \notin Rx /\ "send_break" \notin Cti
      BY <1>4, <3>4, <3>5 DEF Tx, Rx, Cti
    <3>7. /\ Jobs(w.events) = Jobs(x.events) \cup {"send_break"}
          /\ Alone(Tx, w.events) /\ Alone(Rx, w.events) /\ Alone(Cti, w.events)
      BY <3>3, <3>4, <3>6 DEF Added
    <3>8. Tx \cap Jobs(w.events) = theJob
      BY <3>5, <3>6, <3>7
    <3>9. Jobs(w.events) \ Tx = Jobs(u.events) \ Tx
      BY <3>4, <3>6, <3>7
    <3>10. Same(u, w) /\ w.ints = u.ints
      BY <3>2, <3>3 DEF Same
    <3> QED BY <3>3, <3>7, <3>8, <3>9, <3>10
  <2>2. CASE ~(value.sbc /\ ~u.lcr.sbc /\ busy)
    <3>1. w = u
      BY <2>2 DEF SetBreak, Drained
    <3>2. TxJobs(u) = theJob
      BY <1>2, <2>2 DEF TxJobs, Drained
    <3> HIDE DEF w, theJob
    <3> QED BY <1>2, <1>4, <3>1, <3>2 DEF Same
  <2> QED BY <2>1, <2>2
<1> HIDE DEF w
<1>6. /\ Good(v) /\ v.events = w.events /\ v.ints = w.ints /\ v.lcr = value /\ v.char_clks = clks
      /\ v.txbuf = u.txbuf /\ v.rxbuf = u.rxbuf /\ v.lsr = u.lsr /\ v.fifo_len = u.fifo_len
      /\ v.dll = u.dll /\ v.dlh = u.dlh /\ v.wrapped = u.wrapped
  <2>1. w \in Uart /\ v = [w EXCEPT !.lcr = value, !.char_clks = clks]
    BY <1>1, <1>5 DEF LcrSet, Good
  <2>2. v \in Uart
    BY <1>2, <1>3, <2>1, Zenon DEF Uart
  <2>3. v.lcr = value /\ v.char_clks = clks
    BY <2>1, Zenon DEF Uart
  <2>4. /\ v.txbuf = w.txbuf /\ v.rxbuf = w.rxbuf /\ v.lsr = w.lsr /\ v.fifo_len = w.fifo_len
        /\ v.dll = w.dll /\ v.dlh = w.dlh /\ v.wrapped = w.wrapped
    BY <2>1, Zenon DEF Uart
  <2>5. /\ v.events = w.events /\ v.ints = w.ints /\ v.iir = w.iir
        /\ (v.irqPending <=> w.irqPending) /\ v.ier = w.ier
    BY <2>1, Zenon DEF Uart
  <2> HIDE <1>1
  <2>6. Good(v)
    BY <1>5, <2>2, <2>5, GoodKept
  <2> QED BY <1>5, <2>3, <2>4, <2>5, <2>6 DEF Same
<1>7. TxRight(v)
  <2>1. TxJobs(v) = theJob
    BY <1>6 DEF TxJobs
  <2> HIDE DEF theJob
  <2> QED BY <1>5, <1>6, <2>1 DEF Right, TxRight
<1>8. RxRight(v) /\ CtiRight(v)
  <2>1. "int_cti" \in Jobs(v.events) => "int_cti" \in Jobs(u.events)
    BY <1>5, <1>6 DEF Tx
  <2> QED BY <1>5, <1>6, <2>1 DEF Right, RxRight, CtiRight
<1>9. Fits(v) /\ LsrRight(v)
  BY <1>5, <1>6 DEF Right, Fits, LsrRight
<1>10. ClocksRight(v)
  BY <1>6 DEF ClocksRight, char_clks, clks
<1>11. Receives(u) => Receives(v)
  <2>1. Rx \cap Tx = {}
    BY DEF Rx, Tx
  <2> QED BY <1>5, <1>6, <2>1 DEF Receives
<1> QED BY <1>6, <1>7, <1>8, <1>9, <1>10, <1>11 DEF Right

DllSet(u, dll, clks) == [u EXCEPT !.dll = dll, !.char_clks = clks]
DlhSet(u, dlh) == [u EXCEPT !.dlh = dlh]

\* Writing the divisor, which drivers do while DLAB is set.
LEMMA DivisorKept ==
  ASSUME NEW u, Right(u), u.lcr.dlab, NEW bit \in {0, 1}, NEW clks \in 0..3, NEW v,
         v = DllSet(u, bit, clks) \/ v = DlhSet(u, bit)
  PROVE  Right(v) /\ (Receives(u) => Receives(v))
<1>1. u \in Uart /\ Good(u)
  BY DEF Right, Good
<1>2. /\ Good(v) /\ v.events = u.events /\ v.ints = u.ints /\ v.lcr = u.lcr
      /\ v.txbuf = u.txbuf /\ v.rxbuf = u.rxbuf /\ v.lsr = u.lsr /\ v.fifo_len = u.fifo_len
      /\ v.wrapped = u.wrapped
  <2>1. CASE v = DllSet(u, bit, clks)
    <3>1. v = [u EXCEPT !.dll = bit, !.char_clks = clks]
      BY <2>1 DEF DllSet
    <3>2. v \in Uart
      BY <1>1, <3>1, Zenon DEF Uart
    <3>3. /\ v.lcr = u.lcr /\ v.txbuf = u.txbuf /\ v.rxbuf = u.rxbuf /\ v.lsr = u.lsr
          /\ v.fifo_len = u.fifo_len /\ v.wrapped = u.wrapped
      BY <1>1, <3>1, Zenon DEF Uart
    <3>4. /\ v.events = u.events /\ v.ints = u.ints /\ v.iir = u.iir
          /\ (v.irqPending <=> u.irqPending) /\ v.ier = u.ier
      BY <1>1, <3>1, Zenon DEF Uart
    <3>5. Good(v)
      BY <1>1, <3>2, <3>4, GoodKept
    <3> QED BY <3>3, <3>4, <3>5
  <2>2. CASE v = DlhSet(u, bit)
    <3>1. v = [u EXCEPT !.dlh = bit]
      BY <2>2 DEF DlhSet
    <3>2. v \in Uart
      BY <1>1, <3>1, Zenon DEF Uart
    <3>3. /\ v.lcr = u.lcr /\ v.txbuf = u.txbuf /\ v.rxbuf = u.rxbuf /\ v.lsr = u.lsr
          /\ v.fifo_len = u.fifo_len /\ v.wrapped = u.wrapped
      BY <1>1, <3>1, Zenon DEF Uart
    <3>4. /\ v.events = u.events /\ v.ints = u.ints /\ v.iir = u.iir
          /\ (v.irqPending <=> u.irqPending) /\ v.ier = u.ier
      BY <1>1, <3>1, Zenon DEF Uart
    <3>5. Good(v)
      BY <1>1, <3>2, <3>4, GoodKept
    <3> QED BY <3>3, <3>4, <3>5
  <2> QED BY <2>1, <2>2
<1>3. TxRight(v)
  <2>1. TxJobs(v) = TxJobs(u)
    BY <1>2 DEF TxJobs
  <2> QED BY <1>2, <2>1 DEF Right, TxRight
<1>4. RxRight(v) /\ CtiRight(v) /\ Fits(v) /\ LsrRight(v) /\ ClocksRight(v)
  BY <1>2 DEF Right, RxRight, CtiRight, Fits, LsrRight, ClocksRight
<1> QED BY <1>2, <1>3, <1>4 DEF Right, Receives

\* Writing IER.
LEMMA WriteIerKept ==
  ASSUME NEW u, Right(u), NEW ier \in SUBSET IerFlag, NEW x, x = [u EXCEPT !.ier = ier],
         NEW v, v = uart_next_int(x)
  PROVE  Right(v) /\ Calm(u, v)
<1>1. u \in Uart /\ Pending(u)
  BY DEF Right, Good
<1>2. x \in Uart
  BY <1>1, Zenon DEF Uart
<1>3. Core(u, x)
  BY <1>1, Zenon DEF Uart, Core
<1>4. /\ x.events = u.events /\ x.ints = u.ints /\ x.iir = u.iir /\ (x.irqPending <=> u.irqPending)
  BY <1>1, Zenon DEF Uart
<1>5. Pending(x)
  BY <1>1, <1>4, Zenon DEF Pending
<1>6. Good(v) /\ Same(x, v) /\ v.events = x.events /\ v.ints = x.ints
  BY <1>2, <1>5, NextInt, Zenon
<1>7. Core(u, v)
  BY <1>3, <1>6, Zenon DEF Same, Core
<1>8. v.events = u.events /\ v.ints = u.ints
  BY <1>4, <1>6, Zenon
<1> QED BY <1>6, <1>7, <1>8, QuietKept, Zenon

\* uart_write_byte.
LEMMA WriteKept ==
  ASSUME NEW u, Right(u), NEW reg \in Writable, NEW value \in Values(reg), Addressed(u, reg),
         reg = "LCR" /\ u.lcr.sbc /\ ~value.sbc => Drained(u),
         NEW v, v = uart_write_byte(u, reg, value)
  PROVE  Right(v) /\ (Receives(u) => Receives(v))
<1>1. CASE reg = "DLL"
  <2> DEFINE x == [u EXCEPT !.dll = value]
  <2>1. v = [x EXCEPT !.char_clks = char_clks(x)]
    BY <1>1 DEF uart_write_byte
  <2>2. u \in Uart /\ value \in {0, 1}
    BY <1>1 DEF Right, Good, Values
  <2>3. x.dlh = u.dlh /\ x.dll = value
    BY <2>2, Zenon DEF Uart
  <2> DEFINE clks == char_clks(x)
  <2>4. clks \in 0..3
    <3>1. u.dlh \in {0, 1}
      BY <2>2 DEF Uart
    <3> HIDE DEF x
    <3> QED BY <2>2, <2>3, <3>1 DEF char_clks
  <2>5. v = DllSet(u, value, clks)
    BY <2>1 DEF DllSet
  <2> HIDE DEF x, clks
  <2> QED BY <1>1, <2>2, <2>4, <2>5, DivisorKept DEF Addressed
<1>2. CASE reg = "DLH"
  <2>1. v = DlhSet(u, value)
    BY <1>2 DEF uart_write_byte, DlhSet
  <2>2. value \in {0, 1} /\ 0 \in 0..3 /\ u.lcr.dlab
    BY <1>2 DEF Values, Addressed
  <2> QED BY <2>1, <2>2, DivisorKept
<1>3. CASE reg = "TXBUF"
  <2>1. v = WriteTxbuf(u, value) /\ value \in Char
    BY <1>3 DEF uart_write_byte, Values
  <2> QED BY <2>1, WriteTxbufKept
<1>4. CASE reg = "IER"
  <2> DEFINE x == [u EXCEPT !.ier = value]
  <2>1. v = uart_next_int(x) /\ value \in SUBSET IerFlag
    BY <1>4 DEF uart_write_byte, Values
  <2>2. Right(v) /\ Calm(u, v)
    BY <2>1, WriteIerKept, Zenon
  <2> QED BY <2>2, Zenon DEF Calm
<1>5. CASE reg = "FCR"
  <2>1. v = WriteFcr(u, value) /\ value \in Values("FCR")
    BY <1>5 DEF uart_write_byte
  <2> QED BY <2>1, WriteFcrKept
<1>6. CASE reg = "LCR"
  <2>1. v = WriteLcr(u, value) /\ value \in Values("LCR")
    BY <1>6 DEF uart_write_byte
  <2> QED BY <1>6, <2>1, WriteLcrKept
<1>7. CASE reg = "MCR"
  <2> DEFINE x == [u EXCEPT !.mcr = value]
  <2>1. v = uart_loopback(x) /\ value \in SUBSET McrFlag
    BY <1>7 DEF uart_write_byte, Values
  <2>2. Right(x) /\ Calm(u, x)
    <3>1. {} \in SUBSET MsrFlag
      OBVIOUS
    <3> QED BY <2>1, <3>1, ModemKept, Zenon
  <2> HIDE DEF x
  <2>3. Right(v) /\ (Receives(x) => Receives(v))
    BY <2>1, <2>2, LoopbackKept
  <2> QED BY <2>2, <2>3 DEF Calm
<1> QED BY <1>1, <1>2, <1>3, <1>4, <1>5, <1>6, <1>7 DEF Writable

\* Access: drivers write one register at a time, and read up to four.
LEMMA AccessKept ==
  ASSUME NEW u, Right(u), NEW we \in BOOLEAN, NEW bytes,
         we => /\ DOMAIN bytes = {1} /\ bytes[1].reg \in Writable
               /\ bytes[1].value \in Values(bytes[1].reg) /\ Kept(u, we, bytes[1]),
         NEW v, v = Access(u, we, bytes)
  PROVE  Right(v) /\ (Receives(u) => Receives(v))
<1> DEFINE u1 == AccessByte(u, we, bytes, 1)
           u2 == AccessByte(u1, we, bytes, 2)
           u3 == AccessByte(u2, we, bytes, 3)
<1>1. v = AccessByte(u3, we, bytes, 4)
  BY DEF Access
<1>2. CASE we = TRUE
  <2>1. DOMAIN bytes = {1}
    BY <1>2
  <2>2. \A x : AccessByte(x, we, bytes, 2) = x /\ AccessByte(x, we, bytes, 3) = x
               /\ AccessByte(x, we, bytes, 4) = x
    BY <2>1 DEF AccessByte
  <2>3. v = u1
    <3> HIDE DEF u1
    <3> QED BY <1>1, <2>2
  <2>4. u1 = uart_write_byte(u, bytes[1].reg, bytes[1].value)
    BY <1>2, <2>1 DEF AccessByte
  <2> HIDE DEF u1, u2, u3
  <2>5. bytes[1].reg \in Writable /\ bytes[1].value \in Values(bytes[1].reg)
        /\ Addressed(u, bytes[1].reg)
        /\ (bytes[1].reg = "LCR" /\ u.lcr.sbc /\ ~bytes[1].value.sbc => Drained(u))
    BY <1>2 DEF Kept
  <2> QED BY <2>3, <2>4, <2>5, WriteKept
<1>3. CASE we = FALSE
  <2>1. ASSUME NEW x, Right(x), NEW n, NEW y, y = AccessByte(x, we, bytes, n)
        PROVE  Right(y) /\ (Receives(x) => Receives(y))
    <3>1. y = x \/ y = uart_read_byte(x, bytes[n].reg)
      BY <1>3, <2>1 DEF AccessByte
    <3> QED BY <2>1, <3>1, ReadKept
  <2>2. Right(u1) /\ (Receives(u) => Receives(u1))
    BY <2>1
  <2> HIDE DEF u1
  <2>3. Right(u2) /\ (Receives(u1) => Receives(u2))
    BY <2>1, <2>2
  <2> HIDE DEF u2
  <2>4. Right(u3) /\ (Receives(u2) => Receives(u3))
    BY <2>1, <2>3
  <2> HIDE DEF u3
  <2>5. Right(v) /\ (Receives(u3) => Receives(v))
    BY <1>1, <2>1, <2>4
  <2> QED BY <2>2, <2>3, <2>4, <2>5
<1> QED BY <1>2, <1>3

-----------------------------------------------------------------------------
(* Time.                                                                   *)

TimeSet(u, time, events) == [u EXCEPT !.curTime = time, !.events = events]

\* Other times change nothing but when events are due.
LEMMA TimeKept ==
  ASSUME NEW u, Right(u), NEW time \in 0..TIME_LIMIT, NEW s \in Seq(Event),
         DOMAIN s = DOMAIN u.events, \A n \in DOMAIN s : s[n].job = u.events[n].job,
         NEW v, v = TimeSet(u, time, s)
  PROVE  Right(v) /\ Calm(u, v)
<1>1. u \in Uart /\ Good(u)
  BY DEF Right, Good
<1>2. v = [u EXCEPT !.curTime = time, !.events = s]
  BY DEF TimeSet
<1>3. v \in Uart
  BY <1>1, <1>2, Zenon DEF Uart
<1>4. Core(u, v)
  BY <1>1, <1>2, Zenon DEF Uart, Core
<1>5. v.ints = u.ints /\ v.iir = u.iir /\ (v.irqPending <=> u.irqPending) /\ v.ier = u.ier
  BY <1>1, <1>2, Zenon DEF Uart
<1>6. v.events = s
  BY <1>1, <1>2, Zenon DEF Uart
<1> HIDE <1>2
<1>7. Good(v)
  BY <1>1, <1>3, <1>5, GoodKept
<1>8. Jobs(s) = Jobs(u.events)
  BY DEF Jobs
<1>9. \A jobs : Alone(jobs, u.events) => Alone(jobs, s)
  BY DEF Alone
<1>10. TxRight(v)
  <2>1. TxJobs(v) = TxJobs(u)
    BY <1>4 DEF TxJobs, Core
  <2> QED BY <1>4, <1>6, <1>8, <1>9, <2>1 DEF Right, TxRight, Core
<1>11. RxRight(v) /\ CtiRight(v)
  BY <1>4, <1>5, <1>6, <1>8, <1>9 DEF Right, RxRight, CtiRight, Core
<1>12. Fits(v) /\ LsrRight(v) /\ ClocksRight(v)
  BY <1>4, <1>5 DEF Right, Fits, LsrRight, ClocksRight, Core, char_clks
<1>13. Calm(u, v)
  BY <1>4, <1>6, <1>8 DEF Calm, Core, Drained, Receives
<1> QED BY <1>7, <1>10, <1>11, <1>12, <1>13 DEF Right

\* Advance.
LEMMA AdvanceKept ==
  ASSUME NEW u, Right(u), NEW v, v = Advance(u)
  PROVE  Right(v) /\ Calm(u, v)
<1> DEFINE Back(e) == [e EXCEPT !.time = IF e.time < TIME_LIMIT THEN -1 ELSE e.time - TIME_LIMIT]
           s == [n \in DOMAIN u.events |-> Back(u.events[n])]
<1>1. u \in Uart /\ u.events \in Seq(Event) /\ u.curTime \in 0..TIME_LIMIT
  BY DEF Right, Good, Uart
<1>2. TIME_LIMIT \in Nat \ {0} /\ MaxDelay \in Nat /\ MaxTime = TIME_LIMIT + MaxDelay
  BY UartAssumption DEF MaxDelay, MaxTime
<1>3. CASE u.curTime >= TIME_LIMIT
  <2>1. v = TimeSet(u, u.curTime - TIME_LIMIT + 1, s)
    <3>1. v = [u EXCEPT !.curTime = u.curTime - TIME_LIMIT + 1, !.events = s]
      BY <1>3, Zenon DEF Advance
    <3> QED BY <3>1, Zenon DEF TimeSet
  <2>2. u.curTime - TIME_LIMIT + 1 \in 0..TIME_LIMIT
    BY <1>1, <1>2, <1>3
  <2>3. \A n \in DOMAIN u.events : u.events[n] \in Event
    BY <1>1
  <2>4. \A n \in DOMAIN u.events : s[n] \in Event /\ s[n].job = u.events[n].job
    <3> SUFFICES ASSUME NEW n \in DOMAIN u.events
                 PROVE  s[n] \in Event /\ s[n].job = u.events[n].job
      OBVIOUS
    <3> DEFINE e == u.events[n]
               back == IF e.time < TIME_LIMIT THEN -1 ELSE e.time - TIME_LIMIT
    <3>1. s[n] = [e EXCEPT !.time = back]
      OBVIOUS
    <3>2. e \in Event
      BY <2>3
    <3> HIDE DEF e, s
    <3>3. back \in -1..MaxTime
      BY <1>2, <3>2 DEF Event
    <3> HIDE DEF back
    <3>4. s[n] \in Event
      BY <3>1, <3>2, <3>3, Zenon DEF Event
    <3>5. s[n].job = e.job
      BY <3>1, <3>2, Zenon DEF Event
    <3> QED BY <3>4, <3>5 DEF e
  <2>5. DOMAIN s = DOMAIN u.events /\ s \in Seq(Event)
    <3>1. s \in [DOMAIN u.events -> Event]
      <4>1. s = [n \in DOMAIN u.events |-> s[n]]
        OBVIOUS
      <4> HIDE DEF s
      <4> QED BY <2>4, <4>1
    <3>2. DOMAIN u.events = 1..Len(u.events) /\ Len(u.events) \in Nat
      BY <1>1
    <3> HIDE DEF s
    <3> QED BY <3>1, <3>2
  <2> HIDE DEF s
  <2> QED BY <2>1, <2>2, <2>4, <2>5, TimeKept
<1>4. CASE ~(u.curTime >= TIME_LIMIT)
  <2>1. v = [u EXCEPT !.curTime = u.curTime + 1]
    BY <1>4 DEF Advance
  <2>2. v = TimeSet(u, u.curTime + 1, u.events)
    <3>1. u.events = [u EXCEPT !.curTime = u.curTime + 1].events
      BY <1>1, Zenon DEF Uart
    <3> QED BY <1>1, <2>1, <3>1, Zenon DEF TimeSet, Uart
  <2>3. u.curTime + 1 \in 0..TIME_LIMIT
    BY <1>1, <1>2, <1>4
  <2> HIDE <2>1
  <2> QED BY <1>1, <2>2, <2>3, TimeKept
<1> QED BY <1>3, <1>4

\* uart_reset.
LEMMA ResetRight ==
  Right(UartReset) /\ Receives(UartReset)
<1> DEFINE x == [txbuf |-> <<>>, rxbuf |-> <<>>, dll |-> 0, dlh |-> 0, ier |-> {},
                 iir |-> "NO_INT", trigger |-> 1, lcr |-> [dlab |-> FALSE, sbc |-> FALSE],
                 mcr |-> {}, lsr |-> {"TXBUFE", "TXSERE"}, msr |-> {},
                 txser |-> NoChar, rxser |-> NoChar, loopback |-> NoChar, ints |-> {},
                 char_clks |-> 0, fifo_len |-> 1, irqPending |-> FALSE,
                 curTime |-> 0, events |-> <<>>, wrapped |-> FALSE]
           v == SchedAdd(x, "check_char", CHECK_DELAY)
<1>1. x \in Uart
  <2>1. 1 \in Trigger /\ 0 \in 0..TIME_LIMIT /\ 0 \in 0..3 /\ 1 \in {1, UART_MAX_FIFO_LEN}
    BY UartAssumption
  <2>2. <<>> \in Seq(Char) /\ <<>> \in Seq(Char \cup {NoChar}) /\ <<>> \in Seq(Event)
    OBVIOUS
  <2>3. [dlab |-> FALSE, sbc |-> FALSE] \in [dlab : BOOLEAN, sbc : BOOLEAN]
        /\ {"TXBUFE", "TXSERE"} \in SUBSET LsrFlag
    BY DEF LsrFlag
  <2> QED BY <2>1, <2>2, <2>3 DEF Uart
<1>2. /\ x.txbuf = <<>> /\ x.rxbuf = <<>> /\ x.events = <<>> /\ x.ints = {} /\ x.wrapped = FALSE
      /\ x.lsr = {"TXBUFE", "TXSERE"} /\ x.fifo_len = 1 /\ x.dll = 0 /\ x.dlh = 0
      /\ x.char_clks = 0 /\ x.irqPending = FALSE /\ x.iir = "NO_INT"
  OBVIOUS
<1> HIDE DEF x
<1>3. Good(x)
  BY <1>1, <1>2 DEF Good, Pending, Covered, Raised
<1>4. Good(v) /\ Same(x, v) /\ v.ints = x.ints /\ Added(x.events, v.events, "check_char")
  <2>1. CHECK_DELAY \in 0..MaxDelay /\ "check_char" \in Job
    BY <1>1, Delays DEF Job
  <2> QED BY <1>3, <2>1, Scheduled
<1>5. UartReset = v
  BY DEF UartReset, x
<1> HIDE DEF v
<1>6. Jobs(x.events) = {} /\ \A jobs : Alone(jobs, x.events)
  BY <1>2 DEF Jobs, Alone
<1>7. Jobs(v.events) = {"check_char"} /\ Alone(Tx, v.events) /\ Alone(Rx, v.events) /\ Alone(Cti, v.events)
  BY <1>4, <1>6 DEF Added
<1>8. TxRight(v)
  BY <1>2, <1>4, <1>7 DEF TxRight, TxJobs, Same, Tx
<1>9. RxRight(v) /\ CtiRight(v) /\ Receives(v)
  BY <1>2, <1>4, <1>7 DEF RxRight, CtiRight, Receives, Rx
<1>10. Fits(v)
  <2>1. Len(<<>>) = 0
    OBVIOUS
  <2> QED BY <1>2, <1>4, <2>1 DEF Fits, Same
<1>11. LsrRight(v)
  BY <1>2, <1>4 DEF LsrRight, Same
<1>12. ClocksRight(v)
  BY <1>2, <1>4 DEF ClocksRight, Same, char_clks
<1> QED BY <1>4, <1>5, <1>8, <1>9, <1>10, <1>11, <1>12 DEF Right

-----------------------------------------------------------------------------
(* The invariant of the specification.                                     *)

\* A request that is issued can be executed.
LEMMA IssuedKept ==
  ASSUME UartInv, NEW r \in Requests, Issues(r)
  PROVE  request' = r /\ \A n \in DOMAIN r.bytes : Kept(uart, r.we, r.bytes[n])
BY DEF Issues, Allowed, Kept

\* A write is one of the workload.
LEMMA RequestIs ==
  ASSUME UartInv
  PROVE  request.we \in BOOLEAN /\ (request.we = TRUE => request.bytes \in workload.writes)
<1>1. CASE request \in [we : {TRUE}, bytes : workload.writes]
  BY <1>1
<1>2. CASE request \in [we : {FALSE}, bytes : workload.reads]
  BY <1>2
<1>3. CASE request = NoRequest
  BY <1>3 DEF NoRequest
<1> QED BY <1>1, <1>2, <1>3 DEF UartInv, Requests

\* A request stays one, whatever runs in Simulate.
LEMMA RequestKept ==
  ASSUME UartInv, uart'.lcr = uart.lcr, Drained(uart) => Drained(uart'),
         UNCHANGED <<workload, slave, request>>
  PROVE  /\ request' \in (Requests \cup {NoRequest})'
         /\ (slave # "acked" => \A n \in DOMAIN request.bytes :
                                   Kept(uart, request.we, request.bytes[n]))'
<1>1. request' \in (Requests \cup {NoRequest})'
  BY DEF UartInv, Requests, NoRequest
<1>2. ASSUME slave' # "acked", NEW n \in DOMAIN request'.bytes
      PROVE  Kept(uart', request'.we, request'.bytes[n])
  <2>1. Kept(uart, request.we, request.bytes[n])
    BY <1>2 DEF UartInv
  <2> QED BY <2>1 DEF Kept, Addressed
<1> QED BY <1>1, <1>2

LEMMA UartInvInit == Init => UartInv
<1> SUFFICES ASSUME Init PROVE UartInv
  OBVIOUS
<1>1. Right(uart) /\ Receives(uart)
  BY ResetRight DEF Init
<1>2. request = NoRequest /\ DOMAIN request.bytes = {}
  BY DEF Init, NoRequest
<1> QED BY <1>1, <1>2 DEF UartInv, Init

LEMMA UartInvNext == UartInv /\ [Next]_vars => UartInv'
<1> SUFFICES ASSUME UartInv, [Next]_vars PROVE UartInv'
  OBVIOUS
<1>1. CASE BusRequest
  <2>1. PICK r \in Requests : Issues(r)
    BY <1>1 DEF BusRequest
  <2>2. request' = r /\ \A n \in DOMAIN r.bytes : Kept(uart, r.we, r.bytes[n])
    BY <2>1, IssuedKept
  <2>3. UNCHANGED <<workload, uart, simulating, slave>>
    BY <1>1 DEF BusRequest
  <2>4. request' \in Requests'
    BY <2>2, <2>3 DEF Requests
  <2> QED BY <2>2, <2>3, <2>4 DEF UartInv
<1>2. CASE MainThread
  <2>1. UNCHANGED <<workload, simulating>>
    BY <1>2 DEF MainThread
  <2>2. CASE AcceptTransfer
    <3>1. slave = "top" /\ slave' = "transfer" /\ UNCHANGED <<uart, request>>
      BY <2>2 DEF AcceptTransfer
    <3>2. request' \in (Requests \cup {NoRequest})'
      BY <2>1, <3>1 DEF UartInv, Requests, NoRequest
    <3> QED BY <2>1, <3>1, <3>2 DEF UartInv
  <2>3. CASE Transfer
    <3>1. /\ slave = "transfer" /\ slave' = "acked" /\ UNCHANGED request
          /\ uart' = Access(uart, request.we, request.bytes)
      BY <2>3 DEF Transfer
    <3>2. \A n \in DOMAIN request.bytes : Kept(uart, request.we, request.bytes[n])
      BY <3>1 DEF UartInv
    <3>3. request.we \in BOOLEAN
      BY RequestIs
    <3>4. request.we => /\ DOMAIN request.bytes = {1} /\ request.bytes[1].reg \in Writable
                        /\ request.bytes[1].value \in Values(request.bytes[1].reg)
                        /\ Kept(uart, request.we, request.bytes[1])
      <4> SUFFICES ASSUME request.we = TRUE
                   PROVE  /\ DOMAIN request.bytes = {1} /\ request.bytes[1].reg \in Writable
                          /\ request.bytes[1].value \in Values(request.bytes[1].reg)
                          /\ Kept(uart, request.we, request.bytes[1])
        BY <3>3
      <4>1. workload \in Workloads /\ request.bytes \in workload.writes
        BY RequestIs DEF UartInv
      <4> QED BY <3>2, <4>1, WorkloadsAssumption
    <3>5. Right(uart') /\ (Receives(uart) => Receives(uart'))
      <4>1. Right(uart)
        BY DEF UartInv
      <4> DEFINE u == uart
                 v == uart'
                 we == request.we
                 bytes == request.bytes
      <4>2. Right(u) /\ v = Access(u, we, bytes) /\ we \in BOOLEAN
            /\ (we => /\ DOMAIN bytes = {1} /\ bytes[1].reg \in Writable
                      /\ bytes[1].value \in Values(bytes[1].reg) /\ Kept(u, we, bytes[1]))
        BY <3>1, <3>3, <3>4, <4>1
      <4> HIDE DEF u, v, we, bytes
      <4>3. Right(v) /\ (Receives(u) => Receives(v))
        BY <4>2, AccessKept
      <4> QED BY <4>3 DEF u, v
    <3>6. request' \in (Requests \cup {NoRequest})'
      BY <2>1, <3>1 DEF UartInv, Requests, NoRequest
    <3> QED BY <2>1, <3>1, <3>5, <3>6 DEF UartInv
  <2>4. CASE EndTransfer
    <3>1. slave' = "top" /\ UNCHANGED uart /\ (request' = NoRequest \/ \E r \in Requests : Issues(r))
      BY <2>4 DEF EndTransfer
    <3>2. CASE request' = NoRequest
      <4>1. DOMAIN NoRequest.bytes = {}
        BY DEF NoRequest
      <4>2. request' \in (Requests \cup {NoRequest})'
        BY <3>2 DEF NoRequest
      <4> QED BY <2>1, <3>1, <3>2, <4>1, <4>2 DEF UartInv
    <3>3. CASE \E r \in Requests : Issues(r)
      <4>1. PICK r \in Requests : Issues(r)
        BY <3>3
      <4>2. request' = r /\ \A n \in DOMAIN r.bytes : Kept(uart, r.we, r.bytes[n])
        BY <4>1, IssuedKept
      <4>3. request' \in Requests'
        BY <2>1, <4>2 DEF Requests
      <4> QED BY <2>1, <3>1, <4>2, <4>3 DEF UartInv
    <3> QED BY <3>1, <3>2, <3>3
  <2> QED BY <1>2, <2>2, <2>3, <2>4 DEF MainThread
<1>3. CASE UartThread
  <2>1. UNCHANGED <<workload, slave, request>>
    BY <1>3 DEF UartThread
  <2>2. CASE StartSimulate
    <3>1. simulating' = TRUE /\ uart' = Advance(uart)
      BY <2>2 DEF StartSimulate
    <3>2. Right(uart') /\ Calm(uart, uart')
      BY <3>1, AdvanceKept DEF UartInv
    <3> QED BY <2>1, <3>1, <3>2, RequestKept DEF UartInv, Calm
  <2>3. CASE SimulateEvent
    <3>1. PICK input \in IF NextJob = "check_char" THEN workload.input ELSE {"eof"} :
            uart' = RunEvent(uart, input)
      BY <2>3 DEF SimulateEvent
    <3>2. uart.events # <<>> /\ UNCHANGED simulating
      BY <2>3 DEF SimulateEvent, Due
    <3>3. input \in Char \cup {"eof", "error"} /\ ("error" \notin workload.input => input # "error")
      <4>1. workload.input \subseteq Char \cup {"eof", "error"}
        BY WorkloadsAssumption DEF UartInv
      <4> QED BY <3>1, <4>1
    <3>4. /\ Right(uart') /\ uart'.lcr = uart.lcr /\ (Drained(uart) => Drained(uart'))
          /\ input # "error" /\ Receives(uart) => Receives(uart')
      BY <3>1, <3>2, <3>3, EventKept DEF UartInv
    <3> QED BY <2>1, <3>2, <3>3, <3>4, RequestKept DEF UartInv
  <2>4. CASE SimulateReturn
    <3>1. simulating' = FALSE /\ UNCHANGED uart
      BY <2>4 DEF SimulateReturn
    <3> QED BY <2>1, <3>1, RequestKept DEF UartInv
  <2> QED BY <1>3, <2>2, <2>3, <2>4 DEF UartThread
<1>4. CASE UNCHANGED vars
  <2>1. UNCHANGED <<workload, uart, simulating, slave, request>>
    BY <1>4 DEF vars
  <2> QED BY <2>1, RequestKept DEF UartInv
<1> QED BY <1>1, <1>2, <1>3, <1>4 DEF Next

LEMMA UartInvariant == Spec => []UartInv
<1>1. UartInv /\ [Next]_vars => UartInv'
  BY UartInvNext
<1> QED BY <1>1, UartInvInit, PTL DEF Spec

-----------------------------------------------------------------------------
(* What follows from it.                                                   *)

\* The number of events of some jobs, when they are alone.
LEMMA Counted ==
  ASSUME NEW s \in Seq(Event), NEW jobs, Alone(jobs, s), NEW count,
         count = Cardinality({n \in DOMAIN s : s[n].job \in jobs})
  PROVE  count = IF jobs \cap Jobs(s) = {} THEN 0 ELSE 1
<1> DEFINE S == {n \in DOMAIN s : s[n].job \in jobs}
<1>1. CASE jobs \cap Jobs(s) = {}
  <2>1. S = {}
    BY <1>1 DEF Jobs
  <2> QED BY <1>1, <2>1, FS_EmptySet
<1>2. CASE jobs \cap Jobs(s) # {}
  <2>1. PICK n \in DOMAIN s : s[n].job \in jobs
    BY <1>2 DEF Jobs
  <2>2. S = {n}
    BY <2>1 DEF Alone
  <2> QED BY <1>2, <2>2, FS_Singleton
<1> QED BY <1>1, <1>2

\* The registers and buffers hold what they may, and LSR and the clocks of a
\* character follow from the buffers, the interrupts and the divisor, after any
\* accesses and events (uart_write_byte, uart_read_byte, Simulate).
THEOREM RegistersAreRight == Spec => []RegistersRight
<1>1. UartInv => RegistersRight
  <2> SUFFICES ASSUME UartInv PROVE RegistersRight
    OBVIOUS
  <2>1. uart \in Uart /\ Fits(uart) /\ LsrRight(uart) /\ ClocksRight(uart)
    BY DEF UartInv, Right, Good
  <2>2. /\ uart.txbuf \in Seq(Char) /\ uart.rxbuf \in Seq(Char \cup {NoChar})
        /\ uart.fifo_len \in {1, UART_MAX_FIFO_LEN} /\ uart.trigger \in Trigger
        /\ {uart.txser, uart.rxser, uart.loopback} \subseteq Char \cup {NoChar}
        /\ uart.ier \subseteq IerFlag /\ uart.ints \subseteq Interrupt
    BY <2>1 DEF Uart
  <2>3. /\ uart.iir \in Interrupt \cup {"NO_INT"} /\ uart.irqPending \in BOOLEAN
        /\ uart.lsr \subseteq LsrFlag /\ uart.mcr \subseteq McrFlag /\ uart.msr \subseteq MsrFlag
        /\ uart.lcr \in [dlab : BOOLEAN, sbc : BOOLEAN]
        /\ uart.curTime \in 0..TIME_LIMIT
    BY <2>1 DEF Uart
  <2>4. \A n \in DOMAIN uart.events : /\ uart.events[n].job \in Job
                                      /\ uart.events[n].time \in -1..(TIME_LIMIT + MaxDelay)
    <3> SUFFICES ASSUME NEW n \in DOMAIN uart.events
                 PROVE  /\ uart.events[n].job \in Job
                        /\ uart.events[n].time \in -1..(TIME_LIMIT + MaxDelay)
      OBVIOUS
    <3>1. uart.events \in Seq(Event)
      BY <2>1 DEF Uart
    <3>2. uart.events[n] \in Event
      BY <3>1
    <3> QED BY <3>2 DEF Event, MaxTime
  <2>5. TypeOK
    BY <2>1, <2>2, <2>3, <2>4 DEF TypeOK, Fits, UartInv
  <2> QED BY <2>1, <2>5 DEF RegistersRight, StatusRight, DivisorInUse, LsrRight, ClocksRight
<1> QED BY <1>1, UartInvariant, PTL

\* Whatever is enabled, raised, cleared or overridden, and in whatever order, the
\* interrupt line is set while an enabled interrupt waits, and no waiting interrupt
\* is more urgent than the one in IIR: RDI is never hidden by CTI, THRI or MSI.
\* That the one in IIR waits itself is not true of the code (IirPending), so a less
\* urgent one may stay unreported (uart_next_int, uart_clear_int).
THEOREM PriorityIsKept == Spec => []PriorityKept
<1>1. UartInv => PriorityKept
  BY DEF UartInv, Right, Good, Pending, Covered, PriorityKept
<1> QED BY <1>1, UartInvariant, PTL

\* The transmitter has exactly one job while there is something to send and none
\* otherwise, the receiver exactly one as long as stdin can be read, and timeouts
\* are only on their way for data (uart_tx_send, uart_recv_char, uart_add_char).
THEOREM JobsAreAlone == Spec => []OneJobEach
<1>1. UartInv => OneJobEach
  <2> SUFFICES ASSUME UartInv PROVE OneJobEach
    OBVIOUS
  <2>1. uart.events \in Seq(Event) /\ TxRight(uart) /\ RxRight(uart) /\ CtiRight(uart)
    BY DEF UartInv, Right, Good, Uart
  <2>2. Count(Tx) = IF Tx \cap Jobs(uart.events) = {} THEN 0 ELSE 1
    BY <2>1, Counted DEF Count, TxRight
  <2>3. Count(Rx) = IF Rx \cap Jobs(uart.events) = {} THEN 0 ELSE 1
    BY <2>1, Counted DEF Count, RxRight
  <2>4. Count(Cti) = IF Cti \cap Jobs(uart.events) = {} THEN 0 ELSE 1
    BY <2>1, Counted DEF Count, CtiRight
  <2>5. TransmitterRuns
    <3>1. TxJobs(uart) = {} <=> Drained(uart)
      BY DEF TxJobs, Drained
    <3> QED BY <2>1, <2>2, <3>1 DEF TransmitterRuns, TxRight, Tx
  <2>6. ReceiverRuns
    BY <2>3 DEF ReceiverRuns, UartInv, Receives, Rx
  <2>7. TimeoutMeansData
    <3>1. Count(Cti) > 0 => "int_cti" \in Jobs(uart.events)
      BY <2>4 DEF Cti
    <3>2. Count(Cti) <= 1
      BY <2>4
    <3> QED BY <2>1, <3>1, <3>2 DEF TimeoutMeansData, CtiRight, Cti
  <2> QED BY <2>5, <2>6, <2>7 DEF OneJobEach
<1> QED BY <1>1, UartInvariant, PTL

=============================================================================
