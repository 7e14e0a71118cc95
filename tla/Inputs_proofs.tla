----------------------------- MODULE Inputs_proofs -----------------------------
(***************************************************************************)
(* Theorems about the three rings that carry audio into the engine: the    *)
(* shared memory of the ASIO transport (AsioTransport), the tab bridge     *)
(* (TabBridge) and the driver's packet ring with the loopback that uses it *)
(* (DriverRing).  They hold for any number of slots, any modulus the slots *)
(* divide, any packets, and through any crashes and restarts, closes and   *)
(* reconnections of the processes and the page.                            *)
(*                                                                         *)
(* One argument runs through the three: the slot a producer writes is the  *)
(* one after the published ones, and fewer are published than there are    *)
(* slots, so it is none of them, also where the sequence numbers wrap.     *)
(***************************************************************************)
EXTENDS MCStreams, SequenceTheorems, TLAPS

-------------------------------------------------------------------------------
(* Remainders *)

LEMMA DivMod ==
  ASSUME NEW a \in Nat, NEW m \in Nat \ {0}
  PROVE  /\ a = (m * (a \div m)) + (a % m)
         /\ a % m \in 0..m - 1 /\ a \div m \in Nat
OBVIOUS

LEMMA ModOnce ==
  ASSUME NEW m \in Nat \ {0}, NEW a \in 0..(2 * m) - 1
  PROVE  a % m = IF a < m THEN a ELSE a - m
OBVIOUS

LEMMA ModUnique ==
  ASSUME NEW m \in Nat \ {0}, NEW q \in Int, NEW r \in 0..m - 1,
         NEW a \in Int, a = (m * q) + r
  PROVE  a % m = r
OBVIOUS

\* Numbers less than s apart have different remainders.
LEMMA ModApart ==
  ASSUME NEW s \in Nat \ {0}, NEW a \in Nat, NEW b \in Nat, a < b, b - a < s
  PROVE  a % s # b % s
<1>1. /\ a = (s * (a \div s)) + (a % s) /\ a \div s \in Int
      /\ b = (s * (b \div s)) + (b % s) /\ b \div s \in Int
  BY DivMod
<1>2. SUFFICES ASSUME a % s = b % s PROVE FALSE
  OBVIOUS
<1> DEFINE d == (b \div s) - (a \div s)
<1>3. b - a = s * d /\ d \in Int
  BY <1>1, <1>2
<1> HIDE DEF d
<1>4. d >= 1
  BY <1>3
<1>5. s * d >= s
  BY <1>3, <1>4
<1> QED
  BY <1>3, <1>5

\* Wrapping at a multiple of s does not change the remainder.
LEMMA ModShift ==
  ASSUME NEW s \in Nat \ {0}, NEW m \in Nat, m % s = 0, NEW a \in Nat, a >= m
  PROVE  (a - m) % s = a % s
<1>1. a = (s * (a \div s)) + (a % s) /\ a % s \in 0..s - 1 /\ a \div s \in Int
  BY DivMod
<1>2. m = s * (m \div s) /\ m \div s \in Int
  BY DivMod
<1> DEFINE q == (a \div s) - (m \div s)
           n == a - m
           r == a % s
<1>3. a - m = (s * ((a \div s) - (m \div s))) + (a % s)
  BY <1>1, <1>2
<1>4. n = (s * q) + r /\ q \in Int /\ n \in Int /\ r \in 0..s - 1
  BY <1>1, <1>2, <1>3
<1> HIDE DEF q, n, r
<1>5. n % s = r
  BY <1>4, ModUnique
<1> QED
  BY <1>5 DEF n, r

-------------------------------------------------------------------------------
(* Channels: when a sequence is another one with an element more or less *)

LEMMA AppendIs ==
  ASSUME NEW S, NEW f \in Seq(S), NEW g \in Seq(S), NEW x \in S, Len(g) = Len(f) + 1,
         \A i \in 1..Len(f) : g[i] = f[i], g[Len(f) + 1] = x
  PROVE  g = Append(f, x)
<1>1. /\ Append(f, x) \in Seq(S) /\ Len(Append(f, x)) = Len(f) + 1
      /\ \A i \in 1..Len(f) : Append(f, x)[i] = f[i]
      /\ Append(f, x)[Len(f) + 1] = x
  BY AppendProperties
<1>2. Len(f) \in Nat
  OBVIOUS
<1>3. \A i \in 1..Len(g) : g[i] = Append(f, x)[i]
  <2>1. ASSUME NEW i \in 1..Len(g) PROVE g[i] = Append(f, x)[i]
    <3>1. i \in 1..Len(f) \/ i = Len(f) + 1
      BY <1>2
    <3> QED
      BY <1>1, <3>1
  <2> QED
    BY <2>1
<1> QED
  BY <1>1, <1>3, SeqEqual

LEMMA TailIs ==
  ASSUME NEW S, NEW f \in Seq(S), NEW g \in Seq(S), Len(f) = Len(g) + 1,
         \A i \in 1..Len(g) : g[i] = f[i + 1]
  PROVE  f # <<>> /\ Head(f) = f[1] /\ g = Tail(f)
<1>1. f # <<>> /\ Head(f) = f[1] /\ Len(g) \in Nat
  OBVIOUS
<1>2. /\ Tail(f) \in Seq(S) /\ Len(Tail(f)) = Len(g)
      /\ \A i \in 1..Len(Tail(f)) : Tail(f)[i] = f[i + 1]
  BY <1>1, HeadTailProperties
<1> QED
  BY <1>1, <1>2, SeqEqual

-------------------------------------------------------------------------------
(* The ASIO transport, with one host.  The heart of IInv is Writing: a host  *)
(* that is at a step of a push owns the slot after the published ones.       *)

\* What holds while a host is at a step of a push.
Writing ==
  \A h \in Hosts :
    /\ hpc[h] \notin {"detached", "opened"} => region = "ready"
    /\ hpc[h] \in {"write", "fill", "ready", "publish"} =>
         hp[h] = pseq /\ Used(pseq, cseq) < Slots
    /\ hpc[h] \in {"ready", "publish"} => slot[At(pseq)].block \in Blocks
    /\ hpc[h] = "publish" => slot[At(pseq)].seq = Succ(pseq)

\* What holds while the engine is at a step of a bind or a pop.
Reading ==
  /\ epc \in {"idle", "check", "copy", "advance"} => region = "ready"
  /\ epc = "created" => region = "blank"
  /\ epc \in {"check", "copy", "advance"} => ec = cseq /\ Used(pseq, cseq) > 0
  /\ epc = "advance" => staged = slot[At(cseq)].block

IInv ==
  /\ TypeOK /\ Used(pseq, cseq) <= Slots
  /\ PublishedIntact /\ Writing /\ Reading

LEMMA UsedValue ==
  ASSUME NEW p \in Seqs, NEW c \in Seqs
  PROVE  /\ Used(p, c) = IF p >= c THEN p - c ELSE p + Modulus - c
         /\ Used(p, c) \in 0..Modulus - 1
<1> DEFINE a == p + Modulus - c
<1>1. a \in 0..(2 * Modulus) - 1 /\ Modulus \in Nat \ {0}
  BY AsioTransportAssumption DEF Seqs
<1> HIDE DEF a
<1>2. a % Modulus = IF a < Modulus THEN a ELSE a - Modulus
  BY <1>1, ModOnce
<1> QED
  BY <1>1, <1>2, AsioTransportAssumption DEF a, Used, Seqs

LEMMA SuccValue ==
  ASSUME NEW n \in Seqs
  PROVE  Succ(n) \in Seqs /\ Succ(n) = IF n + 1 < Modulus THEN n + 1 ELSE 0
<1> DEFINE a == n + 1
<1>1. a \in 0..(2 * Modulus) - 1 /\ Modulus \in Nat \ {0}
  BY AsioTransportAssumption DEF Seqs
<1> HIDE DEF a
<1>2. a % Modulus = IF a < Modulus THEN a ELSE a - Modulus
  BY <1>1, ModOnce
<1> QED
  BY <1>1, <1>2, AsioTransportAssumption DEF a, Succ, Seqs

\* The sequence number i after c.
LEMMA PosValue ==
  ASSUME NEW c \in Seqs, NEW i \in 0..Slots
  PROVE  /\ (c + i) % Modulus \in Seqs
         /\ (c + i) % Modulus = IF c + i < Modulus THEN c + i ELSE c + i - Modulus
<1> DEFINE a == c + i
<1>1. a \in 0..(2 * Modulus) - 1 /\ Modulus \in Nat \ {0}
  BY AsioTransportAssumption DEF Seqs
<1> HIDE DEF a
<1>2. a % Modulus = IF a < Modulus THEN a ELSE a - Modulus
  BY <1>1, ModOnce
<1> QED
  BY <1>1, <1>2, AsioTransportAssumption DEF a, Seqs

LEMMA AtType ==
  ASSUME NEW n \in Nat
  PROVE  At(n) \in 0..Slots - 1
BY DivMod, AsioTransportAssumption DEF At

\* Sequence numbers less than Slots apart use different slots.
LEMMA SlotsApart ==
  ASSUME NEW c \in Seqs, NEW i \in 0..Slots, NEW j \in 0..Slots, i < j, j - i < Slots
  PROVE  At((c + i) % Modulus) # At((c + j) % Modulus)
<1>1. ASSUME NEW k \in 0..Slots PROVE At((c + k) % Modulus) = At(c + k)
  <2>1. CASE c + k < Modulus
    BY <2>1, PosValue DEF At, Seqs
  <2>2. CASE c + k >= Modulus
    <3> DEFINE n == c + k
    <3>1. n \in Nat /\ n >= Modulus
      BY <2>2 DEF Seqs
    <3>2. (c + k) % Modulus = n - Modulus
      <4>1. (c + k) % Modulus = IF c + k < Modulus THEN c + k ELSE c + k - Modulus
        BY PosValue
      <4> QED
        BY <2>2, <4>1, AsioTransportAssumption DEF Seqs
    <3> HIDE DEF n
    <3>3. (n - Modulus) % Slots = n % Slots
      BY <3>1, ModShift, AsioTransportAssumption
    <3> QED
      BY <3>2, <3>3 DEF At, n
  <2> QED
    BY <2>1, <2>2, AsioTransportAssumption DEF Seqs
<1> DEFINE a == c + i
           b == c + j
<1>2. a \in Nat /\ b \in Nat /\ a < b /\ b - a < Slots
  BY AsioTransportAssumption DEF Seqs
<1> HIDE DEF a, b
<1>3. a % Slots # b % Slots
  BY <1>2, ModApart, AsioTransportAssumption
<1> QED
  BY <1>1, <1>3 DEF At, a, b

\* The producer's sequence number is the one after those in use.
LEMMA ProducerPosition ==
  ASSUME NEW p \in Seqs, NEW c \in Seqs, Used(p, c) <= Slots
  PROVE  p = (c + Used(p, c)) % Modulus
<1> DEFINE u == Used(p, c)
<1>1. u \in 0..Slots /\ u = IF p >= c THEN p - c ELSE p + Modulus - c
  BY UsedValue, AsioTransportAssumption
<1> HIDE DEF u
<1>2. (c + u) % Modulus = IF c + u < Modulus THEN c + u ELSE c + u - Modulus
  BY <1>1, PosValue
<1> QED
  BY <1>1, <1>2, AsioTransportAssumption DEF u, Seqs

LEMMA UsedSucc ==
  ASSUME NEW p \in Seqs, NEW c \in Seqs, Used(p, c) < Slots
  PROVE  Used(Succ(p), c) = Used(p, c) + 1
<1>1. Succ(p) \in Seqs /\ Succ(p) = IF p + 1 < Modulus THEN p + 1 ELSE 0
  BY SuccValue
<1>2. Used(p, c) = IF p >= c THEN p - c ELSE p + Modulus - c
  BY UsedValue
<1>3. Used(Succ(p), c) = IF Succ(p) >= c THEN Succ(p) - c ELSE Succ(p) + Modulus - c
  BY <1>1, UsedValue
<1> QED
  BY <1>1, <1>2, <1>3, AsioTransportAssumption DEF Seqs

LEMMA UsedTake ==
  ASSUME NEW p \in Seqs, NEW c \in Seqs, Used(p, c) > 0
  PROVE  Used(p, Succ(c)) = Used(p, c) - 1
<1>1. Succ(c) \in Seqs /\ Succ(c) = IF c + 1 < Modulus THEN c + 1 ELSE 0
  BY SuccValue
<1>2. Used(p, c) = IF p >= c THEN p - c ELSE p + Modulus - c
  BY UsedValue
<1>3. Used(p, Succ(c)) = IF p >= Succ(c) THEN p - Succ(c) ELSE p + Modulus - Succ(c)
  BY <1>1, UsedValue
<1> QED
  BY <1>1, <1>2, <1>3, AsioTransportAssumption DEF Seqs

LEMMA PosNext ==
  ASSUME NEW c \in Seqs, NEW i \in 0..Slots - 1
  PROVE  (Succ(c) + i) % Modulus = (c + (i + 1)) % Modulus
<1>1. i \in 0..Slots /\ i + 1 \in 0..Slots
  BY AsioTransportAssumption
<1>2. (Succ(c) + i) % Modulus =
        IF Succ(c) + i < Modulus THEN Succ(c) + i ELSE Succ(c) + i - Modulus
  BY <1>1, SuccValue, PosValue
<1>3. (c + (i + 1)) % Modulus =
        IF c + (i + 1) < Modulus THEN c + (i + 1) ELSE c + (i + 1) - Modulus
  BY <1>1, PosValue
<1> QED
  BY <1>2, <1>3, SuccValue, AsioTransportAssumption DEF Seqs

\* The oldest published slot.
LEMMA PosZero ==
  ASSUME NEW c \in Seqs
  PROVE  (c + 0) % Modulus = c
<1>1. 0 \in 0..Slots
  BY AsioTransportAssumption
<1>2. (c + 0) % Modulus = IF c + 0 < Modulus THEN c + 0 ELSE c + 0 - Modulus
  BY <1>1, PosValue
<1> QED
  BY <1>2, AsioTransportAssumption DEF Seqs

-------------------------------------------------------------------------------
(* IInv is an inductive invariant *)

LEMMA FreshRing ==
  /\ 0 \in Seqs /\ Used(0, 0) = 0
  /\ FreshSlots \in [0..Slots - 1 -> [seq : Seqs, block : Blocks \cup {Torn, Empty}]]
<1>1. 0 \in Seqs
  BY AsioTransportAssumption DEF Seqs
<1> QED
  BY <1>1, UsedValue, AsioTransportAssumption DEF FreshSlots

LEMMA InitIInv == Init => IInv
<1> SUFFICES ASSUME Init PROVE IInv
  OBVIOUS
<1>1. TypeOK
  BY FreshRing DEF Init, TypeOK
<1>2. Used(pseq, cseq) <= Slots /\ PublishedIntact
  BY FreshRing, AsioTransportAssumption DEF Init, PublishedIntact
<1>3. Writing /\ Reading
  BY DEF Init, Writing, Reading
<1> QED
  BY <1>1, <1>2, <1>3 DEF IInv

\* The slot of the producer's sequence number is none of the published ones.
LEMMA ProducerSlotFree ==
  ASSUME IInv, Used(pseq, cseq) < Slots,
         NEW i \in 0..Slots - 1, i < Used(pseq, cseq)
  PROVE  At((cseq + i) % Modulus) # At(pseq)
<1>1. pseq \in Seqs /\ cseq \in Seqs
  BY DEF IInv, TypeOK
<1> DEFINE u == Used(pseq, cseq)
<1>2. u \in 0..Slots /\ i \in 0..Slots /\ i < u /\ u - i < Slots
  BY <1>1, UsedValue, AsioTransportAssumption
<1>3. pseq = (cseq + u) % Modulus
  BY <1>1, ProducerPosition DEF IInv
<1> HIDE DEF u
<1> QED
  BY <1>1, <1>2, <1>3, SlotsApart

\* Closing the last handle leaves an empty ring, any other leaves it alone.
LEMMA ReleaseRing ==
  ASSUME IInv, NEW held \in BOOLEAN, Release(held)
  PROVE  /\ region' \in {"none", "blank", "ready"} /\ pseq' \in Seqs /\ cseq' \in Seqs
         /\ slot' \in [0..Slots - 1 -> [seq : Seqs, block : Blocks \cup {Torn, Empty}]]
         /\ Used(pseq', cseq') <= Slots /\ PublishedIntact'
         /\ held => UNCHANGED <<region, ring>>
<1>1. CASE held
  BY <1>1 DEF Release, IInv, TypeOK, PublishedIntact, ring
<1>2. CASE ~held
  BY <1>2, FreshRing, AsioTransportAssumption DEF Release, PublishedIntact
<1> QED
  BY <1>1, <1>2

LEMMA NextIInv ==
  ASSUME NEW d, Hosts = {d}
  PROVE  IInv /\ [Next]_vars => IInv'
<1> SUFFICES ASSUME IInv, [Next]_vars PROVE IInv'
  OBVIOUS
<1> USE DEF IInv
<1>1. CASE CreateRegion
  BY <1>1 DEF CreateRegion, TypeOK, PublishedIntact, Writing, Reading, ring, host
<1>2. CASE FormatRegion
  <2>1. TypeOK' /\ Used(pseq', cseq') <= Slots /\ PublishedIntact'
    BY <1>2, FreshRing, AsioTransportAssumption DEF FormatRegion, TypeOK, PublishedIntact, host
  <2>2. Writing' /\ Reading'
    BY <1>2 DEF FormatRegion, Writing, Reading, TypeOK, host
  <2> QED
    BY <2>1, <2>2
<1>3. CASE ReopenRegion
  BY <1>3 DEF ReopenRegion, TypeOK, PublishedIntact, Writing, Reading, ring, host
<1>4. CASE UnbindEngine
  <2> DEFINE held == \E h \in Hosts : Holding(h)
  <2>1. held \in BOOLEAN /\ Release(held) /\ epc' = "unbound"
        /\ UNCHANGED <<hpc, hp, ec, staged, out>>
    BY <1>4 DEF UnbindEngine, host
  <2>2. ~held => \A h \in Hosts : hpc[h] = "detached"
    BY DEF Holding
  <2> HIDE DEF held
  <2>3. TypeOK' /\ Used(pseq', cseq') <= Slots /\ PublishedIntact'
    BY <2>1, ReleaseRing DEF TypeOK
  <2>4. Writing' /\ Reading'
    BY <2>1, <2>2, ReleaseRing DEF Writing, Reading, ring
  <2> QED
    BY <2>3, <2>4
<1>5. ASSUME NEW h \in Hosts, OpenRegion(h) PROVE IInv'
  BY <1>5 DEF OpenRegion, TypeOK, PublishedIntact, Writing, Reading, ring, engine
<1>6. ASSUME NEW h \in Hosts, AttachHost(h) PROVE IInv'
  BY <1>6 DEF AttachHost, TypeOK, PublishedIntact, Writing, Reading, ring, engine
<1>7. ASSUME NEW h \in Hosts, DetachHost(h) PROVE IInv'
  <2> DEFINE held == epc # "unbound" \/ \E g \in Hosts \ {h} : Holding(g)
  <2>1. held \in BOOLEAN /\ Release(held) /\ UNCHANGED <<hp, epc, ec, staged, out>>
        /\ hpc' = [hpc EXCEPT ![h] = "detached"]
    BY <1>7 DEF DetachHost, engine
  <2>2. ~held => epc = "unbound"
    OBVIOUS
  <2> HIDE DEF held
  <2>3. TypeOK' /\ Used(pseq', cseq') <= Slots /\ PublishedIntact'
    BY <2>1, ReleaseRing DEF TypeOK
  <2>4. Writing'
    BY <2>1 DEF Writing, TypeOK
  <2>5. Reading'
    BY <2>1, <2>2, ReleaseRing DEF Reading, ring
  <2> QED
    BY <2>3, <2>4, <2>5
<1>8. ASSUME NEW h \in Hosts, BeginPush(h) PROVE IInv'
  <2>1. TypeOK' /\ PublishedIntact' /\ Reading' /\ Used(pseq', cseq') <= Slots
    BY <1>8 DEF BeginPush, TypeOK, PublishedIntact, Reading, ring, engine
  <2>2. Writing'
    BY <1>8 DEF BeginPush, Writing, TypeOK, ring
  <2> QED
    BY <2>1, <2>2
<1>9. ASSUME NEW h \in Hosts, NEW s, NEW x,
             s \in [seq : Seqs, block : Blocks \cup {Torn, Empty}],
             slot' = [slot EXCEPT ![At(pseq)] = s], Used(pseq, cseq) < Slots,
             hpc' = [hpc EXCEPT ![h] = x], x \in {"fill", "ready", "publish"},
             UNCHANGED <<region, pseq, cseq, hp, engine>>
      PROVE  /\ slot' \in [0..Slots - 1 -> [seq : Seqs, block : Blocks \cup {Torn, Empty}]]
             /\ TypeOK' /\ PublishedIntact' /\ Reading' /\ Used(pseq', cseq') <= Slots
             /\ slot'[At(pseq)] = s
  <2>1. At(pseq) \in 0..Slots - 1
    BY AtType DEF TypeOK, Seqs
  <2>2. TypeOK' /\ slot'[At(pseq)] = s
    BY <1>9, <2>1 DEF TypeOK, engine
  <2>3. ASSUME NEW i \in 0..Slots - 1, i < Used(pseq, cseq)
        PROVE  slot'[At((cseq + i) % Modulus)] = slot[At((cseq + i) % Modulus)]
    <3>1. At((cseq + i) % Modulus) \in 0..Slots - 1
      <4>1. (cseq + i) % Modulus \in Nat
        BY PosValue, AsioTransportAssumption DEF TypeOK, Seqs
      <4> QED
        BY <4>1, AtType
    <3> QED
      BY <1>9, <2>1, <2>3, <3>1, ProducerSlotFree DEF TypeOK
  <2>4. PublishedIntact'
    BY <1>9, <2>3 DEF PublishedIntact
  <2>5. Reading'
    <3>1. Used(pseq, cseq) > 0 => slot'[At(cseq)] = slot[At(cseq)]
      BY <2>3, PosZero, AsioTransportAssumption DEF TypeOK
    <3> QED
      BY <1>9, <3>1 DEF Reading, engine
  <2> QED
    BY <1>9, <2>2, <2>4, <2>5 DEF TypeOK
<1>10. ASSUME NEW h \in Hosts, WriteSlot(h) PROVE IInv'
  <2> DEFINE s == [slot[At(pseq)] EXCEPT !.block = Torn]
  <2>1. At(pseq) \in 0..Slots - 1
    BY AtType DEF TypeOK, Seqs
  <2>2. hp[h] = pseq /\ Used(pseq, cseq) < Slots
    BY <1>10 DEF WriteSlot, Writing
  <2>3. /\ s \in [seq : Seqs, block : Blocks \cup {Torn, Empty}]
        /\ slot' = [slot EXCEPT ![At(pseq)] = s]
    BY <1>10, <2>1, <2>2 DEF WriteSlot, TypeOK
  <2>4. TypeOK' /\ PublishedIntact' /\ Reading' /\ Used(pseq', cseq') <= Slots
    BY <1>9, <1>10, <2>2, <2>3 DEF WriteSlot
  <2>5. Writing'
    BY <1>10, <2>2 DEF WriteSlot, Writing, TypeOK
  <2> QED
    BY <2>4, <2>5
<1>11. ASSUME NEW h \in Hosts, NEW b \in Blocks, FillSlot(h, b) PROVE IInv'
  <2> DEFINE s == [slot[At(pseq)] EXCEPT !.block = b]
  <2>1. At(pseq) \in 0..Slots - 1
    BY AtType DEF TypeOK, Seqs
  <2>2. hp[h] = pseq /\ Used(pseq, cseq) < Slots
    BY <1>11 DEF FillSlot, Writing
  <2>3. /\ s \in [seq : Seqs, block : Blocks \cup {Torn, Empty}] /\ s.block = b
        /\ slot' = [slot EXCEPT ![At(pseq)] = s]
    BY <1>11, <2>1, <2>2 DEF FillSlot, TypeOK
  <2>4. /\ TypeOK' /\ PublishedIntact' /\ Reading' /\ Used(pseq', cseq') <= Slots
        /\ slot'[At(pseq)] = s
    BY <1>9, <1>11, <2>2, <2>3 DEF FillSlot
  <2>5. Writing'
    BY <1>11, <2>2, <2>3, <2>4 DEF FillSlot, Writing, TypeOK
  <2> QED
    BY <2>4, <2>5
<1>12. ASSUME NEW h \in Hosts, MarkReady(h) PROVE IInv'
  <2> DEFINE s == [slot[At(pseq)] EXCEPT !.seq = Succ(pseq)]
  <2>1. At(pseq) \in 0..Slots - 1 /\ Succ(pseq) \in Seqs
    BY AtType, SuccValue DEF TypeOK, Seqs
  <2>2. /\ hp[h] = pseq /\ Used(pseq, cseq) < Slots
        /\ slot[At(pseq)].block \in Blocks
    BY <1>12 DEF MarkReady, Writing
  <2>3. /\ s \in [seq : Seqs, block : Blocks \cup {Torn, Empty}]
        /\ s.seq = Succ(pseq) /\ s.block \in Blocks
        /\ slot' = [slot EXCEPT ![At(pseq)] = s]
    BY <1>12, <2>1, <2>2 DEF MarkReady, TypeOK
  <2>4. /\ TypeOK' /\ PublishedIntact' /\ Reading' /\ Used(pseq', cseq') <= Slots
        /\ slot'[At(pseq)] = s
    BY <1>9, <1>12, <2>2, <2>3 DEF MarkReady
  <2>5. Writing'
    BY <1>12, <2>2, <2>3, <2>4 DEF MarkReady, Writing, TypeOK
  <2> QED
    BY <2>4, <2>5
<1>13. ASSUME NEW h \in Hosts, Publish(h) PROVE IInv'
  <2> DEFINE u == Used(pseq, cseq)
  <2>1. /\ hp[h] = pseq /\ u < Slots /\ pseq \in Seqs /\ cseq \in Seqs
        /\ slot[At(pseq)].block \in Blocks /\ slot[At(pseq)].seq = Succ(pseq)
    BY <1>13 DEF Publish, Writing, TypeOK
  <2>2. pseq' = Succ(pseq) /\ pseq' \in Seqs /\ Used(pseq', cseq') = u + 1
    BY <1>13, <2>1, UsedSucc, SuccValue DEF Publish
  <2>3. u \in 0..Slots - 1 /\ (cseq + u) % Modulus = pseq
    BY <2>1, UsedValue, ProducerPosition, AsioTransportAssumption
  <2>4. TypeOK'
    BY <1>13, <2>2 DEF Publish, TypeOK, engine
  <2> HIDE DEF u
  <2>5. PublishedIntact'
    <3> SUFFICES ASSUME NEW i \in 0..Slots - 1, i < u + 1
                 PROVE  /\ slot[At((cseq + i) % Modulus)].seq = Succ((cseq + i) % Modulus)
                        /\ slot[At((cseq + i) % Modulus)].block \in Blocks
      BY <1>13, <2>2 DEF Publish, PublishedIntact
    <3>1. CASE i = u
      BY <2>1, <2>3, <3>1
    <3>2. CASE i < u
      BY <3>2 DEF PublishedIntact, u
    <3> QED
      BY <2>3, <3>1, <3>2
  <2>6. Writing' /\ Reading'
    BY <1>13, <2>2, <2>3 DEF Publish, Writing, Reading, TypeOK, engine, u
  <2> QED
    BY <2>2, <2>3, <2>4, <2>5, <2>6, AsioTransportAssumption
<1>14. CASE BeginPop
  <2>1. Used(pseq, cseq) > 0
    <3>1. /\ pseq \in Seqs /\ cseq \in Seqs /\ pseq # cseq
          /\ Used(pseq, cseq) = IF pseq >= cseq THEN pseq - cseq ELSE pseq + Modulus - cseq
      BY <1>14, UsedValue DEF BeginPop, TypeOK
    <3> QED
      BY <3>1, AsioTransportAssumption DEF Seqs
  <2> QED
    BY <1>14, <2>1 DEF BeginPop, TypeOK, PublishedIntact, Writing, Reading, ring, host
<1>15. CASE CheckReady
  BY <1>15 DEF CheckReady, TypeOK, PublishedIntact, Writing, Reading, ring, host
<1>16. CASE CopySlot
  <2>1. ec = cseq /\ At(cseq) \in 0..Slots - 1
    BY <1>16, AtType DEF CopySlot, Reading, TypeOK, Seqs
  <2>2. TypeOK'
    BY <1>16, <2>1 DEF CopySlot, TypeOK, ring, host
  <2> QED
    BY <1>16, <2>1, <2>2 DEF CopySlot, PublishedIntact, Writing, Reading, ring, host
<1>17. CASE AdvanceConsumer
  <2>1. /\ ec = cseq /\ Used(pseq, cseq) > 0 /\ pseq \in Seqs /\ cseq \in Seqs
    BY <1>17 DEF AdvanceConsumer, Reading, TypeOK
  <2>2. /\ cseq' = Succ(cseq) /\ cseq' \in Seqs /\ pseq' = pseq /\ slot' = slot
        /\ Used(pseq', cseq') = Used(pseq, cseq) - 1
    BY <1>17, <2>1, UsedTake, SuccValue DEF AdvanceConsumer
  <2>3. TypeOK'
    BY <1>17, <2>2 DEF AdvanceConsumer, TypeOK, host
  <2>4. PublishedIntact'
    <3> SUFFICES ASSUME NEW i \in 0..Slots - 1, i < Used(pseq, cseq) - 1
                 PROVE  LET n == (cseq' + i) % Modulus IN
                        slot[At(n)].seq = Succ(n) /\ slot[At(n)].block \in Blocks
      BY <2>2 DEF PublishedIntact
    <3>1. (cseq' + i) % Modulus = (cseq + (i + 1)) % Modulus
      BY <2>1, <2>2, PosNext
    <3>2. i + 1 \in 0..Slots - 1 /\ i + 1 < Used(pseq, cseq)
      BY <2>1, UsedValue, AsioTransportAssumption
    <3> QED
      BY <3>1, <3>2 DEF PublishedIntact
  <2>5. Used(pseq, cseq) \in Nat
    BY <2>1, UsedValue
  <2>6. Writing' /\ Reading' /\ Used(pseq', cseq') <= Slots
    BY <1>17, <2>2, <2>5, AsioTransportAssumption DEF AdvanceConsumer, Writing, Reading, host
  <2> QED
    BY <2>3, <2>4, <2>6
<1>18. CASE UNCHANGED vars
  BY <1>18 DEF vars, TypeOK, PublishedIntact, Writing, Reading, ring, host, engine
<1> QED
  BY <1>1, <1>2, <1>3, <1>4, <1>5, <1>6, <1>7, <1>8, <1>10, <1>11, <1>12, <1>13, <1>14,
     <1>15, <1>16, <1>17, <1>18 DEF Next, Mapping, Push, Pop

-------------------------------------------------------------------------------
(* The ring implements BlockFifo *)

QueuedShape ==
  /\ Queued \in Seq(Blocks) /\ Len(Queued) = Used(pseq, cseq)
  /\ \A i \in 1..Used(pseq, cseq) :
       Queued[i] = slot[At((cseq + (i - 1)) % Modulus)].block

\* The abstract channel holds the published blocks, oldest first.
LEMMA QueuedSeq == IInv => QueuedShape
<1> SUFFICES ASSUME IInv PROVE QueuedShape
  OBVIOUS
<1> DEFINE u == Used(pseq, cseq)
<1>1. u \in 0..Slots
  BY UsedValue, AsioTransportAssumption DEF IInv, TypeOK
<1>2. ASSUME NEW i \in 1..u
      PROVE  /\ cseq + i - 1 = cseq + (i - 1)
             /\ slot[At((cseq + (i - 1)) % Modulus)].block \in Blocks
  <2>1. i - 1 \in 0..Slots - 1 /\ i - 1 < u
    BY <1>1, AsioTransportAssumption
  <2>2. slot[At((cseq + (i - 1)) % Modulus)].block \in Blocks
    BY <2>1 DEF IInv, PublishedIntact
  <2> QED
    BY <2>2, AsioTransportAssumption DEF IInv, TypeOK, Seqs
<1>3. Queued = [i \in 1..u |-> slot[At((cseq + (i - 1)) % Modulus)].block]
  BY <1>2 DEF Queued
<1> HIDE DEF u
<1> QED
  BY <1>1, <1>2, <1>3 DEF u, QueuedShape

\* Writing the slot of the producer's sequence number changes no queued block.
LEMMA WriteKeepsQueued ==
  ASSUME IInv, NEW s, slot' = [slot EXCEPT ![At(pseq)] = s], Used(pseq, cseq) < Slots,
         UNCHANGED <<pseq, cseq>>
  PROVE  Queued' = Queued
<1> DEFINE u == Used(pseq, cseq)
<1>1. u \in 0..Slots /\ u < Slots
  BY UsedValue, AsioTransportAssumption DEF IInv, TypeOK
<1>2. ASSUME NEW i \in 1..u
      PROVE  slot'[At((cseq + i - 1) % Modulus)] = slot[At((cseq + i - 1) % Modulus)]
  <2>1. i - 1 \in 0..Slots - 1 /\ i - 1 < u /\ cseq + i - 1 = cseq + (i - 1)
    BY <1>1, AsioTransportAssumption DEF IInv, TypeOK, Seqs
  <2>2. At((cseq + (i - 1)) % Modulus) # At(pseq)
    BY <1>1, <2>1, ProducerSlotFree
  <2>3. At((cseq + (i - 1)) % Modulus) \in 0..Slots - 1
    <3>1. (cseq + (i - 1)) % Modulus \in Nat
      BY <2>1, PosValue, AsioTransportAssumption DEF IInv, TypeOK, Seqs
    <3> QED
      BY <3>1, AtType
  <2> QED
    BY <2>1, <2>2, <2>3 DEF IInv, TypeOK
<1> QED
  BY <1>2 DEF Queued

LEMMA NextImplements ==
  ASSUME NEW d, Hosts = {d}, IInv, IInv', [Next]_vars
  PROVE  [Fifo!Next]_<<Queued, out>>
<1>1. ASSUME UNCHANGED <<ring, out>> PROVE UNCHANGED <<Queued, out>>
  BY <1>1 DEF Queued, ring
<1>2. ASSUME pseq' = 0, cseq' = 0, UNCHANGED out PROVE Fifo!Next
  <2>1. Queued' = <<>>
    BY <1>2, FreshRing DEF Queued
  <2> QED
    BY <1>2, <2>1 DEF Fifo!Next, Fifo!Renew
<1>3. ASSUME NEW held, Release(held), UNCHANGED out PROVE [Fifo!Next]_<<Queued, out>>
  BY <1>1, <1>2, <1>3 DEF Release
<1>4. CASE Mapping
  <2>1. CASE CreateRegion \/ ReopenRegion \/ \E h \in Hosts : OpenRegion(h) \/ AttachHost(h)
    BY <1>1, <2>1 DEF CreateRegion, ReopenRegion, OpenRegion, AttachHost, engine
  <2>2. CASE FormatRegion
    BY <1>2, <2>2 DEF FormatRegion
  <2>3. CASE UnbindEngine
    BY <1>3, <2>3 DEF UnbindEngine
  <2>4. CASE \E h \in Hosts : DetachHost(h)
    BY <1>3, <2>4 DEF DetachHost, engine
  <2> QED
    BY <1>4, <2>1, <2>2, <2>3, <2>4 DEF Mapping
<1>5. ASSUME NEW h \in Hosts, Push(h) PROVE [Fifo!Next]_<<Queued, out>>
  <2>1. CASE BeginPush(h)
    BY <1>1, <2>1 DEF BeginPush, engine
  <2>2. CASE WriteSlot(h) \/ (\E b \in Blocks : FillSlot(h, b)) \/ MarkReady(h)
    <3>1. hp[h] = pseq /\ Used(pseq, cseq) < Slots
      BY <2>2 DEF IInv, Writing, WriteSlot, FillSlot, MarkReady
    <3>2. /\ \E s : slot' = [slot EXCEPT ![At(pseq)] = s]
          /\ UNCHANGED <<pseq, cseq, out>>
      BY <2>2, <3>1 DEF WriteSlot, FillSlot, MarkReady, engine
    <3> QED
      BY <3>1, <3>2, WriteKeepsQueued
  <2>3. CASE Publish(h)
    <3> DEFINE u == Used(pseq, cseq)
               b == slot[At(pseq)].block
    <3>1. /\ hp[h] = pseq /\ u < Slots /\ pseq \in Seqs /\ cseq \in Seqs /\ b \in Blocks
          /\ pseq' = Succ(pseq) /\ cseq' = cseq /\ slot' = slot /\ out' = out
      BY <2>3 DEF Publish, IInv, Writing, TypeOK, engine
    <3>2. /\ u \in 0..Slots - 1 /\ (cseq + u) % Modulus = pseq
          /\ Used(pseq', cseq') = u + 1
      BY <3>1, UsedValue, UsedSucc, ProducerPosition, AsioTransportAssumption
    <3>3. /\ Queued \in Seq(Blocks) /\ Len(Queued) = u
          /\ \A i \in 1..u : Queued[i] = slot[At((cseq + (i - 1)) % Modulus)].block
      BY QueuedSeq DEF QueuedShape
    <3>4. /\ Queued' \in Seq(Blocks) /\ Len(Queued') = u + 1
          /\ \A i \in 1..u + 1 : Queued'[i] = slot[At((cseq + (i - 1)) % Modulus)].block
      <4>1. /\ Queued' \in Seq(Blocks) /\ Len(Queued') = Used(pseq', cseq')
            /\ \A i \in 1..Used(pseq', cseq') :
                 Queued'[i] = slot'[At((cseq' + (i - 1)) % Modulus)].block
        <5>1. QueuedShape'
          BY QueuedSeq, PTL
        <5> QED
          BY <5>1 DEF QueuedShape
      <4> QED
        BY <3>1, <3>2, <4>1
    <3>5. /\ Append(Queued, b) \in Seq(Blocks) /\ Len(Append(Queued, b)) = u + 1
          /\ \A i \in 1..u : Append(Queued, b)[i] = Queued[i]
          /\ Append(Queued, b)[u + 1] = b
      BY <3>1, <3>3, AppendProperties
    <3>6. Queued' = Append(Queued, b)
      <4> HIDE DEF u
      <4>1. Queued'[u + 1] = b
        BY <3>2, <3>4
      <4>2. \A i \in 1..u + 1 : Queued'[i] = Append(Queued, b)[i]
        <5>1. ASSUME NEW i \in 1..u PROVE Queued'[i] = Append(Queued, b)[i]
          BY SMTT(30), <3>2, <3>3, <3>4, <3>5
        <5> QED
          BY <3>2, <3>5, <4>1, <5>1
      <4> QED
        BY <3>2, <3>4, <3>5, <4>2, SeqEqual
    <3> QED
      BY <3>1, <3>3, <3>6 DEF Fifo!Next, Fifo!Send
  <2> QED
    BY <1>5, <2>1, <2>2, <2>3 DEF Push
<1>6. CASE Pop
  <2>1. CASE BeginPop \/ CheckReady \/ CopySlot
    BY <1>1, <2>1 DEF BeginPop, CheckReady, CopySlot
  <2>2. CASE AdvanceConsumer
    <3> DEFINE u == Used(pseq, cseq)
    <3>1. /\ ec = cseq /\ u > 0 /\ pseq \in Seqs /\ cseq \in Seqs
          /\ out' = slot[At(cseq)].block
          /\ cseq' = Succ(cseq) /\ pseq' = pseq /\ slot' = slot
      BY <2>2 DEF AdvanceConsumer, IInv, Reading, TypeOK
    <3>2. u \in 1..Slots /\ Used(pseq', cseq') = u - 1
      BY <3>1, UsedValue, UsedTake, AsioTransportAssumption DEF IInv
    <3>3. /\ Queued \in Seq(Blocks) /\ Len(Queued) = u
          /\ \A i \in 1..u : Queued[i] = slot[At((cseq + (i - 1)) % Modulus)].block
      BY QueuedSeq DEF QueuedShape
    <3>4. /\ Queued' \in Seq(Blocks) /\ Len(Queued') = u - 1
          /\ \A i \in 1..u - 1 : Queued'[i] = slot[At((Succ(cseq) + (i - 1)) % Modulus)].block
      <4>1. /\ Queued' \in Seq(Blocks) /\ Len(Queued') = Used(pseq', cseq')
            /\ \A i \in 1..Used(pseq', cseq') :
                 Queued'[i] = slot'[At((cseq' + (i - 1)) % Modulus)].block
        <5>1. QueuedShape'
          BY QueuedSeq, PTL
        <5> QED
          BY <5>1 DEF QueuedShape
      <4> QED
        BY <3>1, <3>2, <4>1
    <3>5. Queued # <<>> /\ Head(Queued) = out'
      <4>1. Head(Queued) = Queued[1] /\ Queued # <<>>
        BY <3>2, <3>3
      <4>2. Queued[1] = slot[At((cseq + 0) % Modulus)].block
        BY <3>2, <3>3
      <4> QED
        BY <3>1, <4>1, <4>2, PosZero
    <3>6. Queued' = Tail(Queued)
      <4>1. /\ Tail(Queued) \in Seq(Blocks) /\ Len(Tail(Queued)) = u - 1
            /\ \A i \in 1..u - 1 : Tail(Queued)[i] = Queued[i + 1]
        BY <3>3, <3>5, HeadTailProperties
      <4> HIDE DEF u
      <4>2. ASSUME NEW i \in 1..u - 1 PROVE Queued'[i] = Tail(Queued)[i]
        <5>1. i - 1 \in 0..Slots - 1 /\ i + 1 \in 1..u /\ (i - 1) + 1 = i /\ (i + 1) - 1 = i
          BY <3>2, AsioTransportAssumption
        <5>2. (Succ(cseq) + (i - 1)) % Modulus = (cseq + ((i - 1) + 1)) % Modulus
          BY <3>1, <5>1, PosNext
        <5>3. Queued[i + 1] = slot[At((cseq + ((i + 1) - 1)) % Modulus)].block
          BY <3>3, <5>1
        <5> QED
          BY <3>4, <4>1, <5>1, <5>2, <5>3
      <4> QED
        BY <3>2, <3>4, <4>1, <4>2, SeqEqual
    <3> QED
      BY <3>5, <3>6 DEF Fifo!Next, Fifo!Receive
  <2> QED
    BY <1>6, <2>1, <2>2 DEF Pop
<1>7. CASE UNCHANGED vars
  BY <1>1, <1>7 DEF vars, ring, engine
<1> QED
  BY <1>4, <1>5, <1>6, <1>7 DEF Next

-------------------------------------------------------------------------------
(* Theorems *)

LEMMA InvariantIInv ==
  ASSUME NEW d, Hosts = {d}
  PROVE  Spec => []IInv
<1> QED
  BY InitIInv, NextIInv, PTL DEF Spec

\* Every loaded and stored sequence number stays within its width.
THEOREM TypeCorrect ==
  ASSUME NEW d, Hosts = {d}
  PROVE  Spec => []TypeOK
<1>1. IInv => TypeOK
  BY DEF IInv
<1> QED
  BY <1>1, InvariantIInv, PTL

\* The engine never takes a block that a host is writing or left half written.
THEOREM NeverTorn ==
  ASSUME NEW d, Hosts = {d}
  PROVE  Spec => []NoTornRead
<1>1. IInv => NoTornRead
  <2> SUFFICES ASSUME IInv PROVE NoTornRead
    OBVIOUS
  <2>1. Used(pseq, cseq) > 0 => slot[At(cseq)].block \in Blocks
    BY PosZero, AsioTransportAssumption DEF IInv, TypeOK, PublishedIntact
  <2> QED
    BY <2>1 DEF IInv, Reading, NoTornRead
<1> QED
  BY <1>1, InvariantIInv, PTL

\* Published slots are whole and in sequence, also after a wrap.
THEOREM AlwaysIntact ==
  ASSUME NEW d, Hosts = {d}
  PROVE  Spec => []PublishedIntact
<1>1. IInv => PublishedIntact
  BY DEF IInv
<1> QED
  BY <1>1, InvariantIInv, PTL

\* The ring is a bounded FIFO: no published block is lost, repeated or
\* overtaken while the region lives.
THEOREM RegionIsFifo ==
  ASSUME NEW d, Hosts = {d}
  PROVE  Spec => ImplementsFifo
<1>1. Init => Fifo!Init
  BY FreshRing DEF Init, Fifo!Init, Queued
<1>2. IInv /\ IInv' /\ [Next]_vars => [Fifo!Next]_<<Queued, out>>
  BY NextImplements
<1> QED
  BY <1>1, <1>2, InvariantIInv, PTL DEF Spec, ImplementsFifo, Fifo!Spec

-------------------------------------------------------------------------------
(* The tab bridge.  PageInv is about the page and its sockets, CarryInv and  *)
(* SlotInv about what the receiver holds and the ring.                       *)

Contents == TabPackets \cup {NoPacket}
Pages == [capturing : BOOLEAN, bridge : {NoSocket} \cup Sockets, connected : BOOLEAN,
          timer : BOOLEAN, attempt : 0..RetryLimit, exhausted : BOOLEAN, captures : 0..MaxCaptures]

\* A page that captures nothing has no bridge, and no other socket is live.
PageInv ==
  /\ page \in Pages
  /\ DOMAIN ready = Sockets
  /\ ~page.capturing => page.bridge = NoSocket
  /\ OneLiveSocket

\* What is under way to the receiver, and what it holds.
CarryInv ==
  /\ captured \in 0..MaxPackets
  /\ wire \in [Sockets -> Seq(0..MaxPackets)]
  /\ receiver \in [at : {"begin", "check", "accept", "register", "handshake", "serve", "push",
                         "fill", "ready", "publish", "ended", "leave", "done"},
                   socket : {NoSocket} \cup Sockets, packet : Contents]
  /\ receiver.at \in {"register", "handshake", "serve", "push", "fill", "ready", "publish"} =>
       receiver.socket \in Sockets
  /\ receiver.at \in {"push", "fill", "ready", "publish"} => receiver.packet \in TabPackets

\* The slot behind the waiting ones is the producer's while it is filled.
SlotInv ==
  /\ producer \in Nat /\ consumer \in Nat /\ producer - consumer \in 0..SlotCount
  /\ slots \in [0..SlotCount - 1 -> [sequence : Nat, packet : Contents]]
  /\ hostLoop = "popped" => consumer # producer
  /\ receiver.at \in {"fill", "ready", "publish"} =>
       ~Foreign(receiver.packet) /\ producer - consumer < SlotCount
  /\ receiver.at \in {"ready", "publish"} => slots[TabSlot(producer)].packet = receiver.packet

TabIInv == PageInv /\ CarryInv /\ SlotInv

LEMMA TabConstants ==
  /\ SlotCount \in Nat \ {0} /\ RetryLimit \in Nat \ {0}
  /\ MaxSockets \in Nat /\ MaxPackets \in Nat /\ MaxCaptures \in Nat
BY TabAssumption

LEMMA TabInitIInv == TabInit => TabIInv
<1> SUFFICES ASSUME TabInit PROVE TabIInv
  OBVIOUS
<1>1. PageInv
  BY TabConstants DEF TabInit, PageInv, Pages, IdlePage, OneLiveSocket, NoSocket
<1>2. CarryInv
  BY TabConstants, EmptySeq DEF TabInit, CarryInv, Contents, NoSocket
<1>3. SlotInv
  BY TabConstants DEF TabInit, SlotInv, Contents
<1> QED
  BY <1>1, <1>2, <1>3 DEF TabIInv

-------------------------------------------------------------------------------
(* The page *)

LEMMA ScheduledKeeps ==
  ASSUME NEW p \in Pages
  PROVE  /\ Scheduled(p) \in Pages /\ Scheduled(p).bridge = p.bridge
         /\ Scheduled(p).capturing = p.capturing
<1>1. CASE p.timer
  BY <1>1 DEF Scheduled
<1>2. CASE ~p.timer /\ p.attempt >= RetryLimit
  BY <1>2 DEF Scheduled, Pages
<1>3. CASE ~p.timer /\ ~(p.attempt >= RetryLimit)
  <2>1. p.attempt + 1 \in 0..RetryLimit
    BY <1>3, TabConstants DEF Pages
  <2>2. Scheduled(p) = [capturing |-> p.capturing, bridge |-> p.bridge, connected |-> p.connected,
                        timer |-> TRUE, attempt |-> p.attempt + 1, exhausted |-> FALSE,
                        captures |-> p.captures]
    BY <1>3 DEF Scheduled, Pages
  <2> QED
    BY <2>1, <2>2 DEF Pages
<1> QED
  BY <1>1, <1>2, <1>3

\* A socket is opened when no other is live.
LEMMA ConnectedKeeps ==
  ASSUME PageInv, NEW p \in Pages, p.bridge = page.bridge, ~p.capturing => p.bridge = NoSocket,
         Connected(p)
  PROVE  PageInv'
<1>1. CASE page' = p /\ UNCHANGED <<ready, peer>>
  BY <1>1 DEF PageInv, OneLiveSocket
<1>2. ASSUME p.capturing, p.bridge = NoSocket, NEW s \in Unused, page' = [p EXCEPT !.bridge = s],
             ready' = [ready EXCEPT ![s] = "connecting"]
      PROVE  PageInv'
  <2>1. s \in Sockets /\ DOMAIN ready = Sockets
    BY DEF Unused, PageInv
  <2>2. page' \in Pages /\ page'.bridge = s /\ page'.capturing
    BY <1>2, <2>1 DEF Pages
  <2>3. \A t \in Sockets : ready[t] \notin {"connecting", "open"}
    BY <1>2 DEF PageInv, OneLiveSocket, NoSocket, Sockets
  <2>4. OneLiveSocket'
    BY <1>2, <2>1, <2>2, <2>3 DEF OneLiveSocket
  <2> QED
    BY <1>2, <2>1, <2>2, <2>4 DEF PageInv
<1> QED
  BY <1>1, <1>2 DEF Connected

LEMMA PageKeeps == PageInv /\ Page => PageInv'
<1> SUFFICES ASSUME PageInv, Page PROVE PageInv'
  OBVIOUS
<1>1. CASE StartCapture
  <2>0. PICK p : p = [IdlePage EXCEPT !.capturing = TRUE, !.captures = page.captures + 1]
    OBVIOUS
  <2>1. ~page.capturing /\ page.captures + 1 \in 0..MaxCaptures /\ Connected(p)
    BY <1>1, <2>0, TabConstants DEF StartCapture, PageInv, Pages
  <2>2. p = [capturing |-> TRUE, bridge |-> NoSocket, connected |-> FALSE, timer |-> FALSE,
             attempt |-> 0, exhausted |-> FALSE, captures |-> page.captures + 1]
    BY <2>0 DEF IdlePage
  <2>3. p \in Pages /\ p.bridge = page.bridge /\ p.capturing
    BY <2>1, <2>2, TabConstants DEF Pages, PageInv
  <2> QED
    BY <2>1, <2>3, ConnectedKeeps
<1>2. CASE StopCapture
  <2>1. page' = [capturing |-> FALSE, bridge |-> NoSocket, connected |-> FALSE, timer |-> FALSE,
                 attempt |-> 0, exhausted |-> FALSE, captures |-> page.captures]
    BY <1>2 DEF StopCapture, IdlePage
  <2>2. page' \in Pages /\ page'.bridge = NoSocket
    BY <2>1, TabConstants DEF Pages, PageInv
  <2>3. DOMAIN ready' = Sockets /\ \A s \in Sockets : ready'[s] \notin {"connecting", "open"}
    <3>1. CASE page.bridge = NoSocket
      BY <1>2, <3>1 DEF StopCapture, PageInv, OneLiveSocket, NoSocket, Sockets
    <3>2. CASE page.bridge # NoSocket
      <4>1. ready' = [ready EXCEPT ![page.bridge] = "closing"]
        BY <1>2, <3>2 DEF StopCapture, Closed
      <4> QED
        BY <4>1 DEF PageInv, OneLiveSocket
    <3> QED
      BY <3>1, <3>2
  <2> QED
    BY <2>2, <2>3 DEF PageInv, OneLiveSocket
<1>3. CASE RetryTimer
  <2> DEFINE p == [page EXCEPT !.timer = FALSE]
  <2>1. p \in Pages /\ p.bridge = page.bridge /\ (~p.capturing => p.bridge = NoSocket)
    BY DEF PageInv, Pages
  <2>2. Connected(p)
    BY <1>3 DEF RetryTimer
  <2> QED
    BY <2>1, <2>2, ConnectedKeeps
<1>4. CASE RetryNow
  <2>0. PICK p : p = [page EXCEPT !.timer = FALSE, !.attempt = 0, !.exhausted = FALSE]
    OBVIOUS
  <2>1. p = [capturing |-> page.capturing, bridge |-> page.bridge, connected |-> page.connected,
             timer |-> FALSE, attempt |-> 0, exhausted |-> FALSE, captures |-> page.captures]
    BY <2>0 DEF PageInv, Pages
  <2>2. Connected(p)
    BY <1>4, <2>0 DEF RetryNow
  <2>3. p \in Pages /\ p.bridge = page.bridge /\ (~p.capturing => p.bridge = NoSocket)
    BY <2>1, TabConstants DEF PageInv, Pages
  <2> QED
    BY <2>2, <2>3, ConnectedKeeps
<1>5. CASE Capture
  BY <1>5 DEF Capture, PageInv, OneLiveSocket
<1>6. ASSUME NEW s \in Sockets, OnOpen(s) PROVE PageInv'
  <2>1. ready[s] = "connecting" /\ ready' = [ready EXCEPT ![s] = "open"]
    BY <1>6 DEF OnOpen
  <2>2. page' \in Pages /\ page'.bridge = page.bridge /\ page'.capturing = page.capturing
    <3>1. CASE page' = page
      BY <3>1 DEF PageInv
    <3>2. CASE page' = [page EXCEPT !.attempt = 0, !.connected = TRUE]
      <4>1. page' = [capturing |-> page.capturing, bridge |-> page.bridge, connected |-> TRUE,
                     timer |-> page.timer, attempt |-> 0, exhausted |-> page.exhausted,
                     captures |-> page.captures]
        BY <3>2 DEF PageInv, Pages
      <4> QED
        BY <4>1, TabConstants DEF PageInv, Pages
    <3> QED
      BY <1>6, <3>1, <3>2 DEF OnOpen
  <2> QED
    BY <2>1, <2>2 DEF PageInv, OneLiveSocket
<1>7. ASSUME NEW s \in Sockets, OnClose(s) PROVE PageInv'
  <2>1. ready' = [ready EXCEPT ![s] = "closed"]
    BY <1>7 DEF OnClose
  <2>2. CASE page.bridge # s \/ ~page.capturing
    <3>1. page' = page /\ page.bridge # s
      BY <1>7, <2>2 DEF OnClose, PageInv, NoSocket, Sockets
    <3> QED
      BY <2>1, <3>1 DEF PageInv, OneLiveSocket
  <2>3. CASE page.bridge = s /\ page.capturing
    <3>0. PICK p : p = [page EXCEPT !.bridge = NoSocket, !.connected = FALSE]
      OBVIOUS
    <3>1. page' = Scheduled(p)
      BY <1>7, <2>3, <3>0 DEF OnClose
    <3>2. p = [capturing |-> page.capturing, bridge |-> NoSocket, connected |-> FALSE,
               timer |-> page.timer, attempt |-> page.attempt, exhausted |-> page.exhausted,
               captures |-> page.captures]
      BY <3>0 DEF PageInv, Pages
    <3>3. p \in Pages /\ p.bridge = NoSocket
      BY <3>2 DEF PageInv, Pages
    <3>4. page' \in Pages /\ page'.bridge = NoSocket
      BY <3>1, <3>3, ScheduledKeeps
    <3>5. \A t \in Sockets : ready'[t] \notin {"connecting", "open"}
      BY <2>1, <2>3 DEF PageInv, OneLiveSocket
    <3> QED
      BY <2>1, <3>4, <3>5 DEF PageInv, OneLiveSocket
  <2> QED
    BY <2>2, <2>3
<1> QED
  BY <1>1, <1>2, <1>3, <1>4, <1>5, <1>6, <1>7 DEF Page

\* What the page sends is one of its packets or a close.
LEMMA PageSends ==
  ASSUME PageInv, CarryInv, Page
  PROVE  /\ CarryInv' /\ UNCHANGED <<receiver, slots, producer, consumer, hostLoop, block>>
<1> USE TabConstants
<1>1. ASSUME UNCHANGED <<wire, captured, receiver>> PROVE CarryInv'
  BY <1>1 DEF CarryInv
<1>2. ASSUME NEW s \in Sockets, NEW m \in 0..MaxPackets, wire' = [wire EXCEPT ![s] = Append(@, m)],
             captured' \in 0..MaxPackets, receiver' = receiver
      PROVE  CarryInv'
  <2>1. wire[s] \in Seq(0..MaxPackets)
    BY DEF CarryInv
  <2>2. Append(wire[s], m) \in Seq(0..MaxPackets)
    BY <2>1, AppendProperties
  <2>3. wire' \in [Sockets -> Seq(0..MaxPackets)]
    BY <1>2, <2>2 DEF CarryInv
  <2> QED
    BY <1>2, <2>3 DEF CarryInv
<1>3. CASE StartCapture \/ RetryTimer \/ RetryNow \/ \E s \in Sockets : OnOpen(s) \/ OnClose(s)
  <2>1. UNCHANGED <<wire, captured, receiver, slots, producer, consumer, hostLoop, block>>
    BY <1>3 DEF StartCapture, RetryTimer, RetryNow, OnOpen, OnClose, linkVars, serverVars,
                tabRingVars, loopVars
  <2> QED
    BY <1>1, <2>1
<1>4. CASE StopCapture
  <2>1. UNCHANGED <<captured, receiver, slots, producer, consumer, hostLoop, block>>
    BY <1>4 DEF StopCapture, serverVars, tabRingVars, loopVars
  <2>2. CASE page.bridge = NoSocket
    BY <1>1, <1>4, <2>1, <2>2 DEF StopCapture
  <2>3. CASE page.bridge # NoSocket
    <3>1. page.bridge \in Sockets /\ CloseFrame \in 0..MaxPackets /\ captured' \in 0..MaxPackets
      BY <2>1, <2>3 DEF PageInv, Pages, CloseFrame, CarryInv
    <3>2. wire' = [wire EXCEPT ![page.bridge] = Append(@, CloseFrame)]
      BY <1>4, <2>3 DEF StopCapture, Closed
    <3> QED
      BY <1>2, <2>1, <3>1, <3>2
  <2> QED
    BY <2>1, <2>2, <2>3
<1>5. CASE Capture
  <2>1. UNCHANGED <<receiver, slots, producer, consumer, hostLoop, block>>
    BY <1>5 DEF Capture, serverVars, tabRingVars, loopVars
  <2>2. captured' = captured + 1 /\ captured' \in 0..MaxPackets
    BY <1>5 DEF Capture, CarryInv
  <2>3. CASE wire' = wire
    BY <2>1, <2>2, <2>3 DEF CarryInv
  <2>4. CASE page.bridge # NoSocket /\ wire' = [wire EXCEPT ![page.bridge] = Append(@, captured')]
    <3>1. page.bridge \in Sockets
      BY <2>4 DEF PageInv, Pages
    <3> QED
      BY <1>2, <2>1, <2>2, <2>4, <3>1
  <2> QED
    BY <1>5, <2>1, <2>3, <2>4 DEF Capture
<1> QED
  BY <1>3, <1>4, <1>5 DEF Page

-------------------------------------------------------------------------------
(* The receiver and the host *)

\* A receiver that goes elsewhere, and touches no ring.
LEMMA ReceiverMoves ==
  ASSUME CarryInv, SlotInv, UNCHANGED <<captured, wire, slots, producer, consumer, hostLoop>>,
         receiver' \in [at : {"begin", "check", "accept", "register", "handshake", "serve", "ended",
                              "leave", "done"},
                        socket : {NoSocket} \cup Sockets, packet : Contents],
         receiver'.at \in {"register", "handshake", "serve"} => receiver'.socket \in Sockets
  PROVE  CarryInv' /\ SlotInv'
<1>1. /\ receiver'.at \notin {"push", "fill", "ready", "publish"}
      /\ receiver' \in [at : {"begin", "check", "accept", "register", "handshake", "serve", "push",
                              "fill", "ready", "publish", "ended", "leave", "done"},
                        socket : {NoSocket} \cup Sockets, packet : Contents]
  OBVIOUS
<1> QED
  BY <1>1 DEF CarryInv, SlotInv

LEMMA ReceiverKeeps ==
  ASSUME CarryInv, SlotInv, Receiver
  PROVE  CarryInv' /\ SlotInv' /\ UNCHANGED <<page, ready, hostLoop, block>>
<1> USE TabConstants DEF ReceiverAt, Goto
<1>1. CASE Begin \/ CheckStop \/ Accept \/ Register \/ Handshake \/ Ended \/ Leave
  <2>1. UNCHANGED <<page, ready, captured, wire, slots, producer, consumer, hostLoop, block>>
    BY <1>1 DEF Begin, CheckStop, Accept, Register, Handshake, Ended, Leave, pageVars, linkVars,
                tabRingVars, loopVars
  <2>2. /\ receiver' \in [at : {"begin", "check", "accept", "register", "handshake", "serve", "ended",
                                "leave", "done"},
                          socket : {NoSocket} \cup Sockets, packet : Contents]
        /\ receiver'.at \in {"register", "handshake", "serve"} => receiver'.socket \in Sockets
    BY <1>1 DEF Begin, CheckStop, Accept, Register, Handshake, Ended, Leave, CarryInv
  <2> QED
    BY <2>1, <2>2, ReceiverMoves
<1>2. CASE Serve
  <2> DEFINE s == receiver.socket
  <2>1. UNCHANGED <<page, ready, captured, slots, producer, consumer, hostLoop, block>>
        /\ s \in Sockets /\ wire[s] \in Seq(0..MaxPackets)
    BY <1>2 DEF Serve, pageVars, tabRingVars, loopVars, CarryInv
  <2>2. CASE peer[s] = "cut" /\ Goto("ended") /\ UNCHANGED wire
    BY <2>1, <2>2, ReceiverMoves DEF CarryInv
  <2>3. CASE /\ wire[s] # <<>> /\ wire' = [wire EXCEPT ![s] = Tail(@)]
             /\ receiver' = IF Head(wire[s]) = CloseFrame THEN [receiver EXCEPT !.at = "ended"]
                            ELSE [receiver EXCEPT !.at = "push", !.packet = Head(wire[s])]
    <3>1. Head(wire[s]) \in 0..MaxPackets /\ Tail(wire[s]) \in Seq(0..MaxPackets)
      BY <2>1, <2>3, HeadTailProperties
    <3>2. wire' \in [Sockets -> Seq(0..MaxPackets)]
      BY <2>3, <3>1 DEF CarryInv
    <3>3. receiver' = IF Head(wire[s]) = CloseFrame
                      THEN [at |-> "ended", socket |-> s, packet |-> receiver.packet]
                      ELSE [at |-> "push", socket |-> s, packet |-> Head(wire[s])]
      <4>1. CASE Head(wire[s]) = CloseFrame
        BY <2>3, <4>1 DEF CarryInv
      <4>2. CASE Head(wire[s]) # CloseFrame
        <5>1. receiver' = [receiver EXCEPT !.at = "push", !.packet = Head(wire[s])]
          BY <2>3, <4>2
        <5>2. receiver' = [at |-> "push", socket |-> s, packet |-> Head(wire[s])]
          BY <5>1 DEF CarryInv
        <5> QED
          BY <4>2, <5>2
      <4> QED
        BY <4>1, <4>2
    <3>4. Head(wire[s]) # CloseFrame => Head(wire[s]) \in TabPackets
      BY <3>1 DEF CloseFrame, TabPackets
    <3>5. CarryInv'
      BY <2>1, <3>2, <3>3, <3>4 DEF CarryInv, Contents
    <3>6. SlotInv'
      BY <2>1, <3>3 DEF SlotInv
    <3> QED
      BY <2>1, <3>5, <3>6
  <2> QED
    BY <1>2, <2>1, <2>2, <2>3 DEF Serve
<1>3. CASE PushChecks
  <2>1. UNCHANGED <<page, ready, captured, wire, slots, producer, consumer, hostLoop, block>>
    BY <1>3 DEF PushChecks, pageVars, linkVars, tabRingVars, loopVars
  <2>2. /\ receiver.at = "push" /\ receiver' = [receiver EXCEPT !.at = receiver'.at]
        /\ receiver'.at \in {"serve", "fill"}
        /\ receiver'.at = "fill" => ~Foreign(receiver.packet) /\ producer - consumer < SlotCount
    BY <1>3 DEF PushChecks, CarryInv, SlotInv
  <2>3. CarryInv'
    BY <2>1, <2>2 DEF CarryInv
  <2>4. SlotInv'
    BY <2>1, <2>2 DEF SlotInv, CarryInv
  <2> QED
    BY <2>1, <2>3, <2>4
<1>4. CASE PushFills
  <2>1. UNCHANGED <<page, ready, captured, wire, producer, consumer, hostLoop, block>>
        /\ receiver.at = "fill" /\ receiver' = [receiver EXCEPT !.at = "ready"]
        /\ slots' = [slots EXCEPT ![TabSlot(producer)].packet = receiver.packet]
    BY <1>4 DEF PushFills, pageVars, linkVars, tabRingVars, loopVars
  <2>2. CarryInv'
    BY <2>1 DEF CarryInv
  <2>3. TabSlot(producer) \in 0..SlotCount - 1
    BY DEF TabSlot, SlotInv
  <2>4. SlotInv'
    <3>1. /\ slots' \in [0..SlotCount - 1 -> [sequence : Nat, packet : Contents]]
          /\ slots'[TabSlot(producer)].packet = receiver.packet
      BY <2>1, <2>3 DEF SlotInv, CarryInv
    <3> QED
      BY <2>1, <3>1 DEF SlotInv, CarryInv, TabSlot
  <2> QED
    BY <2>1, <2>2, <2>4
<1>5. CASE PushMarks
  <2>1. UNCHANGED <<page, ready, captured, wire, producer, consumer, hostLoop, block>>
        /\ receiver.at = "ready" /\ receiver' = [receiver EXCEPT !.at = "publish"]
        /\ slots' = [slots EXCEPT ![TabSlot(producer)].sequence = producer + 1]
    BY <1>5 DEF PushMarks, pageVars, linkVars, tabRingVars, loopVars
  <2>2. CarryInv'
    BY <2>1 DEF CarryInv
  <2>3. TabSlot(producer) \in 0..SlotCount - 1
    BY DEF TabSlot, SlotInv
  <2>4. SlotInv'
    <3>1. /\ slots' \in [0..SlotCount - 1 -> [sequence : Nat, packet : Contents]]
          /\ slots'[TabSlot(producer)].packet = slots[TabSlot(producer)].packet
      <4>1. producer + 1 \in Nat /\ slots \in [0..SlotCount - 1 -> [sequence : Nat, packet : Contents]]
        BY DEF SlotInv
      <4>2. slots' = [slots EXCEPT ![TabSlot(producer)] =
                        [sequence |-> producer + 1, packet |-> slots[TabSlot(producer)].packet]]
        <5>1. slots[TabSlot(producer)] \in [sequence : Nat, packet : Contents]
          BY <2>3, <4>1
        <5>2. [slots[TabSlot(producer)] EXCEPT !.sequence = producer + 1]
                = [sequence |-> producer + 1, packet |-> slots[TabSlot(producer)].packet]
          BY <5>1
        <5> QED
          BY <2>1, <5>2
      <4>3. slots[TabSlot(producer)].packet \in Contents
        BY <2>3, <4>1
      <4> QED
        BY <2>3, <4>1, <4>2, <4>3
    <3> QED
      BY <2>1, <3>1 DEF SlotInv, CarryInv, TabSlot
  <2> QED
    BY <2>1, <2>2, <2>4
<1>6. CASE PushPublishes
  <2>1. UNCHANGED <<page, ready, captured, wire, slots, consumer, hostLoop, block>>
        /\ receiver.at = "publish" /\ receiver' = [receiver EXCEPT !.at = "serve"]
        /\ producer' = producer + 1
    BY <1>6 DEF PushPublishes, pageVars, linkVars, loopVars
  <2>2. CarryInv'
    BY <2>1 DEF CarryInv
  <2>3. SlotInv'
    BY <2>1 DEF SlotInv, CarryInv
  <2> QED
    BY <2>1, <2>2, <2>3
<1> QED
  BY <1>1, <1>2, <1>3, <1>4, <1>5, <1>6 DEF Receiver

LEMMA HostKeeps ==
  ASSUME CarryInv, SlotInv, HostTurn \/ StopRequest \/ HostStop
  PROVE  CarryInv' /\ SlotInv' /\ UNCHANGED <<page, ready>>
<1>1. UNCHANGED <<page, ready, captured, wire, receiver, slots, producer>>
  BY DEF HostTurn, PopCopies, PopPublishes, StopRequest, HostStop, CloseListener, CloseClient, Join,
         tabRingVars, pageVars, linkVars, serverVars
<1>2. CarryInv'
  BY <1>1 DEF CarryInv
<1>3. \/ consumer' = consumer /\ (hostLoop' = "popped" => consumer # producer)
      \/ consumer' = consumer + 1 /\ hostLoop = "popped" /\ hostLoop' = "turn"
  BY DEF HostTurn, PopCopies, PopPublishes, StopRequest, HostStop, CloseListener, CloseClient, Join,
         tabRingVars
<1>4. SlotInv'
  <2>1. CASE consumer' = consumer /\ (hostLoop' = "popped" => consumer # producer)
    BY <1>1, <2>1 DEF SlotInv, TabSlot
  <2>2. CASE consumer' = consumer + 1 /\ hostLoop = "popped" /\ hostLoop' = "turn"
    <3>1. consumer' \in Nat /\ producer - consumer' \in 0..SlotCount
          /\ producer - consumer' < producer - consumer /\ producer - consumer \in Int
      BY <2>2, TabConstants DEF SlotInv
    <3> QED
      BY <1>1, <2>2, <3>1, TabConstants DEF SlotInv, TabSlot
  <2> QED
    BY <1>3, <2>1, <2>2
<1> QED
  BY <1>1, <1>2, <1>4

LEMMA TabNextKeeps == TabIInv /\ [TabNext]_tabVars => TabIInv'
<1> SUFFICES ASSUME TabIInv, [TabNext]_tabVars PROVE TabIInv'
  OBVIOUS
<1> USE DEF TabIInv
<1>1. ASSUME UNCHANGED <<page, ready>> PROVE PageInv'
  BY <1>1 DEF PageInv, OneLiveSocket
<1>2. CASE Page
  <2>1. SlotInv'
    BY <1>2, PageSends DEF SlotInv
  <2> QED
    BY <1>2, <2>1, PageKeeps, PageSends
<1>3. CASE Receiver
  BY <1>1, <1>3, ReceiverKeeps
<1>4. CASE HostTurn \/ StopRequest \/ HostStop
  BY <1>1, <1>4, HostKeeps
<1>5. CASE UNCHANGED tabVars
  BY <1>5 DEF tabVars, pageVars, linkVars, serverVars, tabRingVars, loopVars, PageInv, OneLiveSocket,
              CarryInv, SlotInv
<1> QED
  BY <1>2, <1>3, <1>4, <1>5 DEF TabNext

-------------------------------------------------------------------------------
(* The ring implements a channel that loses nothing *)

TabShape ==
  /\ InOrder \in Seq(Contents) /\ Len(InOrder) = producer - consumer
  /\ \A i \in 1..producer - consumer : InOrder[i] = slots[TabSlot(consumer + i - 1)].packet

LEMMA TabSequence == SlotInv => TabShape
<1> SUFFICES ASSUME SlotInv PROVE TabShape
  OBVIOUS
<1> DEFINE u == producer - consumer
<1>1. u \in Nat
  BY TabConstants DEF SlotInv
<1>2. ASSUME NEW i \in 1..u PROVE slots[TabSlot(consumer + i - 1)].packet \in Contents
  <2>1. consumer + i - 1 \in Nat
    BY DEF SlotInv
  <2>2. TabSlot(consumer + i - 1) \in 0..SlotCount - 1
    BY <2>1, TabConstants DEF TabSlot
  <2> QED
    BY <2>2 DEF SlotInv
<1>3. InOrder = [i \in 1..u |-> slots[TabSlot(consumer + i - 1)].packet]
  BY DEF InOrder
<1> HIDE DEF u
<1> QED
  BY <1>1, <1>2, <1>3 DEF u, TabShape

\* The slot of the producer is none of the waiting ones.
LEMMA ProducerSlotApart ==
  ASSUME SlotInv, producer - consumer < SlotCount, NEW i \in 1..producer - consumer
  PROVE  TabSlot(consumer + i - 1) # TabSlot(producer)
<1> DEFINE a == consumer + i - 1
<1>1. a \in Nat /\ producer \in Nat /\ a < producer /\ producer - a < SlotCount
  BY TabConstants DEF SlotInv
<1> HIDE DEF a
<1>2. a % SlotCount # producer % SlotCount
  BY <1>1, TabConstants, ModApart
<1> QED
  BY <1>2 DEF a, TabSlot

LEMMA ReceiverImplements ==
  ASSUME CarryInv, SlotInv, SlotInv', Receiver
  PROVE  UNCHANGED <<Waiting, block>> \/ \E p \in {p \in TabPackets : ~Foreign(p)} : TabFifo!Send(p)
<1> USE TabConstants DEF ReceiverAt, Goto
<1>1. UNCHANGED <<hostLoop, block, consumer>>
  BY ReceiverKeeps DEF Receiver, Begin, CheckStop, Accept, Register, Handshake, Ended, Leave, Serve,
         PushChecks, PushFills, PushMarks, PushPublishes, tabRingVars, loopVars
<1>2. ASSUME UNCHANGED <<slots, producer>> PROVE UNCHANGED <<Waiting, block>>
  BY <1>1, <1>2 DEF Waiting, InOrder, TabSlot
<1>3. CASE Begin \/ CheckStop \/ Accept \/ Register \/ Handshake \/ Ended \/ Leave \/ Serve \/ PushChecks
  BY <1>2, <1>3 DEF Begin, CheckStop, Accept, Register, Handshake, Ended, Leave, Serve, PushChecks,
                    tabRingVars
<1>4. CASE PushFills \/ PushMarks
  <2>1. producer' = producer /\ producer - consumer < SlotCount
    BY <1>4 DEF PushFills, PushMarks, SlotInv
  <2>2. \A j \in 0..SlotCount - 1 : j # TabSlot(producer) => slots'[j] = slots[j]
    BY <1>4 DEF PushFills, PushMarks, SlotInv
  <2>3. ASSUME NEW i \in 1..producer - consumer
        PROVE  slots'[TabSlot(consumer + i - 1)] = slots[TabSlot(consumer + i - 1)]
    <3>1. consumer + i - 1 \in Nat
      BY DEF SlotInv
    <3>2. TabSlot(consumer + i - 1) \in 0..SlotCount - 1
      BY <3>1 DEF TabSlot
    <3> QED
      BY <2>1, <2>2, <3>2, ProducerSlotApart
  <2>4. InOrder' = InOrder
    BY <1>1, <2>1, <2>3 DEF InOrder
  <2> QED
    BY <1>1, <2>4 DEF Waiting
<1>5. CASE PushPublishes
  <2> DEFINE u == producer - consumer
             p == receiver.packet
  <2>1. /\ producer' = producer + 1 /\ slots' = slots /\ u < SlotCount /\ p \in TabPackets /\ ~Foreign(p)
        /\ slots[TabSlot(producer)].packet = p /\ u \in Nat
        /\ producer \in Nat /\ consumer \in Nat
    BY <1>5 DEF PushPublishes, SlotInv, CarryInv
  <2>2. /\ InOrder \in Seq(Contents) /\ Len(InOrder) = u
        /\ \A i \in 1..u : InOrder[i] = slots[TabSlot(consumer + i - 1)].packet
    BY TabSequence DEF TabShape
  <2>3. /\ InOrder' \in Seq(Contents) /\ Len(InOrder') = u + 1
        /\ \A i \in 1..u + 1 : InOrder'[i] = slots[TabSlot(consumer + i - 1)].packet
    <3>1. TabShape'
      BY TabSequence, PTL
    <3>2. producer' - consumer' = u + 1
      BY <1>1, <2>1
    <3>3. /\ InOrder' \in Seq(Contents) /\ Len(InOrder') = producer' - consumer'
          /\ \A i \in 1..producer' - consumer' : InOrder'[i] = slots'[TabSlot(consumer' + i - 1)].packet
      BY <3>1 DEF TabShape, TabSlot
    <3> QED
      BY <1>1, <2>1, <3>2, <3>3
  <2>4. InOrder'[u + 1] = p
    <3>1. consumer + (u + 1) - 1 = producer /\ u + 1 \in 1..u + 1
      BY <2>1
    <3> QED
      BY <2>1, <2>3, <3>1
  <2> HIDE DEF u, p
  <2>5. InOrder' = Append(InOrder, p)
    <3>1. p \in Contents
      BY <2>1 DEF Contents
    <3>2. ASSUME NEW i \in 1..Len(InOrder) PROVE InOrder'[i] = InOrder[i]
      <4>1. i \in 1..u /\ i \in 1..u + 1
        BY <2>1, <2>2
      <4> QED
        BY <2>2, <2>3, <4>1
    <3> QED
      BY <2>2, <2>3, <2>4, <3>1, <3>2, AppendIs
  <2>6. Waiting' = Append(Waiting, p) /\ Len(Waiting) < SlotCount
    <3>1. CASE hostLoop = "popped"
      <4>1. InOrder # <<>>
        BY <2>1, <2>2, <3>1 DEF SlotInv, u
      <4>2. Len(Tail(InOrder)) < SlotCount
        BY <2>1, <2>2, <4>1, HeadTailProperties
      <4>3. Tail(Append(InOrder, p)) = Append(Tail(InOrder), p)
        BY <2>2, <4>1, HeadTailAppend
      <4> QED
        BY <1>1, <2>5, <3>1, <4>2, <4>3 DEF Waiting
    <3>2. CASE hostLoop # "popped"
      BY <1>1, <2>1, <2>2, <2>5, <3>2 DEF Waiting
    <3> QED
      BY <3>1, <3>2
  <2>7. TabFifo!Send(p)
    BY <1>1, <2>6 DEF TabFifo!Send
  <2> QED
    BY <2>1, <2>7
<1> QED
  BY <1>3, <1>4, <1>5 DEF Receiver

LEMMA HostImplements ==
  ASSUME CarryInv, SlotInv, SlotInv', HostTurn \/ StopRequest \/ HostStop
  PROVE  UNCHANGED <<Waiting, block>> \/ TabFifo!Receive
<1> USE TabConstants
<1>1. UNCHANGED <<slots, producer>>
  BY DEF HostTurn, PopCopies, PopPublishes, StopRequest, HostStop, CloseListener, CloseClient, Join,
         tabRingVars
<1>2. CASE StopRequest \/ HostStop
  <2>1. UNCHANGED <<consumer, block>> /\ hostLoop # "popped" /\ hostLoop' # "popped"
    BY <1>2 DEF StopRequest, HostStop, CloseListener, CloseClient, Join, tabRingVars
  <2> QED
    BY <1>1, <2>1 DEF Waiting, InOrder, TabSlot
<1>3. CASE PopCopies
  <2>1. /\ hostLoop = "turn" /\ hostLoop' = "popped" /\ consumer' = consumer /\ consumer # producer
        /\ block' = slots[TabSlot(consumer)].packet
    BY <1>3 DEF PopCopies, tabRingVars
  <2>2. InOrder' = InOrder
    BY <1>1, <2>1 DEF InOrder, TabSlot
  <2>3. /\ InOrder \in Seq(Contents) /\ Len(InOrder) > 0
        /\ InOrder[1] = slots[TabSlot(consumer + 1 - 1)].packet /\ consumer + 1 - 1 = consumer
    BY <2>1, TabSequence DEF TabShape, SlotInv
  <2>4. InOrder # <<>> /\ Head(InOrder) = block'
    BY <2>1, <2>3
  <2> QED
    BY <2>1, <2>2, <2>4 DEF TabFifo!Receive, Waiting
<1>4. CASE PopPublishes
  <2> DEFINE u == producer - consumer
  <2>1. /\ hostLoop = "popped" /\ hostLoop' = "turn" /\ consumer' = consumer + 1 /\ block' = block
        /\ u \in Nat \ {0} /\ consumer \in Nat /\ producer \in Nat
    BY <1>4 DEF PopPublishes, SlotInv
  <2>2. /\ InOrder \in Seq(Contents) /\ Len(InOrder) = u
        /\ \A i \in 1..u : InOrder[i] = slots[TabSlot(consumer + i - 1)].packet
    BY TabSequence DEF TabShape
  <2>3. /\ InOrder' \in Seq(Contents) /\ Len(InOrder') = u - 1
        /\ \A i \in 1..u - 1 : InOrder'[i] = slots[TabSlot(consumer + 1 + i - 1)].packet
    <3>1. TabShape'
      BY TabSequence, PTL
    <3>2. producer' - consumer' = u - 1
      BY <1>1, <2>1
    <3>3. /\ InOrder' \in Seq(Contents) /\ Len(InOrder') = producer' - consumer'
          /\ \A i \in 1..producer' - consumer' : InOrder'[i] = slots'[TabSlot(consumer' + i - 1)].packet
      BY <3>1 DEF TabShape, TabSlot
    <3> QED
      BY <1>1, <2>1, <3>2, <3>3
  <2> HIDE DEF u
  <2>4. \A i \in 1..Len(InOrder') : InOrder'[i] = InOrder[i + 1]
    <3>1. ASSUME NEW i \in 1..u - 1 PROVE InOrder'[i] = InOrder[i + 1]
      <4>1. i + 1 \in 1..u /\ consumer + 1 + i - 1 = consumer + (i + 1) - 1
        BY <2>1
      <4> QED
        BY <2>2, <2>3, <4>1
    <3> QED
      BY <2>3, <3>1
  <2>5. Len(InOrder) = Len(InOrder') + 1
    BY <2>1, <2>2, <2>3
  <2>6. InOrder' = Tail(InOrder)
    BY <2>2, <2>3, <2>4, <2>5, TailIs
  <2> QED
    BY <2>1, <2>6 DEF Waiting
<1> QED
  BY <1>2, <1>3, <1>4 DEF HostTurn

\* No event of an old socket disowns the bridge, for any number of sockets, captures
\* and retries (offscreen.js, SPEC-0009:69-71).
THEOREM OneBridge == TabSpec => []OneLiveSocket
<1>1. TabIInv => OneLiveSocket
  BY DEF TabIInv, PageInv
<1> QED
  BY <1>1, TabInitIInv, TabNextKeeps, PTL DEF TabSpec

LEMMA TabInitImplements == TabInit => TabFifo!Init
<1> SUFFICES ASSUME TabInit PROVE TabFifo!Init
  OBVIOUS
<1>1. TabShape /\ producer - consumer = 0
  BY TabInitIInv, TabSequence DEF TabInit, TabIInv
<1>2. InOrder = <<>>
  BY <1>1 DEF TabShape
<1> QED
  BY <1>2 DEF TabInit, TabFifo!Init, Waiting

LEMMA TabImplements ==
  TabIInv /\ TabIInv' /\ [TabNext]_tabVars => [TabFifo!LosslessNext]_<<Waiting, block>>
<1> SUFFICES ASSUME TabIInv, TabIInv', [TabNext]_tabVars
             PROVE  \/ UNCHANGED <<Waiting, block>> \/ TabFifo!Receive
                    \/ \E p \in {p \in TabPackets : ~Foreign(p)} : TabFifo!Send(p)
  BY DEF TabFifo!LosslessNext
<1>1. CASE Page
  <2>1. UNCHANGED <<slots, producer, consumer, hostLoop, block>>
    BY <1>1, PageSends DEF TabIInv
  <2> QED
    BY <2>1 DEF Waiting, InOrder, TabSlot
<1>2. CASE Receiver
  BY <1>2, ReceiverImplements DEF TabIInv
<1>3. CASE HostTurn \/ StopRequest \/ HostStop
  BY <1>3, HostImplements DEF TabIInv
<1>4. CASE UNCHANGED tabVars
  BY <1>4 DEF tabVars, tabRingVars, loopVars, Waiting, InOrder, TabSlot
<1> QED
  BY <1>1, <1>2, <1>3, <1>4 DEF TabNext

\* The ring of the tab bridge hands over the packets of the sink's rate it accepted, each
\* once and in order, for any number of slots (tab_bridge.cpp:109-163).
THEOREM TabRingIsFifo == TabSpec => RingIsFifo
BY TabInitImplements, TabImplements, TabInitIInv, TabNextKeeps, PTL
   DEF TabSpec, RingIsFifo, TabFifo!LosslessSpec

-------------------------------------------------------------------------------
(* The driver's packet ring and its loopback.  RingIInv holds for two       *)
(* processes that push and pop as they like; LoopIInv is what the loopback, *)
(* which drives both ends, adds to it.                                      *)

Frames == ChannelCounts \cup {NoFrame}
Sequences32 == 0..SequenceLimit - 1

\* A push holds a free slot, the one of the producer's sequence number, and a
\* pop the first of the published ones.
RingIInv ==
  /\ head \in Sequences32 /\ tail \in Sequences32 /\ SlotsUsed <= RingSlots
  /\ cells \in [0..RingSlots - 1 -> [ready : Sequences32, packet : Frames]]
  /\ pusher \in [at : {"idle", "fill", "ready", "publish"}, packet : Frames]
  /\ popper \in [at : {"idle", "clear", "publish"}, packet : Frames]
  /\ popped \in Frames
  /\ pusher.at # "idle" => pusher.packet \in ChannelCounts /\ SlotsUsed < RingSlots
  /\ pusher.at \in {"ready", "publish"} => cells[RingSlot(head)].packet = pusher.packet
  /\ popper.at # "idle" => SlotsUsed > 0

Rounds == [at : {"idle", "push", "pop", "deliver"},
           result : {"none", "encode failed", "push failed", "rendered", "deliver failed"}]

\* Each round of the loopback pushes one packet and takes it back.
LoopIInv ==
  /\ loopback \in Rounds
  /\ SlotsUsed = IF loopback.at = "pop" THEN 1 ELSE 0
  /\ pusher.at = "idle" <=> loopback.at # "push"
  /\ loopback.at # "pop" => popper.at = "idle"
  /\ laneEngine.out \in ChannelCounts

\* A number at most one turn outside the range wraps once.
LEMMA WrapOnce ==
  ASSUME NEW m \in Nat \ {0}, NEW a \in Int, 0 - m <= a, a < 2 * m
  PROVE  a % m = IF a < 0 THEN a + m ELSE IF a < m THEN a ELSE a - m
<1>1. CASE a < 0
  <2>1. a = (m * (0 - 1)) + (a + m) /\ a + m \in 0..m - 1
    BY <1>1
  <2> QED
    BY <1>1, <2>1, ModUnique
<1>2. CASE a >= 0 /\ a < m
  <2>1. a = (m * 0) + a /\ a \in 0..m - 1
    BY <1>2
  <2> QED
    BY <1>2, <2>1, ModUnique
<1>3. CASE a >= m
  <2>1. a = (m * 1) + (a - m) /\ a - m \in 0..m - 1
    BY <1>3
  <2> QED
    BY <1>3, <2>1, ModUnique
<1> QED
  BY <1>1, <1>2, <1>3

LEMMA LimitType == SequenceLimit \in Nat \ {0} /\ RingSlots \in Nat \ {0}
BY DriverRingAssumption

LEMMA AfterValue ==
  ASSUME NEW n \in Sequences32
  PROVE  /\ After(n) \in Sequences32
         /\ After(n) = IF n + 1 < SequenceLimit THEN n + 1 ELSE 0
<1> DEFINE a == n + 1
<1>1. a \in Int /\ 0 - SequenceLimit <= a /\ a < 2 * SequenceLimit /\ a <= SequenceLimit /\ a > 0
  BY LimitType DEF Sequences32
<1> HIDE DEF a
<1>2. a % SequenceLimit =
        IF a < 0 THEN a + SequenceLimit
        ELSE IF a < SequenceLimit THEN a ELSE a - SequenceLimit
  BY <1>1, LimitType, WrapOnce
<1> QED
  BY <1>1, <1>2, LimitType DEF a, After, Sequences32

\* How many numbers from c on p is.
Span(p, c) == (p - c) % SequenceLimit

LEMMA SpanValue ==
  ASSUME NEW p \in Sequences32, NEW c \in Sequences32
  PROVE  /\ Span(p, c) \in Sequences32
         /\ Span(p, c) = IF p < c THEN p - c + SequenceLimit ELSE p - c
<1> DEFINE a == p - c
<1>1. a \in Int /\ 0 - SequenceLimit <= a /\ a < 2 * SequenceLimit /\ a < SequenceLimit
      /\ 0 - SequenceLimit < a
  BY LimitType DEF Sequences32
<1> HIDE DEF a
<1>2. a % SequenceLimit =
        IF a < 0 THEN a + SequenceLimit
        ELSE IF a < SequenceLimit THEN a ELSE a - SequenceLimit
  BY <1>1, LimitType, WrapOnce
<1> QED
  BY <1>1, <1>2, LimitType DEF a, Span, Sequences32

LEMMA SpanMoves ==
  ASSUME NEW p \in Sequences32, NEW c \in Sequences32
  PROVE  /\ Span(p, c) < RingSlots => Span(After(p), c) = Span(p, c) + 1
         /\ Span(p, c) > 0 => Span(p, After(c)) = Span(p, c) - 1
<1>1. /\ After(p) \in Sequences32 /\ After(c) \in Sequences32
      /\ After(p) = IF p + 1 < SequenceLimit THEN p + 1 ELSE 0
      /\ After(c) = IF c + 1 < SequenceLimit THEN c + 1 ELSE 0
  BY AfterValue
<1>2. /\ Span(p, c) = IF p < c THEN p - c + SequenceLimit ELSE p - c
      /\ Span(After(p), c) = IF After(p) < c THEN After(p) - c + SequenceLimit ELSE After(p) - c
      /\ Span(p, After(c)) = IF p < After(c) THEN p - After(c) + SequenceLimit ELSE p - After(c)
  BY <1>1, SpanValue
<1> HIDE DEF Span, After
<1> QED
  BY <1>1, <1>2, LimitType, DriverRingAssumption DEF Sequences32

\* Slots follow each other also where the sequence numbers wrap.
LEMMA SlotAcross ==
  ASSUME NEW a \in Nat
  PROVE  /\ a >= SequenceLimit => RingSlot(a - SequenceLimit) = RingSlot(a)
         /\ RingSlot(a) \in 0..RingSlots - 1
BY ModShift, DivMod, DriverRingAssumption DEF RingSlot

\* The slot of the producer's sequence number comes after the published ones.
LEMMA HeadSlot ==
  ASSUME head \in Sequences32, tail \in Sequences32
  PROVE  RingSlot(head) = RingSlot(tail + SlotsUsed)
<1>1. SlotsUsed = IF head < tail THEN head - tail + SequenceLimit ELSE head - tail
  BY SpanValue DEF SlotsUsed, Span
<1>2. head = tail + SlotsUsed \/ (head = tail + SlotsUsed - SequenceLimit /\ tail + SlotsUsed >= SequenceLimit)
  BY <1>1, LimitType DEF Sequences32
<1>3. tail + SlotsUsed \in Nat
  BY <1>1, LimitType DEF Sequences32
<1> DEFINE a == tail + SlotsUsed
<1>4. head = a \/ (head = a - SequenceLimit /\ a >= SequenceLimit)
  BY <1>1, <1>2, <1>3, LimitType DEF Sequences32
<1>5. a \in Nat
  BY <1>3
<1> HIDE DEF a
<1>6. a >= SequenceLimit => RingSlot(a - SequenceLimit) = RingSlot(a)
  BY <1>5, SlotAcross
<1>7. RingSlot(head) = RingSlot(a)
  BY <1>4, <1>6
<1> QED
  BY <1>7 DEF a

\* It is none of them while one is free.
LEMMA HeadApart ==
  ASSUME head \in Sequences32, tail \in Sequences32, SlotsUsed < RingSlots,
         NEW i \in 0..SlotsUsed - 1
  PROVE  RingSlot(tail + i) # RingSlot(head)
<1>1. SlotsUsed \in Nat /\ tail \in Nat
  BY SpanValue, LimitType DEF SlotsUsed, Span, Sequences32
<1> DEFINE a == tail + i
           b == tail + SlotsUsed
<1>2. a \in Nat /\ b \in Nat /\ a < b /\ b - a < RingSlots
  BY <1>1, LimitType
<1> HIDE DEF a, b
<1>3. a % RingSlots # b % RingSlots
  BY <1>2, LimitType, ModApart
<1>4. RingSlot(head) = RingSlot(b)
  BY HeadSlot DEF b
<1> QED
  BY <1>3, <1>4 DEF a, RingSlot

\* Two published packets are in two slots.
LEMMA TailApart ==
  ASSUME tail \in Sequences32, NEW i \in 1..RingSlots - 1
  PROVE  RingSlot(tail + i) # RingSlot(tail)
<1> DEFINE b == tail + i
<1>1. tail \in Nat /\ b \in Nat /\ tail < b /\ b - tail < RingSlots
  BY LimitType DEF Sequences32
<1> HIDE DEF b
<1>2. tail % RingSlots # b % RingSlots
  BY <1>1, LimitType, ModApart
<1> QED
  BY <1>2 DEF b, RingSlot

\* Seen from the next packet, the slots are the same.
LEMMA SlotNext ==
  ASSUME tail \in Sequences32, NEW i \in Nat
  PROVE  RingSlot(After(tail) + i) = RingSlot(tail + (i + 1))
<1>1. After(tail) = IF tail + 1 < SequenceLimit THEN tail + 1 ELSE 0
  BY AfterValue
<1>2. CASE tail + 1 < SequenceLimit
  <2>1. After(tail) + i = tail + (i + 1)
    BY <1>1, <1>2, LimitType DEF Sequences32
  <2> QED
    BY <2>1
<1>3. CASE tail + 1 >= SequenceLimit
  <2> DEFINE a == tail + (i + 1)
  <2>1. a \in Nat /\ a >= SequenceLimit /\ After(tail) + i = a - SequenceLimit
    BY <1>1, <1>3, LimitType DEF Sequences32
  <2> HIDE DEF a
  <2>2. RingSlot(a - SequenceLimit) = RingSlot(a)
    BY <2>1, SlotAcross
  <2> QED
    BY <2>1, <2>2 DEF a
<1> QED
  BY <1>2, <1>3, LimitType DEF Sequences32

LEMMA RingConstants ==
  RingIInv => /\ head \in Nat /\ tail \in Nat /\ SlotsUsed \in 0..RingSlots
              /\ RingSlot(head) \in 0..RingSlots - 1 /\ RingSlot(tail) \in 0..RingSlots - 1
              /\ After(head) \in Sequences32 /\ After(tail) \in Sequences32
<1> SUFFICES ASSUME RingIInv
             PROVE  /\ head \in Nat /\ tail \in Nat /\ SlotsUsed \in 0..RingSlots
                    /\ RingSlot(head) \in 0..RingSlots - 1 /\ RingSlot(tail) \in 0..RingSlots - 1
                    /\ After(head) \in Sequences32 /\ After(tail) \in Sequences32
  OBVIOUS
<1>1. head \in Sequences32 /\ tail \in Sequences32 /\ SlotsUsed <= RingSlots
  BY DEF RingIInv
<1>2. head \in Nat /\ tail \in Nat /\ SlotsUsed \in 0..RingSlots
  BY <1>1, SpanValue, LimitType DEF SlotsUsed, Span, Sequences32
<1> QED
  BY <1>1, <1>2, SlotAcross, AfterValue

LEMMA RingInitIInv == DriverInit => RingIInv /\ LoopIInv
<1> SUFFICES ASSUME DriverInit PROVE RingIInv /\ LoopIInv
  OBVIOUS
<1>1. head = 0 /\ tail = 0 /\ 0 \in Sequences32
  BY LimitType DEF DriverInit, RingInit, Sequences32
<1>2. SlotsUsed = 0
  BY <1>1, SpanValue DEF SlotsUsed, Span
<1>3. NoFrame \in Frames
  BY DEF Frames
<1>4. /\ pusher = [at |-> "idle", packet |-> NoFrame] /\ popper = pusher /\ popped = NoFrame
      /\ cells \in [0..RingSlots - 1 -> [ready : Sequences32, packet : Frames]]
  BY <1>1, <1>3 DEF DriverInit, RingInit
<1>5. loopback \in Rounds /\ loopback.at = "idle" /\ laneEngine.out \in ChannelCounts
  BY DEF DriverInit, Rounds
<1> QED
  BY <1>1, <1>2, <1>3, <1>4, <1>5, LimitType DEF RingIInv, LoopIInv

\* What the steps of a push leave.
LEMMA PushKeeps ==
  /\ \A p \in ChannelCounts :
        RingIInv /\ CheckRoom(p) => RingIInv' /\ SlotsUsed' = SlotsUsed /\ pusher'.at = "fill"
  /\ RingIInv /\ (FillCell \/ MarkCell) =>
        RingIInv' /\ SlotsUsed' = SlotsUsed /\ pusher'.at # "idle"
  /\ RingIInv /\ PublishPacket => RingIInv' /\ SlotsUsed' = SlotsUsed + 1 /\ pusher'.at = "idle"
<1>1. ASSUME RingIInv, NEW p \in ChannelCounts, CheckRoom(p)
      PROVE  RingIInv' /\ SlotsUsed' = SlotsUsed /\ pusher'.at = "fill"
  <2>1. SlotsUsed' = SlotsUsed /\ SlotsUsed \in 0..RingSlots /\ ~(SlotsUsed >= RingSlots)
    BY <1>1, RingConstants DEF CheckRoom, SlotsUsed, Full
  <2>2. SlotsUsed < RingSlots
    BY <2>1, LimitType
  <2> QED
    BY <1>1, <2>1, <2>2 DEF RingIInv, CheckRoom, Frames
<1>2. ASSUME RingIInv, FillCell
      PROVE  RingIInv' /\ SlotsUsed' = SlotsUsed /\ pusher'.at # "idle"
  <2>1. SlotsUsed' = SlotsUsed /\ RingSlot(head) \in 0..RingSlots - 1
    BY <1>2, RingConstants DEF FillCell, SlotsUsed
  <2>2. [cells[RingSlot(head)] EXCEPT !.packet = pusher.packet]
          = [ready |-> cells[RingSlot(head)].ready, packet |-> pusher.packet]
    BY <1>2, <2>1 DEF RingIInv
  <2> QED
    BY <1>2, <2>1, <2>2 DEF RingIInv, FillCell, Frames
<1>3. ASSUME RingIInv, MarkCell
      PROVE  RingIInv' /\ SlotsUsed' = SlotsUsed /\ pusher'.at # "idle"
  <2>1. /\ SlotsUsed' = SlotsUsed /\ RingSlot(head) \in 0..RingSlots - 1
        /\ After(head) \in Sequences32
    BY <1>3, RingConstants DEF MarkCell, SlotsUsed
  <2>2. [cells[RingSlot(head)] EXCEPT !.ready = After(head)]
          = [ready |-> After(head), packet |-> cells[RingSlot(head)].packet]
    BY <1>3, <2>1 DEF RingIInv
  <2> QED
    BY <1>3, <2>1, <2>2 DEF RingIInv, MarkCell, Frames
<1>4. ASSUME RingIInv, PublishPacket
      PROVE  RingIInv' /\ SlotsUsed' = SlotsUsed + 1 /\ pusher'.at = "idle"
  <2>1. /\ head' = After(head) /\ UNCHANGED <<cells, tail, popper, popped>>
        /\ pusher' = [at |-> "idle", packet |-> NoFrame]
        /\ SlotsUsed < RingSlots /\ SlotsUsed \in 0..RingSlots /\ After(head) \in Sequences32
    BY <1>4, RingConstants DEF PublishPacket, RingIInv
  <2>2. SlotsUsed' = SlotsUsed + 1
    BY <1>4, <2>1, SpanMoves DEF RingIInv, SlotsUsed, Span
  <2> QED
    BY <1>4, <2>1, <2>2, LimitType DEF RingIInv, Frames
<1> QED
  BY <1>1, <1>2, <1>3, <1>4

\* What the steps of a pop leave.
LEMMA PopKeeps ==
  /\ RingIInv /\ (Take \/ Clear) => RingIInv' /\ SlotsUsed' = SlotsUsed /\ popper'.at # "idle"
  /\ RingIInv /\ Consume => RingIInv' /\ SlotsUsed' = SlotsUsed - 1 /\ popper'.at = "idle"
<1>1. ASSUME RingIInv, Take
      PROVE  RingIInv' /\ SlotsUsed' = SlotsUsed /\ popper'.at # "idle"
  <2>1. /\ SlotsUsed' = SlotsUsed /\ SlotsUsed \in 0..RingSlots
        /\ RingSlot(tail) \in 0..RingSlots - 1
    BY <1>1, RingConstants DEF Take, SlotsUsed
  <2>2. SlotsUsed > 0
    <3>1. head # tail /\ head \in Sequences32 /\ tail \in Sequences32
      BY <1>1 DEF Take, RingIInv
    <3>2. SlotsUsed = IF head < tail THEN head - tail + SequenceLimit ELSE head - tail
      BY <3>1, SpanValue DEF SlotsUsed, Span
    <3> QED
      BY <3>1, <3>2, LimitType DEF Sequences32
  <2> QED
    BY <1>1, <2>1, <2>2 DEF RingIInv, Take, Frames
<1>2. ASSUME RingIInv, Clear
      PROVE  RingIInv' /\ SlotsUsed' = SlotsUsed /\ popper'.at # "idle"
  <2>1. /\ SlotsUsed' = SlotsUsed /\ SlotsUsed \in 0..RingSlots /\ SlotsUsed > 0
        /\ RingSlot(tail) \in 0..RingSlots - 1 /\ RingSlot(head) \in 0..RingSlots - 1
    BY <1>2, RingConstants DEF Clear, RingIInv, SlotsUsed
  <2>2. [cells[RingSlot(tail)] EXCEPT !.packet = NoFrame]
          = [ready |-> cells[RingSlot(tail)].ready, packet |-> NoFrame]
    BY <1>2, <2>1 DEF RingIInv
  <2>3. SlotsUsed < RingSlots => RingSlot(tail) # RingSlot(head)
    <3>1. 0 \in 0..SlotsUsed - 1 /\ tail + 0 = tail
      BY <1>2, <2>1, RingConstants
    <3> QED
      BY <1>2, <3>1, HeadApart DEF RingIInv
  <2>4. cells' \in [0..RingSlots - 1 -> [ready : Sequences32, packet : Frames]]
    BY <1>2, <2>1, <2>2 DEF RingIInv, Clear, Frames
  <2>5. popper' \in [at : {"idle", "clear", "publish"}, packet : Frames] /\ popper'.at = "publish"
    BY <1>2 DEF RingIInv, Clear
  <2>6. pusher.at \in {"ready", "publish"} => cells'[RingSlot(head)].packet = pusher.packet
    BY <1>2, <2>1, <2>3 DEF RingIInv, Clear
  <2> QED
    BY <1>2, <2>1, <2>4, <2>5, <2>6 DEF RingIInv, Clear
<1>3. ASSUME RingIInv, Consume
      PROVE  RingIInv' /\ SlotsUsed' = SlotsUsed - 1 /\ popper'.at = "idle"
  <2>1. /\ tail' = After(tail) /\ UNCHANGED <<cells, head, pusher>> /\ popped' = popper.packet
        /\ popper' = [at |-> "idle", packet |-> NoFrame]
        /\ SlotsUsed > 0 /\ SlotsUsed \in 0..RingSlots /\ After(tail) \in Sequences32
    BY <1>3, RingConstants DEF Consume, RingIInv
  <2>2. SlotsUsed' = SlotsUsed - 1
    BY <1>3, <2>1, SpanMoves DEF RingIInv, SlotsUsed, Span
  <2> QED
    BY <1>3, <2>1, <2>2, LimitType DEF RingIInv, Frames
<1> QED
  BY <1>1, <1>2, <1>3

-------------------------------------------------------------------------------
PublishedShape ==
  /\ Published \in Seq(Frames) /\ Len(Published) = SlotsUsed
  /\ \A i \in 1..SlotsUsed :
        Published[i] = IF i = 1 /\ popper.at # "idle" THEN popper.packet
                       ELSE cells[RingSlot(tail + (i - 1))].packet

LEMMA PublishedIs == RingIInv => PublishedShape
<1> SUFFICES ASSUME RingIInv PROVE PublishedShape
  OBVIOUS
<1>1. SlotsUsed \in 0..RingSlots /\ tail \in Nat
  BY RingConstants
<1>2. ASSUME NEW i \in 1..SlotsUsed
      PROVE  /\ tail + i - 1 = tail + (i - 1)
             /\ cells[RingSlot(tail + (i - 1))].packet \in Frames
  <2>1. tail + i - 1 = tail + (i - 1) /\ tail + (i - 1) \in Nat
    BY <1>1
  <2> QED
    BY <2>1, SlotAcross DEF RingIInv
<1>3. Published = [i \in 1..SlotsUsed |->
                     IF i = 1 /\ popper.at # "idle" THEN popper.packet
                     ELSE cells[RingSlot(tail + (i - 1))].packet]
  BY <1>2 DEF Published
<1>4. popper.packet \in Frames
  BY DEF RingIInv
<1> HIDE DEF SlotsUsed
<1>5. ASSUME NEW i \in 1..SlotsUsed PROVE Published[i] \in Frames
  BY <1>2, <1>3, <1>4
<1>6. Published = [i \in 1..SlotsUsed |-> Published[i]]
  BY <1>3
<1>7. Published \in Seq(Frames) /\ Len(Published) = SlotsUsed
  <2>1. SlotsUsed \in Nat
    BY <1>1
  <2> QED
    BY <1>5, <1>6, <2>1
<1> QED
  BY <1>3, <1>7 DEF PublishedShape

\* A step that writes no published slot and moves nothing leaves the channel.
LEMMA PublishedSame ==
  ASSUME RingIInv, UNCHANGED <<head, tail>>,
         \A i \in 1..SlotsUsed :
           (IF i = 1 /\ popper'.at # "idle" THEN popper'.packet
            ELSE cells'[RingSlot(tail + i - 1)].packet)
           = (IF i = 1 /\ popper.at # "idle" THEN popper.packet
              ELSE cells[RingSlot(tail + i - 1)].packet)
  PROVE  Published' = Published
<1>1. SlotsUsed' = SlotsUsed
  BY DEF SlotsUsed
<1> HIDE DEF SlotsUsed
<1> QED
  BY <1>1 DEF Published

LEMMA RingImplements ==
  ASSUME RingIInv, RingIInv', (\E p \in ChannelCounts : CheckRoom(p)) \/ PushStep \/ PopStep
  PROVE  [RingPackets!LosslessNext]_<<Published, popped>>
<1>1. SlotsUsed \in 0..RingSlots /\ tail \in Nat
  BY RingConstants
<1>2. CASE \E p \in ChannelCounts : CheckRoom(p)
  <2>1. Published' = Published
    BY <1>2, PublishedSame DEF CheckRoom
  <2> QED
    BY <1>2, <2>1 DEF CheckRoom
<1>3. CASE FillCell \/ MarkCell
  <2>1. /\ UNCHANGED <<head, tail, popper, popped>> /\ SlotsUsed < RingSlots
        /\ head \in Sequences32 /\ tail \in Sequences32
    BY <1>3 DEF FillCell, MarkCell, RingIInv
  <2>2. ASSUME NEW k \in 0..RingSlots - 1, k # RingSlot(head) PROVE cells'[k] = cells[k]
    BY <1>3, <2>2 DEF FillCell, MarkCell, RingIInv
  <2>3. ASSUME NEW i \in 1..SlotsUsed
        PROVE  cells'[RingSlot(tail + i - 1)] = cells[RingSlot(tail + i - 1)]
    <3>1. /\ tail + i - 1 = tail + (i - 1) /\ i - 1 \in 0..SlotsUsed - 1
          /\ tail + (i - 1) \in Nat
      BY <1>1
    <3> QED
      BY <2>1, <2>2, <3>1, HeadApart, SlotAcross
  <2>4. Published' = Published
    BY <2>1, <2>3, PublishedSame
  <2> QED
    BY <2>1, <2>4
<1>4. CASE PublishPacket
  <2>1. /\ UNCHANGED <<cells, tail, popper, popped>> /\ SlotsUsed' = SlotsUsed + 1
        /\ pusher.packet \in ChannelCounts /\ SlotsUsed < RingSlots
        /\ cells[RingSlot(tail + SlotsUsed)].packet = pusher.packet
        /\ popper.at # "idle" => SlotsUsed > 0
    BY <1>4, PushKeeps, HeadSlot DEF PublishPacket, RingIInv
  <2>2. PublishedShape /\ PublishedShape'
    <3>1. PublishedShape'
      BY PublishedIs, PTL
    <3> QED
      BY <3>1, PublishedIs
  <2>3. ASSUME NEW i \in 1..SlotsUsed PROVE Published'[i] = Published[i]
    <3>1. i \in 1..SlotsUsed'
      BY <1>1, <2>1
    <3>2. Published'[i] = IF i = 1 /\ popper'.at # "idle" THEN popper'.packet
                          ELSE cells'[RingSlot(tail' + (i - 1))].packet
      BY <2>2, <3>1 DEF PublishedShape
    <3>3. Published[i] = IF i = 1 /\ popper.at # "idle" THEN popper.packet
                         ELSE cells[RingSlot(tail + (i - 1))].packet
      BY <2>2 DEF PublishedShape
    <3> QED
      BY <2>1, <3>2, <3>3
  <2>4. Published'[SlotsUsed + 1] = pusher.packet
    <3>1. SlotsUsed + 1 \in 1..SlotsUsed' /\ (SlotsUsed + 1) - 1 = SlotsUsed
          /\ (SlotsUsed + 1 = 1 <=> SlotsUsed = 0)
      BY <1>1, <2>1
    <3> QED
      BY <1>1, <2>1, <2>2, <3>1 DEF PublishedShape
  <2>5. Published' = Append(Published, pusher.packet)
    <3>1. pusher.packet \in Frames
      BY <2>1 DEF Frames
    <3> QED
      BY <2>1, <2>2, <2>3, <2>4, <3>1, AppendIs DEF PublishedShape
  <2>6. Len(Published) < RingSlots
    BY <2>1, <2>2 DEF PublishedShape
  <2> QED
    BY <2>1, <2>5, <2>6 DEF RingPackets!LosslessNext, RingPackets!Send
<1>5. CASE Take
  <2>1. /\ UNCHANGED <<cells, head, tail, popped>> /\ popper.at = "idle"
        /\ popper' = [at |-> "clear", packet |-> cells[RingSlot(tail)].packet]
    BY <1>5 DEF Take
  <2>2. ASSUME NEW i \in 1..SlotsUsed
        PROVE  (IF i = 1 /\ popper'.at # "idle" THEN popper'.packet
                ELSE cells'[RingSlot(tail + i - 1)].packet)
               = (IF i = 1 /\ popper.at # "idle" THEN popper.packet
                  ELSE cells[RingSlot(tail + i - 1)].packet)
    <3>1. i = 1 => tail + i - 1 = tail
      BY <1>1
    <3> QED
      BY <2>1, <3>1
  <2>3. Published' = Published
    BY <2>1, <2>2, PublishedSame
  <2> QED
    BY <2>1, <2>3
<1>6. CASE Clear
  <2>1. /\ UNCHANGED <<head, tail, popped>> /\ popper.at # "idle"
        /\ popper'.at # "idle" /\ popper'.packet = popper.packet
    BY <1>6 DEF Clear, RingIInv
  <2>2. ASSUME NEW k \in 0..RingSlots - 1, k # RingSlot(tail) PROVE cells'[k] = cells[k]
    BY <1>6, <2>2 DEF Clear, RingIInv
  <2>3. ASSUME NEW i \in 1..SlotsUsed, i # 1
        PROVE  cells'[RingSlot(tail + i - 1)] = cells[RingSlot(tail + i - 1)]
    <3>1. /\ tail + i - 1 = tail + (i - 1) /\ i - 1 \in 1..RingSlots - 1
          /\ tail + (i - 1) \in Nat
      BY <1>1, <2>3, LimitType
    <3> QED
      BY <2>2, <3>1, TailApart, SlotAcross DEF RingIInv
  <2>4. Published' = Published
    BY <2>1, <2>3, PublishedSame
  <2> QED
    BY <2>1, <2>4
<1>7. CASE Consume
  <2>1. /\ UNCHANGED <<cells, head>> /\ tail' = After(tail) /\ popped' = popper.packet
        /\ SlotsUsed' = SlotsUsed - 1 /\ popper.at # "idle" /\ popper'.at = "idle"
        /\ SlotsUsed > 0 /\ tail \in Sequences32
    BY <1>7, PopKeeps DEF Consume, RingIInv
  <2>2. PublishedShape /\ PublishedShape'
    <3>1. PublishedShape'
      BY PublishedIs, PTL
    <3> QED
      BY <3>1, PublishedIs
  <2>3. ASSUME NEW i \in 1..SlotsUsed' PROVE Published'[i] = Published[i + 1]
    <3>1. /\ i + 1 \in 1..SlotsUsed /\ i + 1 # 1 /\ i - 1 \in Nat
          /\ (i + 1) - 1 = i /\ (i - 1) + 1 = i
      BY <1>1, <2>1
    <3>2. RingSlot(After(tail) + (i - 1)) = RingSlot(tail + ((i - 1) + 1))
      BY <2>1, <3>1, SlotNext
    <3>3. Published'[i] = cells'[RingSlot(tail' + (i - 1))].packet
      BY <2>1, <2>2 DEF PublishedShape
    <3>4. Published[i + 1] = cells[RingSlot(tail + ((i + 1) - 1))].packet
      BY <2>2, <3>1 DEF PublishedShape
    <3> QED
      BY <2>1, <3>1, <3>2, <3>3, <3>4
  <2>4. Published # <<>> /\ Head(Published) = Published[1] /\ Published' = Tail(Published)
    <3>1. /\ Published \in Seq(Frames) /\ Published' \in Seq(Frames)
          /\ Len(Published) = SlotsUsed /\ Len(Published') = SlotsUsed'
          /\ SlotsUsed = SlotsUsed' + 1
      BY <1>1, <2>1, <2>2 DEF PublishedShape
    <3> HIDE DEF SlotsUsed
    <3> QED
      BY <2>3, <3>1, TailIs
  <2>5. Published[1] = popper.packet
    BY <1>1, <2>1, <2>2 DEF PublishedShape
  <2> QED
    BY <2>1, <2>4, <2>5 DEF RingPackets!LosslessNext, RingPackets!Receive
<1> QED
  BY <1>2, <1>3, <1>4, <1>5, <1>6, <1>7 DEF PushStep, PopStep

LEMMA RingKeeps ==
  ASSUME RingIInv, (\E p \in ChannelCounts : CheckRoom(p)) \/ PushStep \/ PopStep
  PROVE  RingIInv'
BY PushKeeps, PopKeeps DEF PushStep, PopStep

LEMMA RingSame == RingIInv /\ UNCHANGED ringVars => RingIInv' /\ UNCHANGED <<Published, popped, SlotsUsed>>
BY DEF RingIInv, ringVars, SlotsUsed, Published

\* A step of the loopback is a step of the ring, or leaves it.
LEMMA LoopbackUsesRing ==
  LoopIInv /\ LoopbackNext =>
    \/ (\E p \in ChannelCounts : CheckRoom(p)) \/ PushStep \/ PopStep
    \/ UNCHANGED ringVars
BY DEF LoopIInv, LoopbackNext, EncodeBlock, PushBlock, PopBlock, DeliverBlock, ApplyScene

LEMMA EncodeEnds ==
  EncodeBlock =>
    \/ /\ UNCHANGED ringVars /\ loopback'.at = "idle"
       /\ loopback' = [at |-> "idle", result |-> "encode failed"]
          \/ loopback' = [at |-> "idle", result |-> "push failed"]
    \/ CheckRoom(laneEngine.out) /\ loopback' = [loopback EXCEPT !.at = "push"]
<1>1. ASSUME NEW r, Ends(r) PROVE loopback' = [at |-> "idle", result |-> r] /\ loopback'.at = "idle"
  BY <1>1 DEF Ends
<1> QED
  BY <1>1, Zenon DEF EncodeBlock

LEMMA LoopbackKeeps ==
  ASSUME RingIInv, LoopIInv, LoopbackNext
  PROVE  LoopIInv'
<1>0. loopback' \in Rounds
  <2>0. loopback \in Rounds
    BY DEF LoopIInv
  <2>1. CASE EncodeBlock
    <3>1. \/ loopback' = [loopback EXCEPT !.at = "push"]
          \/ loopback' = [at |-> "idle", result |-> "encode failed"]
          \/ loopback' = [at |-> "idle", result |-> "push failed"]
      BY <2>1, EncodeEnds
    <3>2. CASE loopback' = [loopback EXCEPT !.at = "push"]
      BY <2>0, <3>2 DEF Rounds
    <3>3. CASE loopback' = [at |-> "idle", result |-> "encode failed"]
      BY <3>3 DEF Rounds
    <3>4. CASE loopback' = [at |-> "idle", result |-> "push failed"]
      BY <3>4 DEF Rounds
    <3> QED
      BY <3>1, <3>2, <3>3, <3>4
  <2>2. CASE PushBlock
    BY <2>0, <2>2 DEF PushBlock, Rounds
  <2>3. CASE PopBlock
    BY <2>0, <2>3 DEF PopBlock, Rounds
  <2>4. CASE DeliverBlock
    BY <2>0, <2>4 DEF DeliverBlock, Rounds, Ends
  <2>5. CASE ApplyScene
    BY <2>0, <2>5 DEF ApplyScene, Rounds
  <2> QED
    BY <2>1, <2>2, <2>3, <2>4, <2>5 DEF LoopbackNext
<1> USE <1>0 DEF LoopIInv
<1>1. CASE EncodeBlock
  <2>1. CASE UNCHANGED ringVars /\ loopback'.at = "idle"
    <3>1. UNCHANGED <<SlotsUsed, pusher, popper, laneEngine>> /\ loopback.at = "idle"
      BY <1>1, <2>1, RingSame DEF EncodeBlock, ringVars
    <3> QED
      BY <2>1, <3>1
  <2>2. CASE CheckRoom(laneEngine.out) /\ loopback' = [loopback EXCEPT !.at = "push"]
    <3>1. SlotsUsed' = SlotsUsed /\ pusher'.at = "fill" /\ UNCHANGED popper
      BY <2>2, PushKeeps DEF CheckRoom
    <3>2. loopback'.at = "push" /\ loopback.at = "idle" /\ UNCHANGED laneEngine
      BY <1>1, <2>2 DEF EncodeBlock, Rounds
    <3> QED
      BY <3>1, <3>2
  <2>3. \/ UNCHANGED ringVars /\ loopback'.at = "idle"
        \/ CheckRoom(laneEngine.out) /\ loopback' = [loopback EXCEPT !.at = "push"]
    BY <1>1, EncodeEnds
  <2> QED
    BY <2>1, <2>2, <2>3
<1>2. CASE PushBlock
  <2>1. /\ loopback.at = "push" /\ UNCHANGED <<laneEngine, popper>>
        /\ loopback'.at = IF pusher'.at = "idle" THEN "pop" ELSE "push"
    BY <1>2 DEF PushBlock, PushStep, FillCell, MarkCell, PublishPacket, Rounds
  <2>2. CASE FillCell \/ MarkCell
    BY <2>1, <2>2, PushKeeps
  <2>3. CASE PublishPacket
    BY <2>1, <2>3, PushKeeps
  <2> QED
    BY <1>2, <2>2, <2>3 DEF PushBlock, PushStep
<1>3. CASE PopBlock
  <2>1. /\ loopback.at = "pop" /\ UNCHANGED <<laneEngine, pusher>>
        /\ loopback'.at = IF popper'.at = "idle" THEN "deliver" ELSE "pop"
    BY <1>3 DEF PopBlock, PopStep, Take, Clear, Consume, Rounds
  <2>2. CASE Take \/ Clear
    BY <2>1, <2>2, PopKeeps
  <2>3. CASE Consume
    BY <2>1, <2>3, PopKeeps
  <2> QED
    BY <1>3, <2>2, <2>3 DEF PopBlock, PopStep
<1>4. CASE DeliverBlock
  BY <1>4, RingSame DEF DeliverBlock, Ends, ringVars
<1>5. CASE ApplyScene
  BY <1>5, RingSame DEF ApplyScene, ringVars
<1> QED
  BY <1>1, <1>2, <1>3, <1>4, <1>5 DEF LoopbackNext

-------------------------------------------------------------------------------
LEMMA RingInitImplements == DriverInit => RingPackets!Init
<1> SUFFICES ASSUME DriverInit PROVE RingPackets!Init
  OBVIOUS
<1>1. RingIInv /\ LoopIInv
  BY RingInitIInv
<1>2. SlotsUsed = 0 /\ PublishedShape
  BY <1>1, PublishedIs DEF LoopIInv, DriverInit
<1>3. Published = <<>>
  BY <1>2 DEF PublishedShape
<1> QED
  BY <1>1, <1>3 DEF DriverInit, RingInit, RingPackets!Init

LEMMA LoopSame == LoopIInv /\ UNCHANGED driverVars => LoopIInv'
BY DEF LoopIInv, driverVars, ringVars, SlotsUsed

\* Two processes that push and pop: first in first out, and nothing lost.
THEOREM DriverRingIsFifo == RingSpec => PacketsInOrder
<1>1. RingIInv /\ [RingNext]_driverVars => RingIInv'
  BY RingKeeps, RingSame DEF RingNext, driverVars
<1>2. RingIInv /\ RingIInv' /\ [RingNext]_driverVars
        => [RingPackets!LosslessNext]_<<Published, popped>>
  BY RingImplements, RingSame DEF RingNext, driverVars
<1> QED
  BY <1>1, <1>2, RingInitIInv, RingInitImplements, PTL
     DEF RingSpec, PacketsInOrder, RingPackets!LosslessSpec

\* The loopback's use of the ring: in order, and nothing lost, whatever Scenes are
\* applied between its rounds.
THEOREM LoopbackRingIsFifo == LoopbackSpec => PacketsInOrder
<1>1. RingIInv /\ LoopIInv /\ [LoopbackNext]_driverVars => RingIInv' /\ LoopIInv'
  BY LoopbackUsesRing, LoopbackKeeps, RingKeeps, RingSame, LoopSame DEF driverVars
<1>2. RingIInv /\ RingIInv' /\ LoopIInv /\ [LoopbackNext]_driverVars
        => [RingPackets!LosslessNext]_<<Published, popped>>
  BY LoopbackUsesRing, RingImplements, RingSame DEF driverVars
<1> QED
  BY <1>1, <1>2, RingInitIInv, RingInitImplements, PTL
     DEF LoopbackSpec, PacketsInOrder, RingPackets!LosslessSpec

\* Every round of the loopback, however it ends, leaves the ring empty
\* (render_driver_loopback, engine_preview.cpp:357-430).
THEOREM LoopbackEmptiesRing == LoopbackSpec => []LoopbackKeepsRingEmpty
<1>1. RingIInv /\ LoopIInv /\ [LoopbackNext]_driverVars => RingIInv' /\ LoopIInv'
  BY LoopbackUsesRing, LoopbackKeeps, RingKeeps, RingSame, LoopSame DEF driverVars
<1>2. LoopIInv => LoopbackKeepsRingEmpty
  BY DEF LoopIInv, LoopbackKeepsRingEmpty
<1> QED
  BY <1>1, <1>2, RingInitIInv, PTL DEF LoopbackSpec

-------------------------------------------------------------------------------
(* The behaviours that TLC explores, which are about one ring each *)

PartIInv ==
  /\ part \in {"asio", "tab", "ring", "loopback", "fanout"}
  /\ TabIInv /\ RingIInv
  /\ part = "loopback" => LoopIInv
  /\ part # "loopback" => loopback.result = "none"

LEMMA PartInit ==
  StreamsInit => PartIInv /\ RingPackets!Init /\ TabFifo!Init
BY TabInitIInv, TabInitImplements, RingInitIInv, RingInitImplements
   DEF StreamsInit, PartIInv, DriverInit

LEMMA PartKeeps ==
  PartIInv /\ [StreamsNext]_<<part, asioVars, tabVars, driverVars, runtimeVars>>
    => /\ PartIInv' /\ [TabNext]_tabVars
       /\ \/ (\E p \in ChannelCounts : CheckRoom(p)) \/ PushStep \/ PopStep
          \/ UNCHANGED ringVars
<1> SUFFICES ASSUME PartIInv, [StreamsNext]_<<part, asioVars, tabVars, driverVars, runtimeVars>>
             PROVE  /\ PartIInv' /\ [TabNext]_tabVars
                    /\ \/ (\E p \in ChannelCounts : CheckRoom(p)) \/ PushStep \/ PopStep
                       \/ UNCHANGED ringVars
  OBVIOUS
<1>1. CASE UNCHANGED <<part, tabVars, driverVars>>
  <2>1. TabIInv' /\ RingIInv' /\ (LoopIInv => LoopIInv') /\ UNCHANGED <<loopback, part>>
    BY <1>1, TabNextKeeps, RingSame, LoopSame DEF PartIInv, driverVars
  <2> QED
    BY <1>1, <2>1 DEF PartIInv, driverVars
<1>2. CASE part = "tab" /\ TabNext /\ UNCHANGED <<part, driverVars>>
  <2>1. TabIInv' /\ RingIInv' /\ UNCHANGED <<loopback, part, ringVars>>
    BY <1>2, TabNextKeeps, RingSame DEF PartIInv, driverVars
  <2> QED
    BY <1>2, <2>1 DEF PartIInv
<1>3. CASE part = "ring" /\ RingNext /\ UNCHANGED <<part, tabVars>>
  <2>1. TabIInv' /\ RingIInv' /\ UNCHANGED <<loopback, part>>
    BY <1>3, TabNextKeeps, RingKeeps DEF PartIInv, RingNext
  <2> QED
    BY <1>3, <2>1 DEF PartIInv, RingNext
<1>4. CASE part = "loopback" /\ LoopbackNext /\ UNCHANGED <<part, tabVars>>
  <2>1. TabIInv' /\ RingIInv' /\ LoopIInv' /\ UNCHANGED part
    BY <1>4, TabNextKeeps, RingKeeps, RingSame, LoopbackKeeps, LoopbackUsesRing DEF PartIInv
  <2> QED
    BY <1>4, <2>1, LoopbackUsesRing DEF PartIInv
<1> QED
  <2>1. \/ UNCHANGED <<part, tabVars, driverVars>>
        \/ part = "tab" /\ TabNext /\ UNCHANGED <<part, driverVars>>
        \/ part = "ring" /\ RingNext /\ UNCHANGED <<part, tabVars>>
        \/ part = "loopback" /\ LoopbackNext /\ UNCHANGED <<part, tabVars>>
    BY DEF StreamsNext
  <2> QED
    BY <1>1, <1>2, <1>3, <1>4, <2>1

\* The rings of the tab bridge and of the driver are FIFOs that lose nothing they
\* accepted, and the loopback leaves its ring empty (tab_bridge.cpp:109-163,
\* driver_stream_ring_v1.c:105-181, engine_preview.cpp:357-430).
THEOREM InputsAreFifos == StreamsSpec => PacketRingsAreFifos
<1>1. PartIInv /\ PartIInv' /\ [TabNext]_tabVars
        => [TabFifo!LosslessNext]_<<Waiting, block>>
  BY TabImplements DEF PartIInv
<1>2. ASSUME PartIInv, PartIInv',
             \/ (\E p \in ChannelCounts : CheckRoom(p)) \/ PushStep \/ PopStep
             \/ UNCHANGED ringVars
      PROVE  [RingPackets!LosslessNext]_<<Published, popped>>
  BY <1>2, RingImplements, RingSame DEF PartIInv
<1>3. PartIInv => LoopbackKeepsRingEmpty
  BY DEF PartIInv, LoopIInv, LoopbackKeepsRingEmpty
<1> QED
  BY <1>1, <1>2, <1>3, PartInit, PartKeeps, PTL
     DEF StreamsSpec, PacketRingsAreFifos, RingIsFifo, PacketsInOrder, TabFifo!LosslessSpec,
         RingPackets!LosslessSpec

\* No event of an old socket disowns the bridge, in these behaviours too.
THEOREM InputsHaveOneBridge == StreamsSpec => []OneLiveSocket
<1>1. PartIInv => OneLiveSocket
  BY DEF PartIInv, TabIInv, PageInv
<1> QED
  BY <1>1, PartInit, PartKeeps, PTL DEF StreamsSpec
===============================================================================
