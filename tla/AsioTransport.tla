---------------------------- MODULE AsioTransport ----------------------------
(***************************************************************************)
(* The shared-memory ring between the ASIO driver, loaded into a host      *)
(* process (a DAW), and the engine.                                        *)
(*                                                                         *)
(* The engine creates or reopens the named mapping, the driver opens it    *)
(* when the host creates its buffers.  The mapping lives as long as one of *)
(* them holds it, so either may crash at any step, be restarted and go on  *)
(* with the sequence numbers it finds.  Each push and each pop is a series *)
(* of loads and stores that the other side's interleave with.              *)
(***************************************************************************)
EXTENDS Naturals, Sequences, FiniteSets

CONSTANTS
  Hosts,    \* processes that load the driver (the ring is made for one)
  Blocks,   \* contents of an audio block
  Torn,     \* the content of a slot that is being written
  Empty,    \* the content of a slot of a fresh region
  Slots,    \* HIBIKI_ASIO_TRANSPORT_SLOT_COUNT_V1
  Modulus   \* sequence numbers wrap here (2^32)

ASSUME AsioTransportAssumption ==
  /\ Slots \in Nat \ {0} /\ Modulus \in Nat /\ Slots < Modulus
  /\ Modulus % Slots = 0
  /\ Torn \notin Blocks /\ Empty \notin Blocks

VARIABLES
  region,     \* the mapping: "none", "blank" (created) or "ready" (formatted)
  pseq, cseq, \* producer_sequence, consumer_sequence
  slot,       \* the slots: ready_sequence and content
  hpc, hp,    \* each host: the step of push it is at, the producer it loaded
  epc, ec,    \* the engine: the step of bind or pop, the consumer it loaded
  staged,     \* the engine's private copy of the block it is taking
  out         \* history: the block popped last

host == <<hpc, hp>>
engine == <<epc, ec, staged, out>>
ring == <<pseq, cseq, slot>>
vars == <<region, ring, host, engine>>

Seqs == 0..Modulus - 1
At(n) == n % Slots
Succ(n) == (n + 1) % Modulus
Used(p, c) == (p + Modulus - c) % Modulus

FreshSlots == [i \in 0..Slots - 1 |-> [seq |-> 0, block |-> Empty]]

-----------------------------------------------------------------------------
(* The mapping *)

Holding(h) == hpc[h] # "detached"

\* The last handle closed takes the mapping with it.
Release(held) ==
  IF held THEN UNCHANGED <<region, ring>>
  ELSE region' = "none" /\ pseq' = 0 /\ cseq' = 0 /\ slot' = FreshSlots

\* AsioTransportConsumerV1::bind finds no mapping and makes one ...
CreateRegion ==
  /\ epc = "unbound" /\ region = "none"
  /\ region' = "blank" /\ epc' = "created"
  /\ UNCHANGED <<ring, host, ec, staged, out>>

\* ... and formats it (hibiki_asio_transport_init_v1).
FormatRegion ==
  /\ epc = "created"
  /\ region' = "ready" /\ pseq' = 0 /\ cseq' = 0 /\ slot' = FreshSlots
  /\ epc' = "idle"
  /\ UNCHANGED <<host, ec, staged, out>>

\* A mapping a host kept alive is taken over as it is, if it is formatted.
ReopenRegion ==
  /\ epc = "unbound" /\ region = "ready"
  /\ epc' = "idle"
  /\ UNCHANGED <<region, ring, host, ec, staged, out>>

\* unbind, or the engine process dies at any step.
UnbindEngine ==
  /\ epc # "unbound"
  /\ epc' = "unbound" /\ Release(\E h \in Hosts : Holding(h))
  /\ UNCHANGED <<host, ec, staged, out>>

\* refresh_transport_attachment opens the mapping ...
OpenRegion(h) ==
  /\ hpc[h] = "detached" /\ region # "none"
  /\ hpc' = [hpc EXCEPT ![h] = "opened"]
  /\ UNCHANGED <<region, ring, hp, engine>>

\* ... and keeps it if its header matches.
AttachHost(h) ==
  /\ hpc[h] = "opened" /\ region = "ready"
  /\ hpc' = [hpc EXCEPT ![h] = "idle"]
  /\ UNCHANGED <<region, ring, hp, engine>>

\* The header does not match, the host disposes of its buffers, or the host
\* process dies at any step.
DetachHost(h) ==
  /\ Holding(h)
  /\ hpc' = [hpc EXCEPT ![h] = "detached"]
  /\ Release(epc # "unbound" \/ \E g \in Hosts \ {h} : Holding(g))
  /\ UNCHANGED <<hp, engine>>

-----------------------------------------------------------------------------
(* hibiki_asio_transport_push_planar_v1, on the host's callback thread *)

\* Load both sequences; a full ring drops the block.
BeginPush(h) ==
  /\ hpc[h] = "idle" /\ Used(pseq, cseq) < Slots
  /\ hp' = [hp EXCEPT ![h] = pseq] /\ hpc' = [hpc EXCEPT ![h] = "write"]
  /\ UNCHANGED <<region, ring, engine>>

\* Copy the samples: the slot holds no whole block until the copy is done.
WriteSlot(h) ==
  /\ hpc[h] = "write"
  /\ slot' = [slot EXCEPT ![At(hp[h])].block = Torn]
  /\ hpc' = [hpc EXCEPT ![h] = "fill"]
  /\ UNCHANGED <<region, pseq, cseq, hp, engine>>

FillSlot(h, b) ==
  /\ hpc[h] = "fill"
  /\ slot' = [slot EXCEPT ![At(hp[h])].block = b]
  /\ hpc' = [hpc EXCEPT ![h] = "ready"]
  /\ UNCHANGED <<region, pseq, cseq, hp, engine>>

MarkReady(h) ==
  /\ hpc[h] = "ready"
  /\ slot' = [slot EXCEPT ![At(hp[h])].seq = Succ(hp[h])]
  /\ hpc' = [hpc EXCEPT ![h] = "publish"]
  /\ UNCHANGED <<region, pseq, cseq, hp, engine>>

Publish(h) ==
  /\ hpc[h] = "publish"
  /\ pseq' = Succ(hp[h])
  /\ hpc' = [hpc EXCEPT ![h] = "idle"]
  /\ UNCHANGED <<region, cseq, slot, hp, engine>>

-----------------------------------------------------------------------------
(* AsioTransportConsumerV1::pop, on the engine's audio lane.  Its discard of *)
(* a slot with impossible metadata never applies: every host writes the same *)
(* metadata, that of the region.                                             *)

\* Load both sequences; an empty ring returns at once.
BeginPop ==
  /\ epc = "idle" /\ cseq # pseq
  /\ ec' = cseq /\ epc' = "check"
  /\ UNCHANGED <<region, ring, host, staged, out>>

\* Mutant: the ready number is compared with the one before.
CheckStale ==
  /\ epc = "check"
  /\ epc' = IF slot[At(ec)].seq = ec THEN "copy" ELSE "idle"
  /\ UNCHANGED <<region, ring, host, ec, staged, out>>

\* The slot must carry the sequence number that is due.
CheckReady ==
  /\ epc = "check"
  /\ epc' = IF slot[At(ec)].seq = Succ(ec) THEN "copy" ELSE "idle"
  /\ UNCHANGED <<region, ring, host, ec, staged, out>>

CopySlot ==
  /\ epc = "copy"
  /\ staged' = slot[At(ec)].block /\ epc' = "advance"
  /\ UNCHANGED <<region, ring, host, ec, out>>

\* Mutant: the engine catches up with the producer, skipping the backlog.
SkipBacklog ==
  /\ epc = "advance"
  /\ cseq' = pseq /\ out' = staged /\ epc' = "idle"
  /\ UNCHANGED <<region, pseq, slot, host, ec, staged>>

\* Give the slot back; the staged block goes to the caller.
AdvanceConsumer ==
  /\ epc = "advance"
  /\ cseq' = Succ(ec) /\ out' = staged /\ epc' = "idle"
  /\ UNCHANGED <<region, pseq, slot, host, ec, staged>>

-----------------------------------------------------------------------------
Init ==
  /\ region = "none" /\ pseq = 0 /\ cseq = 0 /\ slot = FreshSlots
  /\ hpc = [h \in Hosts |-> "detached"] /\ hp = [h \in Hosts |-> 0]
  /\ epc = "unbound" /\ ec = 0 /\ staged = Empty /\ out = Empty

Mapping ==
  \/ CreateRegion \/ FormatRegion \/ ReopenRegion \/ UnbindEngine
  \/ \E h \in Hosts : OpenRegion(h) \/ AttachHost(h) \/ DetachHost(h)

Push(h) ==
  \/ BeginPush(h) \/ WriteSlot(h) \/ (\E b \in Blocks : FillSlot(h, b))
  \/ MarkReady(h) \/ Publish(h)

Pop == BeginPop \/ CheckReady \/ CopySlot \/ AdvanceConsumer

Next == Mapping \/ (\E h \in Hosts : Push(h)) \/ Pop

Spec == Init /\ [][Next]_vars

\* The engine's lane pops a block on every pass while it is bound.
FairSpec == Spec /\ WF_vars(Pop)

-----------------------------------------------------------------------------
(* Properties *)

TypeOK ==
  /\ region \in {"none", "blank", "ready"}
  /\ pseq \in Seqs /\ cseq \in Seqs
  /\ slot \in [0..Slots - 1 -> [seq : Seqs, block : Blocks \cup {Torn, Empty}]]
  /\ hpc \in [Hosts -> {"detached", "opened", "idle", "write", "fill", "ready", "publish"}]
  /\ hp \in [Hosts -> Seqs]
  /\ epc \in {"unbound", "created", "idle", "check", "copy", "advance"} /\ ec \in Seqs
  /\ staged \in Blocks \cup {Torn, Empty} /\ out \in Blocks \cup {Torn, Empty}

\* The engine never copies a slot while a host writes it, nor a slot left half
\* written by a host that died, whatever crashes and restarts came before.
NoTornRead ==
  /\ epc = "copy" => slot[At(ec)].block \in Blocks
  /\ epc = "advance" => staged \in Blocks

\* The published slots are whole and carry the sequence number the engine will
\* ask for, also after the numbers wrapped; so no published block is skipped.
PublishedIntact ==
  \A i \in 0..Slots - 1 :
    i < Used(pseq, cseq) =>
      LET n == (cseq + i) % Modulus IN
      slot[At(n)].seq = Succ(n) /\ slot[At(n)].block \in Blocks

\* The ring implements the bounded FIFO: a pop returns the oldest block pushed,
\* each block once, as long as the region lives.
Queued == [i \in 1..Used(pseq, cseq) |-> slot[At((cseq + i - 1) % Modulus)].block]
Fifo == INSTANCE BlockFifo WITH Capacity <- Slots, NoBlock <- Empty, q <- Queued
ImplementsFifo == Fifo!Spec

\* A host that stops or dies in the middle of a push never blocks the engine:
\* while it stays bound, a full ring is drained.
FullRingDrains ==
  epc # "unbound" /\ Used(pseq, cseq) = Slots
    ~> epc = "unbound" \/ Used(pseq, cseq) < Slots

=============================================================================
