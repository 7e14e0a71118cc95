------------------------------ MODULE DriverRing ------------------------------
(***************************************************************************)
(* The ring of driver stream packets (driver_stream_ring_v1.c) and the     *)
(* loopback of the engine preview that runs on it.                         *)
(*                                                                         *)
(* The ring is laid out for two processes: one pushes, one pops, each step *)
(* below is one access to the shared region.  The loopback drives both     *)
(* ends from the host loop: it lets the engine encode a block, pushes it,  *)
(* pops it and hands it to the engine again.  Only what the engine checks  *)
(* of a packet matters, its number of channels; that is the packet here.   *)
(***************************************************************************)
EXTENDS Integers, Sequences

CONSTANTS
    RingSlots,      \* SLOT_COUNT (4 in the code)
    SequenceLimit,  \* where sequence numbers wrap (2^32)
    ChannelCounts,  \* the channels a packet may have
    NoFrame,        \* what a cleared slot holds
    InputChannels   \* kDriverLoopbackInputChannels

ASSUME DriverRingAssumption ==
    /\ RingSlots \in Nat \ {0} /\ SequenceLimit \in Nat \ {0, 1}
    /\ SequenceLimit % RingSlots = 0 /\ SequenceLimit > RingSlots
    /\ NoFrame \notin ChannelCounts

VARIABLES
    cells,      \* the slots: [ready, packet]
    head, tail, \* producer_sequence, consumer_sequence
    pusher, popper, \* where a push or a pop is, and the packet it holds
    popped,     \* the packet the last pop returned
    laneEngine, \* [lane, out]: channels of lane 0 and of the output group
    sink,       \* channels of the WASAPI sink
    loopback    \* [at, result]: where a round is, how the last one ended

ringVars == <<cells, head, tail, pusher, popper, popped>>
driverVars == <<ringVars, laneEngine, sink, loopback>>

After(sequence) == (sequence + 1) % SequenceLimit
RingSlot(sequence) == sequence % RingSlots
SlotsUsed == (head - tail) % SequenceLimit

RingInit ==
    /\ cells = [i \in 0..RingSlots - 1 |-> [ready |-> 0, packet |-> NoFrame]]
    /\ head = 0 /\ tail = 0
    /\ pusher = [at |-> "idle", packet |-> NoFrame]
    /\ popper = pusher
    /\ popped = NoFrame

-------------------------------------------------------------------------------
(* hibiki_driver_stream_ring_push_v1 *)

Full == SlotsUsed >= RingSlots

CheckRoom(p) ==
    /\ pusher.at = "idle" /\ ~Full
    /\ pusher' = [at |-> "fill", packet |-> p]
    /\ UNCHANGED <<cells, head, tail, popper, popped>>

FillCell ==
    /\ pusher.at = "fill"
    /\ cells' = [cells EXCEPT ![RingSlot(head)].packet = pusher.packet]
    /\ pusher' = [pusher EXCEPT !.at = "ready"]
    /\ UNCHANGED <<head, tail, popper, popped>>

MarkCell ==
    /\ pusher.at = "ready"
    /\ cells' = [cells EXCEPT ![RingSlot(head)].ready = After(head)]
    /\ pusher' = [pusher EXCEPT !.at = "publish"]
    /\ UNCHANGED <<head, tail, popper, popped>>

PublishPacket ==
    /\ pusher.at = "publish"
    /\ head' = After(head)
    /\ pusher' = [at |-> "idle", packet |-> NoFrame]
    /\ UNCHANGED <<cells, tail, popper, popped>>

(* hibiki_driver_stream_ring_pop_v1: an invalid slot is refused and stays. *)
Take ==
    /\ popper.at = "idle" /\ tail # head
    /\ cells[RingSlot(tail)].ready = After(tail) /\ cells[RingSlot(tail)].packet # NoFrame
    /\ popper' = [at |-> "clear", packet |-> cells[RingSlot(tail)].packet]
    /\ UNCHANGED <<cells, head, tail, pusher, popped>>

Clear ==
    /\ popper.at = "clear"
    /\ cells' = [cells EXCEPT ![RingSlot(tail)].packet = NoFrame]
    /\ popper' = [popper EXCEPT !.at = "publish"]
    /\ UNCHANGED <<head, tail, pusher, popped>>

Consume ==
    /\ popper.at = "publish"
    /\ tail' = After(tail)
    /\ popped' = popper.packet
    /\ popper' = [at |-> "idle", packet |-> NoFrame]
    /\ UNCHANGED <<cells, head, pusher>>

PushStep == FillCell \/ MarkCell \/ PublishPacket
PopStep == Take \/ Clear \/ Consume

\* Two processes: the ring on its own.
RingNext ==
    /\ (\E p \in ChannelCounts : CheckRoom(p)) \/ PushStep \/ PopStep
    /\ UNCHANGED <<laneEngine, sink, loopback>>

-------------------------------------------------------------------------------
(***************************************************************************)
(* The loopback of the preview.  prepare_driver_loopback commits a Studio  *)
(* scene: a stereo lane, mixed to the channels of the sink.  A Scene the   *)
(* client applies later may have another lane and another layout.          *)
(***************************************************************************)
DriverInit ==
    /\ RingInit
    /\ sink \in ChannelCounts
    /\ laneEngine = [lane |-> InputChannels, out |-> sink]
    /\ loopback = [at |-> "idle", result |-> "none"]

Ends(result) == loopback' = [at |-> "idle", result |-> result]

\* encode_driver_stream_packet_from_lane, and the check of the push.
EncodeBlock ==
    /\ loopback.at = "idle"
    /\ \/ laneEngine.lane # InputChannels /\ Ends("encode failed") /\ UNCHANGED ringVars
       \/ laneEngine.lane = InputChannels /\ Full /\ Ends("push failed") /\ UNCHANGED ringVars
       \/ /\ laneEngine.lane = InputChannels /\ CheckRoom(laneEngine.out)
          /\ loopback' = [loopback EXCEPT !.at = "push"]
    /\ UNCHANGED <<laneEngine, sink>>

PushBlock ==
    /\ loopback.at = "push" /\ PushStep
    /\ loopback' = [loopback EXCEPT !.at = IF pusher'.at = "idle" THEN "pop" ELSE "push"]
    /\ UNCHANGED <<laneEngine, sink>>

PopBlock ==
    /\ loopback.at = "pop"
    /\ PopStep
    /\ loopback' = [loopback EXCEPT !.at = IF popper'.at = "idle" THEN "deliver" ELSE "pop"]
    /\ UNCHANGED <<laneEngine, sink>>

\* process_driver_stream_packet_to_wasapi: a packet has the channels of the
\* lane, and the sink takes only its own layout.
DeliverBlock ==
    /\ loopback.at = "deliver"
    /\ Ends(IF popped = laneEngine.lane /\ laneEngine.out = sink THEN "rendered" ELSE "deliver failed")
    /\ UNCHANGED <<ringVars, laneEngine, sink>>

\* A Scene is applied between two rounds.
ApplyScene ==
    /\ loopback.at = "idle"
    /\ laneEngine' \in [lane : ChannelCounts, out : ChannelCounts]
    /\ UNCHANGED <<ringVars, sink, loopback>>

LoopbackNext == EncodeBlock \/ PushBlock \/ PopBlock \/ DeliverBlock \/ ApplyScene

RingSpec == DriverInit /\ [][RingNext]_driverVars
LoopbackSpec == DriverInit /\ [][LoopbackNext]_driverVars
-------------------------------------------------------------------------------
(* Properties *)

\* The packets published and not yet given back, the first one as the pop holds it.
Published ==
    [i \in 1..SlotsUsed |->
        IF i = 1 /\ popper.at # "idle" THEN popper.packet
        ELSE cells[RingSlot(tail + i - 1)].packet]
RingPackets == INSTANCE BlockFifo WITH
    Blocks <- ChannelCounts, Capacity <- RingSlots, NoBlock <- NoFrame,
    q <- Published, out <- popped

\* The ring delivers whole packets, each once and in order, also where the sequence
\* numbers wrap, and drops none it has accepted (driver_stream_ring_v1.c:105-181).
PacketsInOrder == RingPackets!LosslessSpec

\* The loopback leaves the ring empty after each round, however it ended, so its
\* pushes never overrun (render_driver_loopback, engine_preview.cpp:357-430).
LoopbackKeepsRingEmpty ==
    loopback.at = "idle" /\ loopback.result # "none" => SlotsUsed = 0

\* "pop ... process_driver_stream_packet_to_wasapi 再次 validate 並送進既有 WASAPI
\* handoff" (docs/specs/SPEC-0003-virtual-endpoints-and-routing.md:124-126): in the
\* configuration prepare_driver_loopback set up, every round delivers its block.
\* TLC refutes it for a sink whose width differs from the lane's.
PreparedLoopbackDelivers ==
    [][loopback.at = "deliver" /\ laneEngine = [lane |-> InputChannels, out |-> sink]
         => loopback'.result = "rendered"]_driverVars
===============================================================================
