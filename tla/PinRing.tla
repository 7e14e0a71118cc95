-------------------------------- MODULE PinRing --------------------------------
(***************************************************************************)
(* The frame ring of a render pin of the driver (wavert_stream.c), as its  *)
(* adapter uses it under a spin lock (hibiki_stream_adapter.cpp): the      *)
(* WaveRT side submits frames, the engine side reads them or silence.      *)
(* Frames are numbered in the order they are accepted, modulo FrameNames.  *)
(***************************************************************************)
EXTENDS Integers, Sequences

CONSTANTS
    RingFramesOfPin,  \* capacity_frames
    FrameNames        \* frames told apart

ASSUME PinRingAssumption ==
    RingFramesOfPin \in Nat \ {0} /\ FrameNames \in Nat /\ FrameNames > 2 * RingFramesOfPin

VARIABLES
    pinRing,  \* [read, write, available]
    storage,  \* the frames of the ring
    heard,    \* the frames the last read returned, 0 for silence
    sent,     \* history: the number of the frame accepted last
    taken     \* history: the number of the frame the last read should end with

pinVars == <<pinRing, storage, heard, sent, taken>>

Named(n) == ((n - 1) % FrameNames) + 1
EmptyRing == [read |-> 0, write |-> 0, available |-> 0]

PinInit ==
    /\ pinRing = EmptyRing
    /\ storage = [i \in 0..RingFramesOfPin - 1 |-> 0]
    /\ heard = <<>>
    /\ sent = FrameNames /\ taken = FrameNames

\* HibikiWaveRtPinSubmitRenderV1, hibiki_wavert_stream_push_v1 and copy_into_ring:
\* all of the frames, or none of them.
SubmitRender(frames) ==
    /\ frames <= RingFramesOfPin - pinRing.available
    /\ storage' = [i \in DOMAIN storage |->
                      LET k == (i - pinRing.write) % RingFramesOfPin
                      IN  IF k < frames THEN Named(sent + k + 1) ELSE storage[i]]
    /\ pinRing' = [pinRing EXCEPT !.write = (@ + frames) % RingFramesOfPin,
                                  !.available = @ + frames]
    /\ sent' = Named(sent + frames)
    /\ UNCHANGED <<heard, taken>>

\* Mutant: the read pointer moves by what was asked for, not by what was copied.
ReadRenderSkips(frames) ==
    LET copied == IF pinRing.available < frames THEN pinRing.available ELSE frames
    IN  /\ heard' = [i \in 1..frames |->
                        IF i <= copied THEN storage[(pinRing.read + i - 1) % RingFramesOfPin] ELSE 0]
        /\ pinRing' = [pinRing EXCEPT !.read = (@ + frames) % RingFramesOfPin,
                                      !.available = @ - copied]
        /\ taken' = Named(taken + copied)
        /\ UNCHANGED <<storage, sent>>
\* HibikiWaveRtPinReadRenderV1 and hibiki_wavert_stream_pop_or_silence_v1.
ReadRender(frames) ==
    LET copied == IF pinRing.available < frames THEN pinRing.available ELSE frames
    IN  /\ heard' = [i \in 1..frames |->
                        IF i <= copied THEN storage[(pinRing.read + i - 1) % RingFramesOfPin] ELSE 0]
        /\ pinRing' = [pinRing EXCEPT !.read = (@ + copied) % RingFramesOfPin,
                                      !.available = @ - copied]
        /\ taken' = Named(taken + copied)
        /\ UNCHANGED <<storage, sent>>

\* HibikiWaveRtPinResetV1: what was not read is gone.
ResetPin ==
    /\ pinRing' = EmptyRing
    /\ heard' = <<>>
    /\ taken' = sent
    /\ UNCHANGED <<storage, sent>>

PinNext ==
    \/ \E frames \in 1..RingFramesOfPin + 1 : SubmitRender(frames) \/ ReadRender(frames)
    \/ ResetPin

PinSpec == PinInit /\ [][PinNext]_pinVars
-------------------------------------------------------------------------------
(* Property *)

\* A read returns the accepted frames in order, without gap or repetition, then
\* silence, and what it has not returned is what the ring still holds
\* (wavert_stream.c:44-68, 115-155).
PinDeliversInOrder ==
    /\ \E copied \in {0} \cup DOMAIN heard : \A i \in DOMAIN heard :
          heard[i] = IF i <= copied THEN Named(taken + FrameNames - copied + i) ELSE 0
    /\ Named(taken + pinRing.available) = sent
===============================================================================
