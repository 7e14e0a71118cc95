------------------------------ MODULE DriverVolume ------------------------------
(***************************************************************************)
(* The volume of an endpoint of the virtual driver.  Its property handlers *)
(* (hibiki_property_adapter.cpp) change the state of the endpoint          *)
(* (wavert_endpoint_state.c) and number every change; the state travels to *)
(* the hub in packets, where DriverVolumeLinkV1 (driver_control_bridge.cpp)*)
(* applies those that are not older than what the output group has.  Who   *)
(* carries the packets is not in the repository: they may be lost,         *)
(* duplicated and reordered.  The driver may be restarted.                 *)
(***************************************************************************)
EXTENDS Integers, FiniteSets

CONSTANTS
    DriverLevels,   \* dB values a client may ask for, some of them not valid
    LevelRange,     \* the valid ones: -144 dB to 12 dB
    FirstLevel,     \* what a fresh endpoint has (-60 dB)
    MaxGenerations, \* bound: changes of the driver
    MaxRestarts     \* bound

ASSUME DriverVolumeAssumption ==
    FirstLevel \in LevelRange /\ {MaxGenerations, MaxRestarts} \subseteq Nat

VARIABLES
    endpointState, \* [requested, mute, generation, epoch]; epoch counts the restarts
    packets,       \* endpoint states under way
    groupVolume,   \* the volume of the output group, as one of those states
    handed         \* history: the states the hub was handed, also those it refused

driverVolumeVars == <<endpointState, packets, groupVolume, handed>>

\* hibiki_wavert_endpoint_state_init_v1
Fresh(epoch) == [requested |-> FirstLevel, mute |-> FALSE, generation |-> 1, epoch |-> epoch]

DriverVolumeInit ==
    /\ endpointState = Fresh(0)
    /\ packets = {}
    /\ groupVolume = [Fresh(0) EXCEPT !.generation = 0]
    /\ handed = {}

\* hibiki_wavert_endpoint_state_apply_volume_v1
ApplyVolume(requested, mute, generation) ==
    /\ requested \in LevelRange /\ generation >= endpointState.generation
    /\ endpointState' = [endpointState EXCEPT !.requested = requested, !.mute = mute,
                                             !.generation = generation]
    /\ UNCHANGED <<packets, groupVolume, handed>>

SetVolume(level) ==
    /\ endpointState.generation < MaxGenerations
    /\ ApplyVolume(level, endpointState.mute, endpointState.generation + 1)

\* Mutant: a change of the mute is not numbered.
SetMuteUnnumbered(mute) ==
    /\ endpointState.generation < MaxGenerations
    /\ ApplyVolume(endpointState.requested, mute, endpointState.generation)
SetMute(mute) ==
    /\ endpointState.generation < MaxGenerations
    /\ ApplyVolume(endpointState.requested, mute, endpointState.generation + 1)

RestartDriver ==
    /\ endpointState.epoch < MaxRestarts
    /\ endpointState' = Fresh(endpointState.epoch + 1)
    /\ UNCHANGED <<packets, groupVolume, handed>>

SendState ==
    /\ packets' = packets \cup {endpointState}
    /\ UNCHANGED <<endpointState, groupVolume, handed>>

LosePacket(p) ==
    /\ packets' = packets \ {p}
    /\ UNCHANGED <<endpointState, groupVolume, handed>>

\* DriverVolumeLinkV1::apply and apply_windows_notification; the packet may come again.
ApplyPacket(p) ==
    /\ groupVolume' = IF p.generation < groupVolume.generation THEN groupVolume ELSE p
    /\ handed' = handed \cup {p}
    /\ UNCHANGED <<endpointState, packets>>

DriverVolumeNext ==
    \/ \E level \in DriverLevels : SetVolume(level)
    \/ \E mute \in BOOLEAN : SetMute(mute)
    \/ RestartDriver \/ SendState
    \/ \E p \in packets : LosePacket(p) \/ ApplyPacket(p)

DriverVolumeSpec == DriverVolumeInit /\ [][DriverVolumeNext]_driverVolumeVars
-------------------------------------------------------------------------------
(* Property *)

\* The newest state the hub was handed: of the latest life of the driver, and
\* there none has a higher number.
Newest(state) ==
    \A other \in handed : \/ other.epoch < state.epoch
                          \/ other.epoch = state.epoch /\ other.generation <= state.generation

\* Its number is past those of the earlier lives.  A restarted driver counts from
\* one again and the hub refuses only smaller numbers, so before that an older
\* state stays, or comes late and takes the place of a newer one of its number.
CaughtUp(state) ==
    \A other \in handed : other.epoch < state.epoch => other.generation < state.generation

\* Whatever packets are lost, repeated or late, and whatever came of earlier lives of
\* the driver, the output group has the newest state it was handed once the driver
\* has counted past its earlier lives: in its first life always.  Numbers are not
\* shared within a life, so no equal number undoes it (volume_state.cpp:94,
\* driver_control_bridge.cpp:87-119, hibiki_property_adapter.cpp:84-158).
LatestStateWins ==
    \A state \in handed : Newest(state) /\ CaughtUp(state) => groupVolume = state
===============================================================================
