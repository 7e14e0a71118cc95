---------------------------- MODULE MCControlPlane ----------------------------
\* A volume command, a snapshot request, and a payload that does not decode.
EXTENDS ControlPlane

Volume == encode_volume_notification([db |-> 0, mute |-> FALSE, generation |-> 1])
Bare == Payload(0, [none |-> 0])
MCFrames ==
    [volume |-> encode_ipc_frame("VolumeNotification", 1, Volume),
     status |-> encode_ipc_frame("ControlStatusRequest", 1, Bare),
     spoilt |-> encode_ipc_frame("VolumeNotification", 1, [Volume EXCEPT !.f.generation = 0])]
===============================================================================
