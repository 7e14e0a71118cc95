----------------------------- MODULE PeripheralWire -----------------------------
(***************************************************************************)
(* The wire formats at the engine's edges: the packets of the virtual      *)
(* driver (driver_stream_transport_v1.c, driver_control_transport_v1.c and *)
(* the bridges that read them), the tab packets of the browser extension   *)
(* and the WebSocket frames that carry them (tab_bridge.cpp,               *)
(* ws_transport.cpp), and the frames of the VST3 worker pipe               *)
(* (vst3_worker_protocol.cpp, vst3_bus_layout.cpp).                        *)
(*                                                                         *)
(* A packet is its size in bytes, the fields of its header and what        *)
(* follows; samples are their number and whether all of them are finite.   *)
(* A magic number, a version or a size word is one field, true when it is  *)
(* the expected one.                                                       *)
(***************************************************************************)
EXTENDS ControlSnapshots

CONSTANTS MaxBuses,       \* bus slots of a direction (8 in the code)
          MaxBusChannels  \* channels of all buses of a direction (32 in the code)

ASSUME PeripheralAssumption == {MaxBuses, MaxBusChannels} \subseteq Nat \ {0}

StreamRates == {44100, 48000, 96000, 192000}
FrameCounts == 1..4096
Samples(n, finite) == [n |-> n, finite |-> finite]
SampleBytes(f) == 4 * f.channels * f.frames

(***************************************************************************)
(* Packets of the virtual driver.  A GUID is a NUL-terminated field.       *)
(***************************************************************************)
valid_guid(body) == NulLength(body) < TextCap

StreamHeaderValid(f) ==
    /\ f.type \in {1, 2} /\ f.sequence # 0 /\ f.generation # 0
    /\ valid_guid(f.guid) /\ f.channels \in GraphWidths /\ f.rate \in StreamRates
    /\ f.frames \in FrameCounts /\ f.flags \in 0..3

stream_packet_encode(c) ==
    IF StreamHeaderValid(c.f) /\ c.samples.finite
    THEN [size |-> 80 + SampleBytes(c.f), declared |-> 80 + SampleBytes(c.f), abi |-> TRUE,
          f |-> [c.f EXCEPT !.guid = UpToNul(@)], samples |-> c.samples]
    ELSE Refused

stream_packet_validate(p) ==
    /\ p.size >= 80 /\ p.declared = p.size /\ p.abi
    /\ StreamHeaderValid(p.f) /\ p.size = 80 + SampleBytes(p.f)

decode_driver_stream_packet(p) ==
    IF stream_packet_validate(p) /\ p.samples.finite
    THEN [f |-> p.f, samples |-> p.samples] ELSE Refused

control_header_encode(c) ==
    IF c.type \in 1..5 /\ c.request # 0
    THEN [size |-> 16, declared |-> 16, abi |-> TRUE, f |-> c] ELSE Refused
control_header_decode(p) ==
    IF p.size = 16 /\ p.declared = 16 /\ p.abi /\ p.f.type \in 1..5 /\ p.f.request # 0
    THEN p.f ELSE Refused

\* Volume notification or endpoint state, with the state it carries.
StateFieldsValid(f) ==
    /\ f.type \in {2, 3} /\ f.request # 0
    /\ valid_guid(f.endpoint) /\ valid_guid(f.context)
    /\ f.channels \in GraphWidths /\ f.rate \in StreamRates /\ f.frames \in FrameCounts
    /\ {f.requested, f.safety, f.effective} \subseteq -144 * QuantaPerDb..12 * QuantaPerDb
    /\ f.mute <= 1 /\ f.generation # 0 /\ f.actuator <= 2

endpoint_state_encode(c) ==
    IF StateFieldsValid(c)
    THEN [size |-> 136, declared |-> 136, abi |-> TRUE, f |-> c] ELSE Refused
decode_driver_endpoint_state_packet(p) ==
    IF p.size = 136 /\ p.declared = 136 /\ p.abi /\ StateFieldsValid(p.f)
    THEN p.f ELSE Refused

(***************************************************************************)
(* Tab packets.  The writer is the extension's audio worklet, which sends  *)
(* what the captured stream has.                                           *)
(***************************************************************************)
PacketizeTab(c) ==
    [size |-> 16 + SampleBytes(c.f), magic |-> TRUE, version |-> 1,
     f |-> c.f, samples |-> c.samples]

decode_tab_capture_packet(p) ==
    IF /\ p.size >= 16 /\ p.magic /\ p.version = 1
       /\ p.f.channels \in {1, 2, 6, 8} /\ p.f.rate \in StreamRates
       /\ p.f.frames \in FrameCounts /\ p.size = 16 + SampleBytes(p.f)
       /\ p.samples.finite
    THEN [f |-> p.f, samples |-> p.samples] ELSE Refused

(***************************************************************************)
(* WebSocket frames from the browser.  form is the length field's: 7, 16   *)
(* or 64 bits; payload is the length, and for a close frame its status     *)
(* (0 for none) and reason.                                                *)
(***************************************************************************)
Opcodes == [Continuation |-> 0, Text |-> 1, Binary |-> 2, Close |-> 8, Ping |-> 9, Pong |-> 10]
CanonicalForm(length) == IF length < 126 THEN 7 ELSE IF length < 65536 THEN 16 ELSE 64
MaxWsPayload == 262144  \* the listener's default
BrowserFrame(c) ==
    [fin |-> TRUE, rsv |-> 0, masked |-> TRUE, form |-> CanonicalForm(c.length), f |-> c]

read_ws_client_frame(w) ==
    IF /\ w.rsv = 0 /\ w.fin /\ w.masked
       /\ w.form = 16 => w.f.length >= 126
       /\ w.form = 64 => w.f.length > 65535
       /\ w.f.opcode \in 8..15 => w.f.length <= 125
       /\ w.f.length <= MaxWsPayload
    THEN w.f ELSE Refused

Utf8Valid(s) ==
    LET lead(i) == IF s[i] < 128 THEN <<1, s[i]>> ELSE SequenceAt(s, i)
        ok[i \in 1..Len(s) + 1] ==
          \/ i = Len(s) + 1
          \/ \E q \in {lead(i)} : q[1] > 0 /\ i + q[1] <= Len(s) + 1 /\ ok[i + q[1]]
    IN  ok[1]
has_valid_utf8(s) == Utf8Valid(s)
has_valid_ws_close_payload(f) ==
    \/ f.length = 0
    \/ /\ f.length >= 2
       /\ f.status \in 1000..4999 \ {1004, 1005, 1006, 1015}
       /\ has_valid_utf8(f.reason)

\* The message and the frame written back, if any.
next_ws_binary_message(w) ==
    LET f == read_ws_client_frame(w)
    IN  IF f = Refused THEN Refused
        ELSE CASE f.opcode = Opcodes.Close ->
                    IF has_valid_ws_close_payload(f)
                    THEN [f |-> f, answer |-> [opcode |-> Opcodes.Close, length |-> 0]]
                    ELSE Refused
               [] f.opcode = Opcodes.Ping ->
                    [f |-> f, answer |-> [opcode |-> Opcodes.Pong, length |-> f.length]]
               [] f.opcode \in {Opcodes.Pong, Opcodes.Binary} -> [f |-> f, answer |-> Refused]
               [] OTHER -> Refused

(***************************************************************************)
(* Frames of the VST3 worker pipe: a header, then for the audio frames     *)
(* samples, parameter points or a bus table.  The reader of the header     *)
(* does not look at its last four bytes (reserved).                        *)
(***************************************************************************)
AudioTypes == {"ProcessBlock", "ProcessBlockResponse"}
MultibusTypes == {"ProcessBlockMultiBus", "ProcessBlockMultiBusResponse"}
WorkerTypes == AudioTypes \cup MultibusTypes \cup
    {"Hello", "HelloAck", "Heartbeat", "Shutdown", "Error", "ProcessBlockWithParameters"}
MaxPayloadBytes == 8 + 64 * 16 + 8 * 4096 * 4

valid_audio_shape(f) == f.channels \in GraphWidths /\ f.frames \in FrameCounts
valid_audio_format(f) == valid_audio_shape(f) /\ f.payload = SampleBytes(f)

WorkerFrame(f, body) ==
    [size |-> 36 + f.payload, magic |-> TRUE, version |-> 1, reserved |-> 0,
     f |-> f, body |-> body]
encode_vst3_worker_frame(c) ==
    IF /\ c.f.type \in WorkerTypes /\ c.f.payload <= MaxPayloadBytes
       /\ c.f.type = "ProcessBlock" => valid_audio_format(c.f)
       /\ c.f.type = "ProcessBlockWithParameters" =>
             valid_audio_shape(c.f) /\ c.f.payload >= 8
    THEN WorkerFrame(c.f, c.body) ELSE Refused

worker_frame_accepted(p) ==
    /\ p.size >= 36 /\ p.magic /\ p.version = 1 /\ p.f.type \in WorkerTypes
    /\ p.f.type = "ProcessBlock" => valid_audio_format(p.f)
    /\ p.f.type = "ProcessBlockWithParameters" =>
          valid_audio_shape(p.f) /\ p.f.payload <= MaxPayloadBytes
    /\ p.size = 36 + p.f.payload
decode_vst3_worker_frame(p) ==
    IF worker_frame_accepted(p) THEN [f |-> p.f, body |-> p.body] ELSE Refused

\* The samples read are the header's, whatever the payload of a response.
validate_vst3_worker_audio_frame(p) ==
    IF worker_frame_accepted(p) /\ p.f.type \in AudioTypes /\ p.body.finite
    THEN [f |-> p.f, body |-> [p.body EXCEPT !.n = p.f.channels * p.f.frames]]
    ELSE Refused

\* At most 64 points, 5 of a parameter and 16 parameters; a value is a number
\* of tenths.
valid_parameter_points(points, frames) ==
    /\ frames # 0 /\ Len(points) <= 64
    /\ \A i \in 1..Len(points) :
          LET same == {j \in 1..i : points[j].id = points[i].id}
              ids == {points[j].id : j \in 1..i}
          IN  /\ points[i].offset \in 0..frames - 1
              /\ Finite(points[i].value) /\ points[i].value \in 0..10
              /\ Cardinality(same) <= 5
              /\ same = {i} => Cardinality(ids) <= 16

ParameterBytes(f, count) == 8 + 16 * count + SampleBytes(f)
encode_vst3_worker_parameter_frame(c) ==
    IF /\ c.f.type = "ProcessBlockWithParameters" /\ valid_audio_shape(c.f)
       /\ c.body.samples.n = c.f.channels * c.f.frames
       /\ valid_parameter_points(c.body.points, c.f.frames)
       /\ c.f.payload = ParameterBytes(c.f, Len(c.body.points))
       /\ c.body.samples.finite
    THEN encode_vst3_worker_frame(
           [c EXCEPT !.body = [count |-> Len(@.points), reserved |-> 0,
                               points |-> @.points, samples |-> @.samples]])
    ELSE Refused

validate_vst3_worker_parameter_frame(p) ==
    IF /\ worker_frame_accepted(p) /\ p.f.type = "ProcessBlockWithParameters"
       /\ p.f.payload >= 8 /\ p.body.reserved = 0 /\ p.body.count <= 64
       /\ p.f.payload = ParameterBytes(p.f, p.body.count)
       /\ valid_parameter_points(p.body.points, p.f.frames)
       /\ p.body.samples.finite
    THEN [f |-> p.f, body |-> [points |-> p.body.points, samples |-> p.body.samples]]
    ELSE Refused

(***************************************************************************)
(* Bus layouts: the main bus first, further buses behind it, the unused    *)
(* slots zero.                                                             *)
(***************************************************************************)
NoBus == [role |-> "Unused", active |-> 0, reserved |-> 0, channels |-> 0]
ChannelsBefore(buses, k) ==
    LET sum[i \in 0..MaxBuses] ==
          IF i = 0 THEN 0
          ELSE sum[i - 1] + (IF buses[i].active = 1 THEN buses[i].channels ELSE 0)
    IN  sum[k - 1]
BusChannels(buses) == ChannelsBefore(buses, MaxBuses + 1)

validate_buses(buses, count, roles) ==
    /\ \A i \in 1..MaxBuses :
          IF i > count THEN buses[i] = NoBus
          ELSE /\ buses[i].reserved = 0 /\ buses[i].active = 1
               /\ buses[i].channels \in GraphWidths /\ buses[i].role \in roles
               /\ buses[i].role = "Main" <=> i = 1
    /\ BusChannels(buses) <= MaxBusChannels
validate_vst3_bus_layout(l) ==
    /\ l.inputs \in 1..MaxBuses /\ l.outputs \in 1..MaxBuses
    /\ validate_buses(l.in, l.inputs, {"Main", "Auxiliary", "Sidechain"})
    /\ validate_buses(l.out, l.outputs, {"Main", "Auxiliary"})

\* The largest block fits a worker's frame.
ASSUME BusAssumption == 28 + 2 * MaxBuses * 8 + 4 * (MaxBusChannels + MaxBusChannels) * 512 <= MaxPayloadBytes

MultibusSamples(l, frames) == (BusChannels(l.in) + BusChannels(l.out)) * frames
MultibusBytes(l, frames) == 28 + 2 * MaxBuses * 8 + 4 * MultibusSamples(l, frames)

encode_vst3_worker_multibus_frame(c) ==
    LET l == c.body.layout
    IN  IF /\ c.f.type \in MultibusTypes /\ validate_vst3_bus_layout(l)
           /\ c.f.frames \in 1..512
           /\ c.body.samples.n = MultibusSamples(l, c.f.frames) /\ c.body.samples.finite
           /\ c.f.payload = MultibusBytes(l, c.f.frames)
        THEN encode_vst3_worker_frame(
               [c EXCEPT !.body = [schema |-> 1, reservedZero |-> TRUE, layout |-> l,
                                   samples |-> c.body.samples]])
        ELSE Refused

\* The offset and the number of a bus's samples, bus by bus.
multibus_bus_samples(l, frames, input, i) ==
    LET buses == IF input THEN l.in ELSE l.out
        start == (IF input THEN 0 ELSE BusChannels(l.in)) + ChannelsBefore(buses, i)
    IN  (start * frames + 1)..(start + buses[i].channels) * frames

BusSlices(l, frames) ==
    [input \in BOOLEAN |->
       [i \in 1..(IF input THEN l.inputs ELSE l.outputs) |->
          multibus_bus_samples(l, frames, input, i)]]

validate_vst3_worker_multibus_frame(p) ==
    IF /\ worker_frame_accepted(p) /\ p.f.type \in MultibusTypes
       /\ p.f.payload >= 28 + 2 * MaxBuses * 8 /\ p.f.frames \in 1..512
       /\ p.body.schema = 1 /\ p.body.reservedZero
       /\ validate_vst3_bus_layout(p.body.layout)
       /\ p.f.payload = MultibusBytes(p.body.layout, p.f.frames)
       /\ p.body.samples.finite
    THEN [f |-> p.f, body |-> [layout |-> p.body.layout, samples |-> p.body.samples],
          slices |-> BusSlices(p.body.layout, p.f.frames)]
    ELSE Refused
=============================================================================
