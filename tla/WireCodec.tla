-------------------------------- MODULE WireCodec --------------------------------
(***************************************************************************)
(* One value through one wire format: a writer encodes it, the bytes may   *)
(* be altered on the way (another client, another version), and a reader   *)
(* decodes them.  Kinds "Text" and "Utf8" check the scanners of printable  *)
(* and of any UTF-8 alone.                                                 *)
(***************************************************************************)
EXTENDS PeripheralWire

CONSTANTS Values(_),   \* values the writer of a kind may be asked to encode
          Tampered(_, _), \* payloads of a kind that differ from the given one
          Kinds

VARIABLES kind, value, wire, result, altered
codecVars == <<kind, value, wire, result, altered>>

Scanned == {"Text", "Utf8"}
Encode(k, v) ==
    CASE k = "Volume" -> encode_volume_notification(v)
      [] k = "GroupedVolume" -> encode_grouped_volume_notification(v)
      [] k = "SessionVolume" -> encode_session_volume_command(v)
      [] k = "SessionRoute" -> encode_session_route_command(v)
      [] k = "RouteRule" -> encode_session_route_rule_command(v)
      [] k = "IrPrepare" -> encode_ir_prepare_command(v)
      [] k = "SceneCatalog" -> encode_scene_catalog_command(v)
      [] k = "CalibrationPeq" -> encode_calibration_peq_prepare_command(v)
      [] k = "SceneApply" -> encode_scene_apply_payload(v)
      [] k = "DeviceSwitch" -> encode_device_switch_payload(v)
      [] k = "DeviceCatalog" -> encode_device_catalog_snapshot(v)
      [] k = "ControlStatus" -> encode_control_status_snapshot(v)
      [] k = "SessionCatalog" -> encode_session_catalog_snapshot(v)
      [] k = "EqVisual" -> encode_eq_visual_snapshot(v)
      [] k \in Scanned -> [text |-> v]
      [] k = "DriverStream" -> stream_packet_encode(v)
      [] k = "DriverHeader" -> control_header_encode(v)
      [] k = "EndpointState" -> endpoint_state_encode(v)
      [] k = "TabPacket" -> PacketizeTab(v)
      [] k = "WebSocket" -> BrowserFrame(v.f)
      [] k \in {"WorkerFrame", "WorkerAudio"} -> encode_vst3_worker_frame(v)
      [] k = "WorkerParameters" -> encode_vst3_worker_parameter_frame(v)
      [] k = "WorkerMultibus" -> encode_vst3_worker_multibus_frame(v)

MessageType ==
    [Volume |-> "VolumeNotification", GroupedVolume |-> "VolumeNotification",
     SessionVolume |-> "SessionVolumeCommand", SessionRoute |-> "SessionRouteCommand",
     RouteRule |-> "SessionRouteRuleCommand", IrPrepare |-> "IrPrepareCommand",
     SceneCatalog |-> "SceneCatalogCommand", CalibrationPeq |-> "CalibrationPeqPrepare",
     SceneApply |-> "SceneApply", DeviceSwitch |-> "DeviceSwitch"]

\* What the engine is asked for by a frame.
ValueOf(command) == IF command = Refused THEN Refused ELSE command.value
ValueIn(frame) ==
    IF frame = Refused \/ decode_ipc_frame(frame) # "None" THEN Refused
    ELSE ValueOf(decode_control_command(frame))

\* A command travels in a frame; a snapshot is read from a reply's payload.
Decode(k, p) ==
    CASE k = "DeviceCatalog" -> decode_device_catalog_snapshot(p)
      [] k = "ControlStatus" -> decode_control_status_snapshot(p)
      [] k = "SessionCatalog" -> decode_session_catalog_snapshot(p)
      [] k = "EqVisual" -> decode_eq_visual_snapshot(p)
      [] k = "Text" -> IF is_printable_utf8(p.text) THEN p ELSE Refused
      [] k = "Utf8" -> IF has_valid_utf8(p.text) THEN p ELSE Refused
      [] k = "DriverStream" -> decode_driver_stream_packet(p)
      [] k = "DriverHeader" -> control_header_decode(p)
      [] k = "EndpointState" -> decode_driver_endpoint_state_packet(p)
      [] k = "TabPacket" -> decode_tab_capture_packet(p)
      [] k = "WebSocket" -> next_ws_binary_message(p)
      [] k = "WorkerFrame" -> decode_vst3_worker_frame(p)
      [] k = "WorkerAudio" -> validate_vst3_worker_audio_frame(p)
      [] k = "WorkerParameters" -> validate_vst3_worker_parameter_frame(p)
      [] k = "WorkerMultibus" -> validate_vst3_worker_multibus_frame(p)
      [] OTHER ->
           ValueIn(encode_ipc_frame(MessageType[k], 1, p))

\* What the writer meant: the value as the fixed-point format can carry it,
\* with the bytes beyond a text's count and a NUL cleared; a WebSocket message
\* with the answer it calls for; a multi-bus block with the samples of each bus,
\* which follow each other bus by bus, inputs first.
SamplesOfBuses(l, frames) ==
    LET slots == [i \in 1..l.inputs |-> <<TRUE, i>>] \o [i \in 1..l.outputs |-> <<FALSE, i>>]
        bus(slot) == (IF slot[1] THEN l.in ELSE l.out)[slot[2]]
        owner[k \in 0..Len(slots)] ==
          IF k = 0 THEN <<>>
          ELSE owner[k - 1] \o [x \in 1..bus(slots[k]).channels * frames |-> slots[k]]
    IN  [input \in BOOLEAN |->
           [i \in 1..(IF input THEN l.inputs ELSE l.outputs) |->
              {x \in DOMAIN owner[Len(slots)] : owner[Len(slots)][x] = <<input, i>>}]]
Quantised(db) == q16_16_to_db(db_to_q16_16(db))
MeantLane(l) == [l EXCEPT !.makeup = Quantised(@)]
Meaning(k, v) ==
    CASE k = "Volume" -> [v EXCEPT !.db = Quantised(@)]
      [] k = "GroupedVolume" ->
           [volume |-> [v.volume EXCEPT !.db = Quantised(@)], group |-> Copied(v.group)]
      [] k = "SessionRoute" -> [v EXCEPT !.lane = Copied(@), !.group = Copied(@)]
      [] k = "RouteRule" -> [x \in DOMAIN v |-> IF x \in RuleTexts THEN Copied(v[x]) ELSE v[x]]
      [] k = "IrPrepare" -> [v EXCEPT !.path = Copied(@)]
      [] k = "CalibrationPeq" -> [v EXCEPT !.group = Copied(@)]
      [] k = "SceneApply" -> [v EXCEPT !.scene = Copied(@), !.group = Copied(@)]
      [] k = "DeviceSwitch" -> [v EXCEPT !.endpoint = Copied(@)]
      [] k = "ControlStatus" ->
           [v EXCEPT !.volume = [x \in DOMAIN @ |-> Quantised(@[x])],
                     !.entries = [i \in DOMAIN @ |-> CopiedRoute(@[i])]]
      [] k = "DeviceCatalog" ->
           [v EXCEPT !.entries = [i \in DOMAIN @ |-> CopiedDevice(@[i])]]
      [] k = "SceneCatalog" ->
           IF v.operation # Upsert
           THEN [SceneDefaults EXCEPT !.operation = v.operation,
                                      !.id = IF v.operation = Remove THEN v.id ELSE NoText]
           ELSE [v EXCEPT !.ir = Copied(@), !.anchor = Copied(@),
                          !.timeline = [i \in 1..MaxTimeline |-> UpToNul(@[i])],
                          !.lanes = [i \in 1..MaxLanes |->
                            IF i <= v.laneCount THEN MeantLane(@[i]) ELSE NoLane]]
      [] k \in Scanned -> [text |-> v]
      [] k = "DriverStream" -> [v EXCEPT !.f.guid = UpToNul(@)]
      [] k = "WebSocket" ->
           [f |-> v.f,
            answer |-> CASE v.f.opcode = Opcodes.Ping ->
                              [opcode |-> Opcodes.Pong, length |-> v.f.length]
                         [] v.f.opcode = Opcodes.Close ->
                              [opcode |-> Opcodes.Close, length |-> 0]
                         [] OTHER -> Refused]
      [] k = "WorkerMultibus" ->
           [f |-> v.f, body |-> v.body, slices |-> SamplesOfBuses(v.body.layout, v.f.frames)]
      [] OTHER -> v

\* The payload an encoder that returns an array leaves when it refuses.
ZeroPayload(k, w) ==
    /\ k \in {"SessionVolume", "SessionRoute", "RouteRule", "IrPrepare", "DeviceSwitch"}
    /\ w.f.sequence = 0
EncoderRefused(k, w) ==
    CASE k \in Scanned -> FALSE
      [] k = "Volume" -> w.f = ZeroVolume
      [] k = "GroupedVolume" -> w.f.volume.f = ZeroVolume
      [] k = "IrPrepare" -> w.f.schema = 0
      [] OTHER -> w = Refused \/ ZeroPayload(k, w)

(***************************************************************************)
(* What a writer of each kind may be asked to write, as its structure can  *)
(* hold it, and what a reader may be sent: any bytes, cut into the fields  *)
(* of the kind.  A payload of 48 bytes with a notification's message type  *)
(* is a grouped one, one of 16 a plain one; the length field of a          *)
(* WebSocket frame holds what its form can; a catalog carries as many      *)
(* entries as it declares, and a worker's frame as many points, and behind *)
(* a header that agrees with the size as many samples.                     *)
(***************************************************************************)
Byte == 0..255
FieldBody == [1..TextCap -> Byte]
TextField == [n : Nat, body : FieldBody]
SampleRun == [n : Nat, finite : BOOLEAN]
VolumeValue == [db : Int, mute : BOOLEAN, generation : Nat]
RawVolume == [raw : Int, mute : Nat, generation : Nat]
SceneCommand ==
    [schema : Nat, operation : Nat, latency : Nat, irPhase : Nat, loudness : Nat,
     policies : [1..7 -> Int], autoAttenuate : Nat, strictDirect : Nat, calibrated : Nat,
     liveUpdate : Nat, channels : Nat, standard : Nat, laneCount : Nat, timelineCount : Nat,
     id : TextField, name : TextField, group : TextField, ir : TextField, anchor : TextField,
     timeline : [1..MaxTimeline -> FieldBody],
     lanes : [1..MaxLanes -> [id : TextField, group : TextField, channels : Nat, makeup : Int,
                              enabled : Nat, matrix : Nat, tail : Nat]]]
DeviceEntry ==
    [endpoint : TextField, name : TextField, flow : Nat, availability : Nat, flags : Nat,
     channels : Nat, rate : Nat, frames : Nat]
RouteStatus == [id : TextField, name : TextField, detail : TextField, state : Nat, flags : Nat]
LevelsOf == [requested : Int, ceiling : Int, effective : Int]
SessionEntry ==
    [handle : Nat \X Nat, active : Nat, state : Nat, flags : Nat, raw : Int, mute : Nat,
     name : TextField, app : TextField, lane : TextField, output : TextField]
StreamHeader ==
    [type : Nat, sequence : Nat, guid : FieldBody, channels : Nat, rate : Nat, frames : Nat,
     flags : Nat, generation : Nat]
EndpointFields ==
    [type : Nat, request : Nat, endpoint : FieldBody, context : FieldBody, channels : Nat,
     rate : Nat, frames : Nat, requested : Int, safety : Int, effective : Int, mute : Nat,
     generation : Nat, actuator : Nat]
TabFields == [channels : Nat, rate : Nat, frames : Nat]
BrowserFields == [opcode : Nat, length : Nat, status : Nat, reason : Seq(Byte)]
WorkerHeader ==
    [type : STRING, request : Nat, channels : Nat, frames : Nat, payload : Nat, flags : Nat]
PointRecord == [id : Nat, offset : Int, value : Int]
BusSlot == [role : STRING, active : Nat, reserved : Nat, channels : Nat]
BusLayout ==
    [inputs : Nat, outputs : Nat, in : [1..MaxBuses -> BusSlot], out : [1..MaxBuses -> BusSlot]]

FieldsOf(k) ==
    CASE k = "SessionVolume" -> [handle : Nat, sequence : Nat, mute : Nat, raw : Int]
      [] k = "SessionRoute" ->
           [handle : Nat, sequence : Nat, lane : TextField, group : TextField]
      [] k = "RouteRule" ->
           [schema : Nat, operation : Nat, enabled : Nat, owner : Nat, sequence : Nat, makeup : Int,
            rule : TextField, app : TextField, name : TextField, lane : TextField, group : TextField]
      [] k = "IrPrepare" ->
           [schema : Nat, mode : Nat, strength : Int, rate : Nat, channels : Nat, path : TextField]
      [] k = "SceneCatalog" -> SceneCommand
      [] k = "CalibrationPeq" ->
           [schema : Nat, count : Nat, clear : Nat, group : TextField,
            filters : [1..MaxFilters -> [hz : Int, gain : Int, q : Int]]]
      [] k = "SceneApply" -> [scene : TextField, group : TextField]
      [] k = "DeviceSwitch" ->
           [endpoint : TextField, channels : Nat, rate : Nat, frames : Nat, sequence : Nat]

ValueType(k) ==
    CASE k = "Volume" -> VolumeValue
      [] k = "GroupedVolume" -> [volume : VolumeValue, group : TextField]
      [] k = "SceneCatalog" -> {c \in SceneCommand : \A i \in 1..MaxLanes : c.lanes[i].tail = 0}
      [] k = "DeviceCatalog" -> [sequence : Nat, entries : Seq(DeviceEntry)]
      [] k = "ControlStatus" -> [sequence : Nat, volume : LevelsOf, entries : Seq(RouteStatus)]
      [] k = "SessionCatalog" -> [sequence : Nat, generation : Nat, entries : Seq(SessionEntry)]
      [] k = "EqVisual" -> [sequence : Nat, source : Nat, points : [1..MaxPoints -> Int \X Int]]
      [] k \in Scanned -> Seq(Byte)
      [] k = "DriverStream" -> [f : StreamHeader, samples : SampleRun]
      [] k = "DriverHeader" -> [type : Nat, request : Nat]
      [] k = "EndpointState" -> EndpointFields
      [] k = "TabPacket" -> [f : TabFields, samples : SampleRun]
      [] k = "WebSocket" -> [f : BrowserFields]
      [] k = "WorkerFrame" -> [f : WorkerHeader, body : SampleRun]
      [] k = "WorkerAudio" ->
           {c \in [f : WorkerHeader, body : SampleRun] : c.body.n = c.f.channels * c.f.frames}
      [] k = "WorkerParameters" ->
           [f : WorkerHeader, body : [points : Seq(PointRecord), samples : SampleRun]]
      [] k = "WorkerMultibus" ->
           [f : WorkerHeader, body : [layout : BusLayout, samples : SampleRun]]
      [] OTHER -> FieldsOf(k)

WirePayload(fields) == [size : Nat, reservedZero : BOOLEAN, f : fields]
WireList(entry, fields) ==
    {p \in [size : Nat, reservedZero : BOOLEAN, count : Nat, entries : Seq(entry), f : fields] :
       p.count = Len(p.entries)}
DriverPacket(fields) == [size : Nat, declared : Nat, abi : BOOLEAN, f : fields]
PipeFrame(body) ==
    [size : Nat, magic : BOOLEAN, version : Nat, reserved : Nat, f : WorkerHeader, body : body]
CurvePayload ==
    {p \in [size : Nat, sequence : Nat, source : Nat, count : Nat, points : Seq(Int \X Int)] :
       p.count = Len(p.points)}
StreamPacket ==
    [size : Nat, declared : Nat, abi : BOOLEAN, f : StreamHeader, samples : SampleRun]
TabPayload == [size : Nat, magic : BOOLEAN, version : Nat, f : TabFields, samples : SampleRun]
ClientFrame ==
    {w \in [fin : BOOLEAN, rsv : Nat, masked : BOOLEAN, form : {7, 16, 64}, f : BrowserFields] :
       (w.form = 7 => w.f.length < 126) /\ (w.form = 16 => w.f.length < 65536)}
ParameterFrame ==
    {p \in PipeFrame([count : Nat, reserved : Nat, points : Seq(PointRecord),
                      samples : SampleRun]) :
       p.f.payload = ParameterBytes(p.f, p.body.count) =>
          /\ p.body.count = Len(p.body.points)
          /\ p.body.samples.n = p.f.channels * p.f.frames}
MultibusFrame ==
    {p \in PipeFrame([schema : Nat, reservedZero : BOOLEAN, layout : BusLayout,
                      samples : SampleRun]) :
       p.f.payload = MultibusBytes(p.body.layout, p.f.frames) =>
          p.body.samples.n = MultibusSamples(p.body.layout, p.f.frames)}

WireType(k) ==
    CASE k = "Volume" -> {p \in WirePayload(RawVolume) : p.size # 48}
      [] k = "GroupedVolume" ->
           {p \in WirePayload([volume : WirePayload(RawVolume), group : TextField]) :
              p.size # 16 /\ p.reservedZero}
      [] k = "SceneApply" -> {p \in WirePayload(FieldsOf(k)) : p.reservedZero}
      [] k = "DeviceCatalog" -> WireList(DeviceEntry, [sequence : Nat])
      [] k = "ControlStatus" -> WireList(RouteStatus, [sequence : Nat, volume : LevelsOf])
      [] k = "SessionCatalog" -> WireList(SessionEntry, [sequence : Nat, generation : Nat])
      [] k = "EqVisual" -> CurvePayload
      [] k \in Scanned -> [text : Seq(Byte)]
      [] k = "DriverStream" -> StreamPacket
      [] k = "DriverHeader" -> DriverPacket([type : Nat, request : Nat])
      [] k = "EndpointState" -> DriverPacket(EndpointFields)
      [] k = "TabPacket" -> TabPayload
      [] k = "WebSocket" -> ClientFrame
      [] k \in {"WorkerFrame", "WorkerAudio"} -> PipeFrame(SampleRun)
      [] k = "WorkerParameters" -> ParameterFrame
      [] k = "WorkerMultibus" -> MultibusFrame
      [] OTHER -> WirePayload(FieldsOf(k))

FormatKinds ==
    {"Volume", "GroupedVolume", "SessionVolume", "SessionRoute", "RouteRule", "IrPrepare",
     "SceneCatalog", "CalibrationPeq", "SceneApply", "DeviceSwitch", "DeviceCatalog",
     "ControlStatus", "SessionCatalog", "EqVisual", "Text", "Utf8", "DriverStream",
     "DriverHeader", "EndpointState", "TabPacket", "WebSocket", "WorkerFrame", "WorkerAudio",
     "WorkerParameters", "WorkerMultibus"}
ASSUME CodecAssumption ==
    /\ Kinds \subseteq FormatKinds
    /\ \A k \in Kinds : \A v \in Values(k) :
         /\ v \in ValueType(k)
         /\ Encode(k, v) # Refused =>
               \A w \in Tampered(k, Encode(k, v)) : k \notin Scanned /\ w \in WireType(k)

CodecInit ==
    /\ kind \in Kinds /\ value \in Values(kind)
    /\ wire = [stage |-> "unwritten"] /\ result = [stage |-> "unread"]
    /\ altered = FALSE

Write ==
    /\ wire = [stage |-> "unwritten"]
    /\ wire' = Encode(kind, value)
    /\ UNCHANGED <<kind, value, result, altered>>

Alter ==
    /\ wire # [stage |-> "unwritten"] /\ wire # Refused
    /\ ~altered /\ result = [stage |-> "unread"]
    /\ \E w \in Tampered(kind, wire) : wire' = w
    /\ altered' = TRUE
    /\ UNCHANGED <<kind, value, result>>

Read ==
    /\ wire # [stage |-> "unwritten"] /\ wire # Refused
    /\ result = [stage |-> "unread"]
    /\ result' = Decode(kind, wire)
    /\ UNCHANGED <<kind, value, wire, altered>>

CodecNext == Write \/ Alter \/ Read
CodecSpec == CodecInit /\ [][CodecNext]_codecVars

Unread == result = [stage |-> "unread"]
Accepted == ~Unread /\ result # Refused

\* The standard's encoding of a code point, and the code point a group of
\* bytes would stand for if it were well formed.
Utf8Of(c) ==
    IF c < 128 THEN <<c>>
    ELSE IF c < 2048 THEN <<192 + c \div 64, 128 + (c % 64)>>
    ELSE IF c < 65536 THEN <<224 + c \div 4096, 128 + ((c \div 64) % 64), 128 + (c % 64)>>
    ELSE <<240 + c \div 262144, 128 + ((c \div 4096) % 64),
           128 + ((c \div 64) % 64), 128 + (c % 64)>>
RawCode(b) ==
    CASE Len(b) = 1 -> b[1]
      [] Len(b) = 2 -> 64 * (b[1] % 32) + (b[2] % 64)
      [] Len(b) = 3 -> 4096 * (b[1] % 16) + 64 * (b[2] % 64) + (b[3] % 64)
      [] Len(b) = 4 -> 262144 * (b[1] % 8) + 4096 * (b[2] % 64) + 64 * (b[3] % 64) + (b[4] % 64)
Scalar(c) == c <= 1114111 /\ (c < 55296 \/ c > 57343)
Printable(c) == c \in 32..126 \/ c >= 160
WellFormed(b, printable) ==
    LET c == RawCode(b)
    IN  Scalar(c) /\ (printable => Printable(c)) /\ Utf8Of(c) = b
IsTextOf(s, printable) ==
    LET ok[i \in 1..Len(s) + 1] ==
          \/ i = Len(s) + 1
          \/ \E w \in 1..4 : /\ i + w - 1 <= Len(s)
                             /\ WellFormed(SubSeq(s, i, i + w - 1), printable) /\ ok[i + w]
    IN  ok[1]

(***************************************************************************)
(* Properties.                                                             *)
(***************************************************************************)

\* A payload read as it was written means what its writer meant or nothing;
\* and the all-zero payload left by an encoder that refused its value (the
\* array-returning encoders of control_payloads.cpp have no other way to say
\* so) is never obeyed as a command.
NeverMisread ==
    ~Unread /\ ~altered =>
        IF EncoderRefused(kind, wire) THEN result = Refused
        ELSE result \in {Refused, Meaning(kind, value)}

\* What an encoder agreed to write, its decoder agrees to read.  Some writers
\* are laxer than their readers: the scene catalog (non-finite policies), the
\* route rule (an unprintable second matcher), the device switch (format), the
\* browser (stream widths, message kinds) and the worker's audio frame, whose
\* encoder writes the header alone.  A control status is read back when its
\* effective volume is at most the requested one and the ceiling, as the engine
\* computes it; at the edge of the tolerance rounding may carry it over.
Settled(levels) == levels.effective <= levels.requested /\ levels.effective <= levels.ceiling
LaxWriters == {"SceneCatalog", "RouteRule", "DeviceSwitch", "TabPacket", "WebSocket", "WorkerAudio"}
WrittenIsUnderstood ==
    ~Unread /\ ~altered /\ kind \notin LaxWriters /\ ~EncoderRefused(kind, wire)
    /\ (kind \in Scanned => IsTextOf(value, kind = "Text"))
    /\ (kind = "ControlStatus" => Settled(value.volume)) => Accepted

\* Whatever bytes arrive, what is accepted re-encodes to those very bytes: no
\* two payloads mean the same thing.  The readers of the scene catalog and of
\* the driver's stream packets (bytes behind a NUL), of the control status
\* (decibels beyond the range, which are clamped) and of the worker's frames (a
\* reserved word) only promise that re-encoding what they read and reading it
\* again changes nothing of what it means; a removal or a clearing is read
\* into a command whose default lane count the encoder refuses, and the header of
\* a worker's frame is read with payloads its writer does not write.
BeyondWriter(f) ==
    f.payload > MaxPayloadBytes \/ (f.type = "ProcessBlockWithParameters" /\ f.payload < 8)
LaxReaders == {"SceneCatalog", "ControlStatus", "DriverStream", "WorkerFrame",
               "WorkerAudio", "WorkerParameters", "WorkerMultibus"}
Canonical(again) ==
    CASE kind \notin LaxReaders -> again = wire
      [] kind = "SceneCatalog" /\ result.operation # Upsert -> again = Refused
      [] kind \in {"WorkerFrame", "WorkerAudio"} /\ BeyondWriter(result.f) -> again = Refused
      [] OTHER -> again # Refused /\ Decode(kind, again) = Meaning(kind, result)
AcceptedIsCanonical == Accepted /\ kind \notin Scanned => Canonical(Encode(kind, result))

\* Writers and readers of one format agree, in both directions.
FormatsAgree == NeverMisread /\ WrittenIsUnderstood /\ AcceptedIsCanonical

\* The scanners accept exactly the texts of Unicode scalar values in their
\* shortest encoding, the one of the control plane printable ones only: no
\* surrogates, no overlong forms, no truncated sequence.
ScannerMatchesStandard ==
    kind \in Scanned /\ ~Unread => (Accepted <=> IsTextOf(value, kind = "Text"))
=============================================================================
