------------------------------ MODULE ControlWire ------------------------------
(***************************************************************************)
(* The wire formats of the control plane (control_payloads.cpp,            *)
(* control_status.cpp, session_catalog.cpp and ipc.cpp): what an encoder   *)
(* accepts and writes, what a decoder accepts and reads.                   *)
(*                                                                         *)
(* A payload is its size in bytes, whether its reserved bytes are all      *)
(* zero, and its fields.  A fixed text field is its count and its TextCap  *)
(* bytes, as in the structures and on the wire; every text field has the   *)
(* same capacity here.  Decibels are counted in half quanta of the         *)
(* fixed-point format, so that rounding and clamping are visible.          *)
(***************************************************************************)
EXTENDS Integers, Sequences, FiniteSets

CONSTANTS TextCap,      \* bytes of a fixed text field (31 to 260 in the code)
          QuantaPerDb,  \* fixed-point steps in a decibel (65536 in the code)
          MaxLanes, MaxTimeline, MaxFilters, MaxEntries, MaxPoints, MinPoints,
          MinIrBytes    \* shortest IR reference accepted (8 in the code)

ASSUME WireAssumption ==
    /\ {TextCap, QuantaPerDb, MaxLanes, MaxTimeline, MaxFilters, MaxEntries,
        MaxPoints, MinPoints, MinIrBytes} \subseteq Nat \ {0}

Refused == [refused |-> TRUE]

\* A double that is not finite: larger than every bound, and not Finite.
NaN == 10000000
Finite(x) == x # NaN

Db(n) == 2 * QuantaPerDb * n
\* The range of decibels is finite.
ASSUME DecibelAssumption == Db(12) < NaN
Clamp(x, lo, hi) == IF x < lo THEN lo ELSE IF x > hi THEN hi ELSE x
\* llround: to the nearest step, halves away from zero.
Round(x) == IF x >= 0 THEN (x + 1) \div 2 ELSE -((1 - x) \div 2)
db_to_q16_16(db) ==
    IF Finite(db) THEN Round(Clamp(db, Db(-144), Db(12))) ELSE -144 * QuantaPerDb
q16_16_to_db(raw) == Clamp(2 * raw, Db(-144), Db(12))

(***************************************************************************)
(* UTF-8: the multi-byte sequence that starts at byte i of s, as its width *)
(* and code point; width 0 when it is malformed.                           *)
(***************************************************************************)
Continuation(b) == b \in 128..191

Low(b) == b % 64

\* Mutant of SequenceIn: overlong three-byte forms pass.
SequenceInLax(b) ==
    CASE b[0] \in 32..127 -> <<1, b[0]>>
      [] b[0] \in 194..223 /\ Continuation(b[1]) ->
           <<2, 64 * (b[0] % 32) + Low(b[1])>>
      [] b[0] \in 224..239 /\ Continuation(b[1]) /\ Continuation(b[2]) ->
           <<3, 4096 * (b[0] % 16) + 64 * Low(b[1]) + Low(b[2])>>
      [] OTHER -> <<0, 0>>

Second(lead) ==
    CASE lead = 224 -> 160..191 [] lead = 237 -> 128..159
      [] lead = 240 -> 144..191 [] lead = 244 -> 128..143
      [] OTHER -> 128..191

SequenceIn(b) ==
    CASE b[0] \in 32..127 -> <<1, b[0]>>
      [] b[0] \in 194..223 /\ Continuation(b[1]) ->
           <<2, 64 * (b[0] % 32) + Low(b[1])>>
      [] b[0] \in 224..239 /\ b[1] \in Second(b[0]) /\ Continuation(b[2]) ->
           <<3, 4096 * (b[0] % 16) + 64 * Low(b[1]) + Low(b[2])>>
      [] b[0] \in 240..244 /\ b[1] \in Second(b[0]) /\ Continuation(b[2])
                          /\ Continuation(b[3]) ->
           <<4, 262144 * (b[0] % 8) + 4096 * Low(b[1]) + 64 * Low(b[2]) + Low(b[3])>>
      [] OTHER -> <<0, 0>>

\* The bytes from i on, none of them read beyond the end.
SequenceAt(s, i) == SequenceIn([k \in 0..3 |-> IF i + k <= Len(s) THEN s[i + k] ELSE 0])

is_printable_utf8(s) ==
    LET ok[i \in 1..Len(s) + 1] ==
          \/ i = Len(s) + 1
          \/ \E q \in {SequenceAt(s, i)} :
                 /\ q[1] > 0
                 /\ q[2] >= 32 /\ q[2] \notin 127..159
                 /\ ok[i + q[1]]
    IN  ok[1]

(***************************************************************************)
(* Text fields.                                                            *)
(***************************************************************************)
ZeroBytes == [i \in 1..TextCap |-> 0]
NoText == [n |-> 0, body |-> ZeroBytes]
Used(t) == SubSeq(t.body, 1, t.n)
TailZero(t) == \A i \in t.n + 1..TextCap : t.body[i] = 0
\* std::copy_n of the counted bytes into a zeroed field.
Copied(t) == [t EXCEPT !.body = [i \in 1..TextCap |-> IF i <= t.n THEN t.body[i] ELSE 0]]
GoodText(t) == t.n \in 1..TextCap /\ is_printable_utf8(Used(t))
PaddedText(t) == GoodText(t) /\ TailZero(t)
OptionalText(t) == t.n <= TextCap /\ TailZero(t) /\ is_printable_utf8(Used(t))

Payload(size, fields) == [size |-> size, reservedZero |-> TRUE, f |-> fields]
Flag(b) == IF b THEN 1 ELSE 0

(***************************************************************************)
(* Volume notifications: 16 bytes, or 48 with an output group.             *)
(***************************************************************************)
is_valid_volume_notification(v) ==
    v.generation # 0 /\ Finite(v.db) /\ v.db \in Db(-144)..Db(12)

ZeroVolume == [raw |-> 0, mute |-> 0, generation |-> 0]
encode_volume_notification(v) ==
    Payload(16, IF is_valid_volume_notification(v)
                THEN [raw |-> db_to_q16_16(v.db), mute |-> Flag(v.mute),
                      generation |-> v.generation]
                ELSE ZeroVolume)

decode_volume_notification(p) ==
    IF /\ p.size = 16 /\ p.reservedZero /\ p.f.mute \in {0, 1}
       /\ p.f.raw \in -144 * QuantaPerDb..12 * QuantaPerDb
       /\ p.f.generation # 0
    THEN [db |-> q16_16_to_db(p.f.raw), mute |-> p.f.mute # 0,
          generation |-> p.f.generation]
    ELSE Refused

\* The notification and the group are two payload parts and two results.
encode_grouped_volume_notification(g) ==
    Payload(48, IF GoodText(g.group) /\ is_valid_volume_notification(g.volume)
                THEN [volume |-> encode_volume_notification(g.volume),
                      group |-> Copied(g.group)]
                ELSE [volume |-> Payload(16, ZeroVolume), group |-> NoText])

decode_grouped_volume_notification(p) ==
    LET v == decode_volume_notification(p.f.volume)
    IN  IF p.size = 48 /\ v # Refused /\ PaddedText(p.f.group)
        THEN [volume |-> v, group |-> p.f.group]
        ELSE Refused

(***************************************************************************)
(* Session volume, route and route-rule commands.                          *)
(***************************************************************************)
is_valid_session_volume(raw) == raw \in -144 * QuantaPerDb..0

encode_session_volume_command(c) ==
    Payload(24, IF /\ c.handle # 0 /\ c.sequence # 0 /\ c.mute <= 1
                   /\ is_valid_session_volume(c.raw)
                THEN c
                ELSE [handle |-> 0, sequence |-> 0, mute |-> 0, raw |-> 0])

\* Mutant of decode_session_volume_command: the handle and the sequence are
\* taken as they come.
DecodeSessionVolumeUnchecked(p) ==
    IF p.size = 24 /\ p.reservedZero /\ p.f.mute <= 1 /\ is_valid_session_volume(p.f.raw)
    THEN p.f ELSE Refused

decode_session_volume_command(p) ==
    IF /\ p.size = 24 /\ p.reservedZero /\ p.f.mute <= 1
       /\ p.f.handle # 0 /\ p.f.sequence # 0 /\ is_valid_session_volume(p.f.raw)
    THEN p.f
    ELSE Refused

encode_session_route_command(c) ==
    Payload(128, IF /\ c.handle # 0 /\ c.sequence # 0
                    /\ GoodText(c.lane) /\ GoodText(c.group)
                 THEN [c EXCEPT !.lane = Copied(@), !.group = Copied(@)]
                 ELSE [handle |-> 0, sequence |-> 0, lane |-> NoText, group |-> NoText])

decode_session_route_command(p) ==
    IF /\ p.size = 128 /\ p.reservedZero /\ p.f.handle # 0 /\ p.f.sequence # 0
       /\ PaddedText(p.f.lane) /\ PaddedText(p.f.group)
    THEN p.f
    ELSE Refused

Upsert == 1
Remove == 2
Clear  == 3
RuleTexts == {"rule", "app", "name", "lane", "group"}

encode_session_route_rule_command(c) ==
    LET shape ==
          CASE c.operation = Upsert ->
                 /\ GoodText(c.rule) /\ GoodText(c.lane) /\ GoodText(c.group)
                 /\ GoodText(c.app) \/ GoodText(c.name)
            [] c.operation = Remove ->
                 GoodText(c.rule) /\ \A t \in RuleTexts \ {"rule"} : c[t].n = 0
            [] OTHER -> \A t \in RuleTexts : c[t].n = 0
        valid == /\ c.schema = 1 /\ c.sequence # 0 /\ c.operation \in {Upsert, Remove, Clear}
                 /\ c.enabled <= 1 /\ c.owner \in {0, 1}
                 /\ c.makeup \in -144 * QuantaPerDb..12 * QuantaPerDb
                 /\ \A t \in RuleTexts : c[t].n <= TextCap
    IN  Payload(480, [x \in DOMAIN c |->
          IF ~(valid /\ shape) THEN IF x \in RuleTexts THEN NoText ELSE 0
          ELSE IF x \in RuleTexts THEN Copied(c[x]) ELSE c[x]])

decode_session_route_rule_command(p) ==
    LET c == p.f
        shape ==
          CASE c.operation = Upsert ->
                 /\ c.rule.n # 0 /\ c.lane.n # 0 /\ c.group.n # 0
                 /\ c.app.n # 0 \/ c.name.n # 0
            [] c.operation = Remove ->
                 c.rule.n # 0 /\ \A t \in RuleTexts \ {"rule"} : c[t].n = 0
            [] OTHER -> \A t \in RuleTexts : c[t].n = 0
    IN  IF /\ p.size = 480 /\ p.reservedZero /\ c.schema = 1
           /\ c.operation \in {Upsert, Remove, Clear} /\ c.enabled <= 1
           /\ c.owner \in {0, 1} /\ c.sequence # 0
           /\ \A t \in RuleTexts : OptionalText(c[t])
           /\ c.makeup \in -144 * QuantaPerDb..12 * QuantaPerDb
           /\ shape
        THEN c ELSE Refused

(***************************************************************************)
(* IR preparation: a WAV path, a phase mode and the format expected.       *)
(***************************************************************************)
IrFieldsValid(c) ==
    /\ c.schema = 1 /\ c.mode <= 3
    /\ c.strength >= 0 /\ c.strength <= 65536 /\ (c.mode = 3 => c.strength = 0)
    /\ c.rate = 0 \/ (c.rate >= 8000 /\ c.rate <= 192000)
    /\ c.channels \in 0..8

encode_ir_prepare_command(c) ==
    Payload(288, IF IrFieldsValid(c) /\ GoodText(c.path)
                 THEN [c EXCEPT !.path = Copied(@)]
                 ELSE [x \in DOMAIN c |-> IF x = "path" THEN NoText ELSE 0])

decode_ir_prepare_command(p) ==
    IF p.size = 288 /\ p.reservedZero /\ IrFieldsValid(p.f) /\ PaddedText(p.f.path)
    THEN p.f ELSE Refused

(***************************************************************************)
(* Scene catalog commands.  The seven policy doubles are one sequence; a   *)
(* timeline entry is a NUL-terminated field without a count.  tail stands  *)
(* for the reserved bytes 121..134 of a lane record.                       *)
(***************************************************************************)
SceneTexts == {"id", "name", "group", "ir", "anchor"}
SceneEnums == {"latency", "irPhase", "loudness"}
SceneFlags == {"autoAttenuate", "strictDirect", "calibrated", "liveUpdate"}
GraphWidths == {2, 6, 8}

NulLength(body) ==
    CHOOSE n \in 0..TextCap : /\ n = TextCap \/ body[n + 1] = 0
                              /\ \A i \in 1..n : body[i] # 0
UpToNul(body) == [k \in 1..TextCap |-> IF k <= NulLength(body) THEN body[k] ELSE 0]
TimelineValid(c) ==
    \A i \in 1..MaxTimeline :
        LET n == NulLength(c.timeline[i])
        IN  IF i <= c.timelineCount
            THEN n \in 1..TextCap - 1 /\ is_printable_utf8(SubSeq(c.timeline[i], 1, n))
            ELSE n = 0
CountsValid(c) ==
    /\ c.laneCount \in 1..MaxLanes /\ c.timelineCount <= MaxTimeline
    /\ c.channels \in GraphWidths /\ c.standard <= 2
    /\ \A x \in SceneFlags : c[x] <= 1
    /\ c.ir.n = 0 \/ c.ir.n \in MinIrBytes..TextCap
LaneValid(l) ==
    /\ l.enabled <= 1 /\ l.matrix <= 1 /\ l.channels \in GraphWidths
    /\ PaddedText(l.id) /\ PaddedText(l.group)
NoLane == [id |-> NoText, group |-> NoText, channels |-> 0, makeup |-> 0,
           enabled |-> 0, matrix |-> 0, tail |-> 0]
WrittenLane(l) == [l EXCEPT !.makeup = db_to_q16_16(@), !.tail = 0]
ReadLane(l) == [l EXCEPT !.makeup = q16_16_to_db(@)]

encode_scene_catalog_command(c) ==
    LET valid ==
          CASE c.operation = Clear ->
                 c.laneCount = 0 /\ c.timelineCount = 0 /\ \A t \in SceneTexts : c[t].n = 0
            [] c.operation = Remove ->
                 /\ c.laneCount = 0 /\ c.timelineCount = 0 /\ PaddedText(c.id)
                 /\ \A t \in SceneTexts \ {"id"} : c[t].n = 0
            [] OTHER ->
                 /\ CountsValid(c) /\ TimelineValid(c)
                 /\ \A t \in {"id", "name", "group"} : PaddedText(c[t])
                 /\ \A t \in {"ir", "anchor"} : c[t].n = 0 \/ PaddedText(c[t])
                 /\ \A i \in 1..c.laneCount : LaneValid(c.lanes[i])
        upsert == c.operation = Upsert
        written(x) ==
          CASE x = "operation" -> c[x]
            [] x = "schema" -> 0
            [] x = "id" -> IF c.operation = Clear THEN NoText ELSE Copied(c[x])
            [] x \in SceneTexts \ {"id"} -> IF upsert THEN Copied(c[x]) ELSE NoText
            [] x = "policies" -> [k \in 1..7 |-> IF upsert THEN c.policies[k] ELSE 0]
            [] x = "timeline" -> [i \in 1..MaxTimeline |->
                 IF upsert /\ i <= c.timelineCount
                 THEN UpToNul(c.timeline[i]) ELSE ZeroBytes]
            [] x = "lanes" -> [i \in 1..MaxLanes |->
                 IF upsert /\ i <= c.laneCount THEN WrittenLane(c.lanes[i]) ELSE NoLane]
            [] OTHER -> IF upsert THEN c[x] ELSE 0
    IN  IF c.schema = 1 /\ c.operation \in {Upsert, Remove, Clear} /\ valid
        THEN Payload(3260, [x \in DOMAIN c |-> written(x)])
        ELSE Refused

\* What the decoder leaves in the fields it does not fill (SceneCatalogCommandV1
\* as default-constructed).
SceneDefaults ==
    [schema |-> 1, operation |-> Upsert, latency |-> 0, irPhase |-> 0, loudness |-> 0,
     policies |-> <<0, 0, 0, 0, 0, 0, 0>>, autoAttenuate |-> 1, strictDirect |-> 0,
     calibrated |-> 0, liveUpdate |-> 0, channels |-> 2, standard |-> 0,
     laneCount |-> 1, timelineCount |-> 0, id |-> NoText, name |-> NoText,
     group |-> NoText, ir |-> NoText, anchor |-> NoText,
     timeline |-> [i \in 1..MaxTimeline |-> ZeroBytes],
     lanes |-> [i \in 1..MaxLanes |-> NoLane]]

\* Every byte from 128 on but the reserved ones, and the counts 15 and 16.
SceneTailZero(f) ==
    /\ f.laneCount = 0 /\ f.timelineCount = 0
    /\ \A t \in SceneTexts \ {"id"} : f[t] = NoText
    /\ f.timeline = SceneDefaults.timeline /\ f.lanes = SceneDefaults.lanes

decode_scene_catalog_command(p) ==
    LET f == p.f
        quiet == /\ \A k \in 1..7 : f.policies[k] = 0
                 /\ f.loudness = 0 /\ f.liveUpdate = 0 /\ f.standard = 0 /\ f.calibrated = 0
        clearOk == /\ SceneTailZero(f) /\ quiet /\ f.id = NoText
                   /\ f.latency = 0 /\ f.irPhase = 0 /\ f.channels = 0
                   /\ f.autoAttenuate = 0 /\ f.strictDirect = 0
        upsertOk ==
          /\ f.latency <= 3 /\ f.irPhase <= 3 /\ f.loudness <= 2
          /\ CountsValid(f) /\ TimelineValid(f)
          /\ \A k \in 1..7 : Finite(f.policies[k])
          /\ PaddedText(f.name) /\ PaddedText(f.group)
          /\ OptionalText(f.ir) /\ OptionalText(f.anchor)
          /\ \A i \in 1..f.laneCount : LaneValid(f.lanes[i]) /\ f.lanes[i].tail = 0
          /\ \A i \in f.laneCount + 1..MaxLanes : f.lanes[i] = NoLane
    IN  IF p.size # 3260 \/ ~p.reservedZero \/ f.schema # 0 THEN Refused
        ELSE IF f.operation = Clear /\ clearOk THEN [SceneDefaults EXCEPT !.operation = Clear]
        ELSE IF f.operation = Remove /\ PaddedText(f.id) /\ quiet /\ SceneTailZero(f)
             THEN [SceneDefaults EXCEPT !.operation = Remove, !.id = f.id]
        ELSE IF f.operation = Upsert /\ PaddedText(f.id) /\ upsertOk
             THEN [f EXCEPT !.schema = 1,
                            !.timeline = [i \in 1..MaxTimeline |-> UpToNul(@[i])],
                            !.lanes = [i \in 1..MaxLanes |->
                              IF i <= f.laneCount THEN ReadLane(@[i]) ELSE NoLane]]
             ELSE Refused

(***************************************************************************)
(* Calibration filters, scene application and device switches.             *)
(***************************************************************************)
FilterValid(x) == /\ Finite(x.hz) /\ x.hz \in 10..22000
                  /\ Finite(x.gain) /\ x.gain \in -24..24
                  /\ Finite(x.q) /\ x.q \in 1..400       \* twentieths: 0.05 to 20
NoFilter == [hz |-> 0, gain |-> 0, q |-> 0]
PeqValid(c) ==
    /\ c.schema = 1 /\ c.count \in 1..MaxFilters /\ c.clear = 0
    /\ \A i \in 1..MaxFilters :
         IF i <= c.count THEN FilterValid(c.filters[i]) ELSE c.filters[i] = NoFilter

encode_calibration_peq_prepare_command(c) ==
    IF PeqValid(c) /\ GoodText(c.group)
    THEN Payload(464, [c EXCEPT !.group = Copied(@)]) ELSE Refused

decode_calibration_peq_prepare_command(p) ==
    IF p.size = 464 /\ p.reservedZero /\ PeqValid(p.f) /\ PaddedText(p.f.group)
    THEN p.f ELSE Refused

encode_scene_apply_payload(c) ==
    IF GoodText(c.scene) /\ GoodText(c.group)
    THEN Payload(64, [scene |-> Copied(c.scene), group |-> Copied(c.group)]) ELSE Refused

decode_scene_apply_payload(p) ==
    IF p.size = 64 /\ PaddedText(p.f.scene) /\ PaddedText(p.f.group) THEN p.f ELSE Refused

DeviceFrames == 16..4096

StreamFormatValid(c) ==
    /\ c.channels \in {1, 2, 6, 8} /\ c.rate \in {44100, 48000, 96000, 192000}
    /\ c.frames \in DeviceFrames

encode_device_switch_payload(c) ==
    Payload(288, IF GoodText(c.endpoint) /\ c.sequence # 0
                 THEN [c EXCEPT !.endpoint = Copied(@)]
                 ELSE [x \in DOMAIN c |-> IF x = "endpoint" THEN NoText ELSE 0])

decode_device_switch_payload(p) ==
    IF /\ p.size = 288 /\ p.reservedZero /\ PaddedText(p.f.endpoint)
       /\ StreamFormatValid(p.f) /\ p.f.sequence # 0
    THEN p.f ELSE Refused

(***************************************************************************)
(* Frames.  decode_ipc_frame sees the header fields and the number of      *)
(* payload bytes that follow; decode_control_command picks the decoder.    *)
(***************************************************************************)
BareTypes == {"Hello", "GraphCommit", "GraphRollback", "DeviceCatalogRequest",
              "ControlStatusRequest", "SessionCatalogRequest", "EqVisualSnapshotRequest"}
MessageTypes ==
    BareTypes \cup
    {"VolumeNotification", "GraphPrepare", "Ack", "Error", "SceneApply", "DeviceSwitch",
     "DeviceCatalogSnapshot", "ControlStatusSnapshot", "SessionCatalogSnapshot",
     "SessionVolumeCommand", "SessionRouteCommand", "SessionRouteRuleCommand",
     "IrPrepareCommand", "SceneCatalogCommand", "EqVisualSnapshot", "CalibrationPeqPrepare"}
is_valid_message_type(type) == type \in MessageTypes

HeaderBytes == 20
kIpcMaxPayloadBytes == 1048576

encode_ipc_frame(type, id, payload) ==
    IF payload.size > kIpcMaxPayloadBytes \/ ~is_valid_message_type(type) THEN Refused
    ELSE [magic |-> "HIK1", version |-> 1, type |-> type, declared |-> payload.size,
          id |-> id, bytes |-> HeaderBytes + payload.size, payload |-> payload]

decode_ipc_frame(b) ==
    CASE b.bytes < HeaderBytes -> "Truncated"
      [] b.bytes >= HeaderBytes /\ b.magic # "HIK1" -> "InvalidMagic"
      [] OTHER ->
         IF b.version # 1 THEN "UnsupportedVersion"
         ELSE IF ~is_valid_message_type(b.type) THEN "InvalidType"
         ELSE IF b.declared > kIpcMaxPayloadBytes THEN "OversizedPayload"
         ELSE IF b.bytes - HeaderBytes # b.declared THEN "LengthMismatch"
         ELSE "None"

DecodePayload(type, p) ==
    CASE type \in BareTypes -> IF p.size = 0 THEN p ELSE Refused
      [] type = "VolumeNotification" ->
           IF p.size = 16 THEN decode_volume_notification(p)
           ELSE decode_grouped_volume_notification(p)
      [] type = "SessionVolumeCommand" -> decode_session_volume_command(p)
      [] type = "SessionRouteCommand" -> decode_session_route_command(p)
      [] type = "SessionRouteRuleCommand" -> decode_session_route_rule_command(p)
      [] type = "IrPrepareCommand" -> decode_ir_prepare_command(p)
      [] type = "SceneApply" -> decode_scene_apply_payload(p)
      [] type = "SceneCatalogCommand" -> decode_scene_catalog_command(p)
      [] type = "CalibrationPeqPrepare" -> decode_calibration_peq_prepare_command(p)
      [] type = "DeviceSwitch" -> decode_device_switch_payload(p)
      [] OTHER -> Refused

Received(frame, value) ==
    IF value = Refused THEN Refused
    ELSE [type |-> frame.type, id |-> frame.id, value |-> value]
decode_control_command(frame) == Received(frame, DecodePayload(frame.type, frame.payload))
=============================================================================
