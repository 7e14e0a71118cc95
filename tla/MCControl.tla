------------------------------- MODULE MCControl -------------------------------
(***************************************************************************)
(* The control plane and the wire formats, one at a time: the first on a   *)
(* volume command, a snapshot request and a payload that does not decode;  *)
(* the second on every format, with values at and just beyond its bounds.  *)
(* Texts have up to three bytes: printable, empty, unprintable, two-byte,  *)
(* with and without junk behind their count, and a count beyond the field. *)
(***************************************************************************)
EXTENDS ControlPlane, WireCodec

VARIABLE part

Volume == encode_volume_notification([db |-> 0, mute |-> FALSE, generation |-> 1])
Bare == Payload(0, [none |-> 0])
MCFrames ==
    [volume |-> encode_ipc_frame("VolumeNotification", 1, Volume),
     status |-> encode_ipc_frame("ControlStatusRequest", 1, Bare),
     spoilt |-> encode_ipc_frame("VolumeNotification", 1, [Volume EXCEPT !.f.generation = 0])]

T(n, body) == [n |-> n, body |-> body]
Good == T(1, <<65, 0, 0>>)
Other == T(2, <<65, 66, 0>>)
Texts == {Good, NoText, T(1, <<31, 0, 0>>), T(2, <<195, 169, 0>>), T(1, <<65, 7, 0>>), T(4, <<65, 65, 65>>)}
FewTexts == {Good, NoText, T(1, <<128, 0, 0>>), T(1, <<65, 7, 0>>)}

DbValues == {NaN, Db(-145), Db(-144), -3, -2, -1, 0, 1, Db(12), Db(12) + 1}
Volumes == [db : DbValues, mute : BOOLEAN, generation : {0, 1}]
RawDbs == {-144 * QuantaPerDb - 1, -144 * QuantaPerDb, 0, 1, 12 * QuantaPerDb + 1}

Rule == [schema |-> 1, operation |-> Upsert, enabled |-> 1, owner |-> 0, sequence |-> 1,
         makeup |-> 0, rule |-> Good, app |-> Good, name |-> NoText, lane |-> Good, group |-> Good]
Lane == [id |-> Good, group |-> Good, channels |-> 2, makeup |-> 3, enabled |-> 1, matrix |-> 0, tail |-> 0]
SceneOf(n, m) ==
    [schema |-> 1, operation |-> Upsert, latency |-> 0, irPhase |-> 3, loudness |-> 1,
     policies |-> <<-1, -1, 80, 1, 6, 0, 0>>, autoAttenuate |-> 1, strictDirect |-> 0,
     calibrated |-> 1, liveUpdate |-> 0, channels |-> 2, standard |-> 2, laneCount |-> n,
     timelineCount |-> m, id |-> Good, name |-> Other, group |-> Good, ir |-> NoText,
     anchor |-> Good, timeline |-> [i \in 1..MaxTimeline |-> IF i <= m THEN <<65, 0, 0>> ELSE ZeroBytes],
     lanes |-> [i \in 1..MaxLanes |-> IF i <= n THEN Lane ELSE NoLane]]
RemoveScene == [SceneOf(0, 0) EXCEPT !.operation = Remove, !.name = NoText, !.group = NoText, !.anchor = NoText]
ClearScene == [RemoveScene EXCEPT !.operation = Clear, !.id = NoText]

\* A record with one field replaced by each of some alternatives.
Changes(r, alternatives) ==
    UNION {{[r EXCEPT ![x] = a] : a \in alternatives[x]} : x \in DOMAIN alternatives}
SceneChanges ==
    [operation |-> 0..4, laneCount |-> 0..3, timelineCount |-> 0..3, channels |-> {1, 2, 8},
     standard |-> {3}, autoAttenuate |-> {0, 2}, liveUpdate |-> {1, 2}, schema |-> {2},
     policies |-> {<<NaN, 0, 0, 0, 0, 0, 0>>, <<-2, 0, 0, 0, 0, 0, 0>>},
     id |-> Texts, name |-> Texts, ir |-> Texts \cup {Other}, anchor |-> Texts,
     timeline |-> [1..MaxTimeline -> {ZeroBytes, <<65, 0, 0>>, <<65, 0, 7>>, <<65, 65, 65>>, <<31, 0, 0>>}],
     lanes |-> [1..MaxLanes -> {NoLane, Lane, [Lane EXCEPT !.makeup = NaN], [Lane EXCEPT !.enabled = 2],
                                [Lane EXCEPT !.id = T(1, <<65, 7, 0>>)], [Lane EXCEPT !.makeup = Db(20)]}]]

Filters == {NoFilter, [hz |-> 1000, gain |-> 3, q |-> 20], [hz |-> 9, gain |-> 0, q |-> 20],
            [hz |-> 22000, gain |-> NaN, q |-> 20], [hz |-> 10, gain |-> -24, q |-> 1]}
Device == [endpoint |-> Good, name |-> Good, flow |-> 0, availability |-> 0, flags |-> 1,
           channels |-> 2, rate |-> 48000, frames |-> 480]
Devices == {Device} \cup
    Changes(Device, [endpoint |-> FewTexts \cup {Other}, flow |-> {1, 2}, availability |-> {1, 4},
                     flags |-> {0, 2}, channels |-> {3}, rate |-> {8000}, frames |-> {15, 4096}])
UpToTwo(S) == {<<>>} \cup {<<x>> : x \in S} \cup {<<x, y>> : x \in S, y \in S}

Levels == {Db(-144), -1, Db(1), Db(12)}
Route == [id |-> Good, name |-> Good, detail |-> Other, state |-> 0, flags |-> 1]
Routes == {Route} \cup Changes(Route, [id |-> FewTexts \cup {Other, T(3, <<65, 65, 65>>)}, state |-> {4, 5}, flags |-> {2}])
Session(g, i) == [handle |-> <<g, i>>, active |-> 1, state |-> 0, flags |-> 1, raw |-> 0, mute |-> 0,
                  name |-> Good, app |-> NoText, lane |-> Good, output |-> Good]
Sessions(i) == {Session(1, i), Session(2, i), Session(1, 1)} \cup
    Changes(Session(1, i), [active |-> {0, 2}, flags |-> {0, 2}, raw |-> RawDbs, mute |-> {2},
                            name |-> FewTexts, state |-> {3, 4}])
Points == {ZeroPoint, <<20, 0>>, <<31, -24>>, <<1000, 24>>, <<19, 0>>, <<0, 1>>, <<8000, 25>>}

Guids == {<<65, 0, 0>>, <<65, 0, 7>>, <<65, 65, 65>>, <<0, 0, 0>>}
Stream == [type |-> 1, sequence |-> 1, guid |-> <<65, 0, 0>>, channels |-> 2, rate |-> 48000,
           frames |-> 1, flags |-> 0, generation |-> 1]
Streams == {Stream} \cup
    Changes(Stream, [type |-> 0..3, sequence |-> {0}, guid |-> Guids, channels |-> {1, 6, 8}, rate |-> {8000},
                     frames |-> {0, 4096, 4097}, flags |-> {3, 4}, generation |-> {0}])
TabStreams == [channels : 0..8, rate : {8000, 48000}, frames : {0, 1, 4096, 4097}]
State == [type |-> 2, request |-> 1, endpoint |-> <<65, 0, 0>>, context |-> <<0, 0, 0>>, channels |-> 2,
          rate |-> 48000, frames |-> 480, requested |-> 0, safety |-> 0, effective |-> 0, mute |-> 0,
          generation |-> 1, actuator |-> 0]
States == {State} \cup
    Changes(State, [type |-> 1..4, request |-> {0}, endpoint |-> Guids, context |-> Guids, channels |-> {4},
                    rate |-> {8000}, frames |-> {0, 4096, 4097}, requested |-> RawDbs, safety |-> RawDbs,
                    effective |-> RawDbs, mute |-> {1, 2}, generation |-> {0}, actuator |-> {2, 3}])
WsFrames == [opcode : {0, 1, 2, 3, 8, 9, 10, 11}, length : {0, 1, 2, 125, 126, 65535, 65536, 262145},
             status : {0, 999, 1000, 1005, 4999, 5000}, reason : {<<>>, <<65>>, <<195, 169>>, <<195>>}]
Header == [type |-> "Hello", request |-> 1, channels |-> 2, frames |-> 1, payload |-> 0, flags |-> 0]
Headers == [type : WorkerTypes \cup {"other"}, request : {0, 1}, channels : {0, 2, 3, 8}, frames : {0, 1, 4096, 4097},
            payload : {0, 8, MaxPayloadBytes, MaxPayloadBytes + 1}, flags : {0, 1}]
Point(id, offset, v) == [id |-> id, offset |-> offset, value |-> v]
PointLists == {<<>>, [i \in 1..5 |-> Point(1, 0, 10)], [i \in 1..6 |-> Point(1, 0, 10)],
               [i \in 1..16 |-> Point(i, 0, 0)], [i \in 1..17 |-> Point(i, 0, 0)],
               [i \in 1..64 |-> Point(i % 16, 0, 5)], [i \in 1..65 |-> Point(i % 16, 0, 5)]}
              \cup {<<Point(1, o, v)>> : o \in {-1, 0, 1}, v \in {-1, 0, 10, 11, NaN}}
Bus(role, width) == [role |-> role, active |-> 1, reserved |-> 0, channels |-> width]
Buses == [1..MaxBuses -> {NoBus, Bus("Main", 2), Bus("Main", 6), Bus("Auxiliary", 2), Bus("Sidechain", 2),
                          Bus("Auxiliary", 8), [Bus("Main", 2) EXCEPT !.active = 0], [Bus("Main", 2) EXCEPT !.reserved = 1]}]
OutputBuses == {[i \in 1..MaxBuses |-> IF i = 1 THEN Bus("Main", 2) ELSE b] :
                  b \in {NoBus, Bus("Auxiliary", 6), Bus("Sidechain", 2)}}
Layouts == [inputs : 1..MaxBuses, outputs : 1..MaxBuses, in : Buses, out : OutputBuses]

MCValues(k) ==
    CASE k = "DriverStream" ->
           {[f |-> f, samples |-> Samples(SampleBytes(f) \div 4, finite)] : f \in Streams, finite \in BOOLEAN}
      [] k = "DriverHeader" -> [type : 0..6, request : {0, 1}]
      [] k = "EndpointState" -> States
      [] k = "TabPacket" ->
           {[f |-> f, samples |-> Samples(SampleBytes(f) \div 4, finite)] : f \in TabStreams, finite \in BOOLEAN}
      [] k = "WebSocket" -> {[f |-> f] : f \in WsFrames}
      [] k = "WorkerFrame" -> {[f |-> f, body |-> Samples(0, TRUE)] : f \in Headers}
      [] k = "WorkerAudio" ->
           {[f |-> [f EXCEPT !.payload = SampleBytes(f)], body |-> Samples(f.channels * f.frames, finite)] :
              f \in {h \in Headers : h.type \in AudioTypes}, finite \in BOOLEAN}
      [] k = "WorkerParameters" ->
           {[f |-> [Header EXCEPT !.type = "ProcessBlockWithParameters", !.payload = ParameterBytes(Header, Len(points))],
             body |-> [points |-> points, samples |-> Samples(n, finite)]] :
              points \in PointLists, n \in {2, 3}, finite \in BOOLEAN}
      [] k = "WorkerMultibus" ->
           {[f |-> [Header EXCEPT !.type = t, !.frames = n, !.payload = MultibusBytes(l, n)],
             body |-> [layout |-> l, samples |-> Samples(MultibusSamples(l, n), finite)]] :
              t \in MultibusTypes, n \in {0, 1, 2, 513}, l \in Layouts, finite \in BOOLEAN}
      [] k = "Volume" -> Volumes
      [] k = "GroupedVolume" -> [volume : Volumes, group : Texts]
      [] k = "SessionVolume" -> [handle : {0, 1}, sequence : {0, 1}, mute : {0, 1, 2}, raw : RawDbs]
      [] k = "SessionRoute" -> [handle : {0, 1}, sequence : {0, 1}, lane : Texts, group : Texts]
      [] k = "RouteRule" ->
           Changes(Rule, [schema |-> {1, 2}, enabled |-> {2}, owner |-> {1, 2}, sequence |-> {0},
                          makeup |-> RawDbs, rule |-> Texts, lane |-> Texts]) \cup
           {[Rule EXCEPT !.operation = o, !.app = a, !.name = n, !.lane = l, !.group = l] :
              o \in 0..4, a \in FewTexts, n \in FewTexts, l \in {Good, NoText}} \cup
           {[Rule EXCEPT !.operation = o, !.rule = r, !.app = NoText, !.lane = NoText, !.group = NoText] :
              o \in {Remove, Clear}, r \in Texts}
      [] k = "IrPrepare" ->
           [schema : {1, 2}, mode : {0, 3, 4}, strength : {-1, 0, 65536, 65537},
            rate : {0, 7999, 8000, 192001}, channels : {0, 8, 9}, path : FewTexts]
      [] k = "SceneCatalog" ->
           UNION {Changes(s, SceneChanges) : s \in {SceneOf(1, 0), SceneOf(2, 2), RemoveScene, ClearScene}}
      [] k = "CalibrationPeq" ->
           [schema : {1, 2}, count : 0..3, clear : {0, 1}, group : FewTexts, filters : [1..MaxFilters -> Filters]]
      [] k = "SceneApply" -> [scene : Texts, group : Texts]
      [] k = "DeviceSwitch" ->
           [endpoint : Texts, channels : {0, 2}, rate : {44100, 1}, frames : {15, 16, 4096, 4097}, sequence : {0, 1}]
      [] k = "DeviceCatalog" -> [sequence : {0, 1}, entries : UpToTwo(Devices) \cup {<<Device, Device, Device>>}]
      [] k = "ControlStatus" ->
           [sequence : {0, 1}, entries : UpToTwo(Routes),
            volume : {[requested |-> r, ceiling |-> c, effective |-> IF r < c THEN r ELSE c] : r, c \in Levels}
                     \cup {[requested |-> -1, ceiling |-> 0, effective |-> Db(1)],
                           [requested |-> NaN, ceiling |-> 0, effective |-> 0]}]
      [] k = "SessionCatalog" ->
           [sequence : {0, 1}, generation : {0, 1},
            entries : {<<>>} \cup {<<x>> : x \in Sessions(1)} \cup {<<x, y>> : x \in Sessions(1), y \in Sessions(2)}]
      [] k = "EqVisual" -> [sequence : {0, 1}, source : {1, 2, 3}, points : [1..MaxPoints -> Points]]
      [] k \in Scanned ->
           UNION {[1..n -> {31, 32, 126, 127, 128, 143, 144, 159, 160, 191, 192, 194, 223, 224, 237, 239, 240, 244, 245}] : n \in 0..3}
           \cup [1..4 -> {65, 128, 144, 191, 240, 244}]

MCKinds == {"DriverStream", "DriverHeader", "EndpointState", "TabPacket", "WebSocket", "Utf8",
            "WorkerFrame", "WorkerAudio", "WorkerParameters", "WorkerMultibus",
            "Volume", "GroupedVolume", "SessionVolume", "SessionRoute", "RouteRule", "IrPrepare",
            "SceneCatalog", "CalibrationPeq", "SceneApply", "DeviceSwitch", "DeviceCatalog",
            "ControlStatus", "SessionCatalog", "EqVisual", "Text"}

\* One byte group altered: the size, the reserved bytes, a count or a field.
MCTampered(k, w) ==
    CASE k \in Scanned -> {}
      [] k \in {"DriverStream", "DriverHeader", "EndpointState"} ->
           {[w EXCEPT !.size = @ + 4], [w EXCEPT !.declared = @ + 4], [w EXCEPT !.size = @ + 4, !.declared = @ + 4],
            [w EXCEPT !.abi = FALSE], [w EXCEPT !.f.type = 9]} \cup
           (IF k = "DriverStream"
            THEN {[w EXCEPT !.samples.finite = FALSE], [w EXCEPT !.f.frames = 2]}
                 \cup {[w EXCEPT !.f.guid = g] : g \in Guids}
            ELSE {[w EXCEPT !.f.request = 0]})
      [] k = "TabPacket" ->
           {[w EXCEPT !.magic = FALSE], [w EXCEPT !.version = 2], [w EXCEPT !.size = @ + 4],
            [w EXCEPT !.f.frames = @ + 1], [w EXCEPT !.samples.finite = FALSE]}
      [] k = "WebSocket" ->
           {[w EXCEPT !.fin = FALSE], [w EXCEPT !.rsv = 4], [w EXCEPT !.masked = FALSE]}
           \cup {[w EXCEPT !.form = b] : b \in IF w.f.length < 126 THEN {16, 64} ELSE IF w.f.length < 65536 THEN {64} ELSE {}}
      [] k \in {"WorkerFrame", "WorkerAudio", "WorkerParameters", "WorkerMultibus"} ->
           {[w EXCEPT !.magic = FALSE], [w EXCEPT !.version = 2], [w EXCEPT !.reserved = 1], [w EXCEPT !.size = @ + 4],
            [w EXCEPT !.f.frames = @ + 1], [w EXCEPT !.f.type = "other"], [w EXCEPT !.f.request = 2],
            [w EXCEPT !.size = @ - w.f.payload + MaxPayloadBytes, !.f.payload = MaxPayloadBytes],
            [w EXCEPT !.size = 37 + MaxPayloadBytes, !.f.payload = MaxPayloadBytes + 1],
            [w EXCEPT !.f.type = "ProcessBlockWithParameters"]} \cup
           (CASE k = "WorkerParameters" ->
                   {[w EXCEPT !.body.count = @ + 1], [w EXCEPT !.body.reserved = 1], [w EXCEPT !.body.samples.finite = FALSE]}
              [] k = "WorkerMultibus" ->
                   {[w EXCEPT !.body.schema = 2], [w EXCEPT !.body.reservedZero = FALSE],
                    [w EXCEPT !.body.layout.inputs = @ + 1], [w EXCEPT !.body.layout.in[1].channels = 8]}
              [] OTHER -> {[w EXCEPT !.body.finite = FALSE]})
      [] k = "EqVisual" -> {[w EXCEPT !.size = @ + 16], [w EXCEPT !.sequence = 0], [w EXCEPT !.source = 0]}
      [] k \in {"DeviceCatalog", "SessionCatalog", "ControlStatus"} ->
           {[w EXCEPT !.size = @ + 1], [w EXCEPT !.reservedZero = FALSE], [w EXCEPT !.f.sequence = 0]} \cup
           (IF k = "ControlStatus"
            THEN {[w EXCEPT !.f.volume.effective = r] : r \in RawDbs}
                 \cup {[w EXCEPT !.entries = [i \in DOMAIN @ |-> [@[i] EXCEPT !.detail = T(1, <<65, 7, 0>>)]]]}
            ELSE {})
      [] OTHER ->
           {[w EXCEPT !.size = @ + 1]} \cup
           (IF k \in {"GroupedVolume", "SceneApply"} THEN {} ELSE {[w EXCEPT !.reservedZero = FALSE]}) \cup
           (CASE k = "Volume" -> {[w EXCEPT !.f.raw = r] : r \in RawDbs} \cup {[w EXCEPT !.f.mute = 2]}
              [] k = "GroupedVolume" -> {[w EXCEPT !.f.group = t] : t \in Texts} \cup {[w EXCEPT !.f.volume.reservedZero = FALSE]}
              [] k = "SessionVolume" -> {[w EXCEPT !.f.raw = r] : r \in RawDbs}
              [] k \in {"SessionRoute", "RouteRule"} -> {[w EXCEPT !.f.lane = t] : t \in Texts}
              [] k = "IrPrepare" -> {[w EXCEPT !.f.path = t] : t \in Texts}
              [] k = "SceneCatalog" ->
                   {[w EXCEPT !.f.latency = 4], [w EXCEPT !.f.lanes[1].tail = 1], [w EXCEPT !.f.schema = 1],
                    [w EXCEPT !.f.timeline[1] = <<65, 0, 7>>], [w EXCEPT !.f.lanes[1].makeup = 13 * QuantaPerDb]}
              [] k \in {"CalibrationPeq", "SceneApply"} -> {[w EXCEPT !.f.group = t] : t \in Texts}
              [] k = "DeviceSwitch" -> {[w EXCEPT !.f.endpoint = t] : t \in Texts})

Idle == /\ kind = "none" /\ value = 0 /\ wire = [stage |-> "unwritten"]
        /\ result = [stage |-> "unread"] /\ altered = FALSE
ControlInit ==
    \/ part = "plane" /\ Init /\ Idle
    \/ part = "codec" /\ Init /\ CodecInit
ControlNext ==
    /\ \/ part = "plane" /\ Next /\ UNCHANGED codecVars
       \/ part = "codec" /\ CodecNext /\ UNCHANGED vars
    /\ UNCHANGED part
ControlSpec ==
    /\ ControlInit /\ [][ControlNext]_<<vars, codecVars, part>>
    /\ WF_vars(PopCopy) /\ WF_vars(PopRelease) /\ WF_vars(FinishStop) /\ WF_vars(WorkerNext)
===============================================================================
