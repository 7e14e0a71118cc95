---------------------------- MODULE ControlSnapshots ----------------------------
(***************************************************************************)
(* The snapshots the engine publishes for its clients and the stores that  *)
(* hold the latest one: the physical device catalog, the control status,   *)
(* the session catalog and the live EQ curve.  The wire of a snapshot is   *)
(* its header, its count and its entries; its size must agree with the     *)
(* count it declares.                                                      *)
(***************************************************************************)
EXTENDS ControlWire

Sized(header, entry, entries, fields) ==
    [size |-> header + entry * Len(entries), reservedZero |-> TRUE,
     count |-> Len(entries), entries |-> entries, f |-> fields]
SizeAgrees(p, header, entry) ==
    p.count <= MaxEntries /\ p.size = header + entry * p.count /\ p.reservedZero

(***************************************************************************)
(* The physical device catalog.                                            *)
(***************************************************************************)
DeviceEntryValid(e) ==
    /\ e.flow \in {0, 1} /\ e.availability <= 3
    /\ e.flags <= 1 /\ (e.flags = 1 => e.availability = 0)
    /\ GoodText(e.endpoint) /\ GoodText(e.name) /\ StreamFormatValid(e)
CopiedDevice(e) == [e EXCEPT !.endpoint = Copied(@), !.name = Copied(@)]
\* One entry per endpoint and at most one default per flow.
DevicesDistinct(es) ==
    \A i, j \in 1..Len(es) : i < j =>
        /\ Used(es[i].endpoint) # Used(es[j].endpoint)
        /\ ~(es[i].flags = 1 /\ es[j].flags = 1 /\ es[i].flow = es[j].flow)

encode_device_catalog_snapshot(s) ==
    IF /\ Len(s.entries) <= MaxEntries /\ s.sequence # 0
       /\ \A i \in 1..Len(s.entries) : DeviceEntryValid(s.entries[i])
       /\ DevicesDistinct(s.entries)
    THEN Sized(16, 416,
               [i \in 1..Len(s.entries) |-> CopiedDevice(s.entries[i])],
               [sequence |-> s.sequence])
    ELSE Refused

decode_device_catalog_snapshot(p) ==
    IF /\ SizeAgrees(p, 16, 416) /\ p.f.sequence # 0
       /\ \A i \in 1..p.count : /\ DeviceEntryValid(p.entries[i])
                                /\ TailZero(p.entries[i].endpoint)
                                /\ TailZero(p.entries[i].name)
       /\ DevicesDistinct(p.entries)
    THEN [sequence |-> p.f.sequence, entries |-> p.entries]
    ELSE Refused

(***************************************************************************)
(* The control status: the main volume and the health of the routes.  The  *)
(* tolerance of 0.05 dB on the effective volume is Tolerance half quanta.  *)
(***************************************************************************)
Tolerance == Db(1) \div 20
valid_volume(v) ==
    /\ Finite(v.requested) /\ Finite(v.ceiling) /\ Finite(v.effective)
    /\ {v.requested, v.ceiling, v.effective} \subseteq Db(-144)..Db(12)
    /\ v.effective <= v.requested + Tolerance
    /\ v.effective <= v.ceiling + Tolerance
\* A status text leaves at least one byte of its field unused.
StatusText(t) == GoodText(t) /\ t.n < TextCap
valid_route(r) ==
    /\ r.state <= 4 /\ r.flags <= 1
    /\ StatusText(r.id) /\ StatusText(r.name) /\ StatusText(r.detail)
CopiedRoute(r) == [r EXCEPT !.id = Copied(@), !.name = Copied(@), !.detail = Copied(@)]
RoutesDistinct(rs) ==
    \A i, j \in 1..Len(rs) : i < j => Used(rs[i].id) # Used(rs[j].id)

encode_control_status_snapshot(s) ==
    IF /\ s.sequence # 0 /\ Len(s.entries) <= MaxEntries /\ valid_volume(s.volume)
       /\ \A i \in 1..Len(s.entries) : valid_route(s.entries[i])
       /\ RoutesDistinct(s.entries)
    THEN Sized(40, 224,
               [i \in 1..Len(s.entries) |-> CopiedRoute(s.entries[i])],
               [sequence |-> s.sequence,
                volume |-> [x \in DOMAIN s.volume |-> db_to_q16_16(s.volume[x])]])
    ELSE Refused

decode_control_status_snapshot(p) ==
    LET volume == [x \in DOMAIN p.f.volume |-> q16_16_to_db(p.f.volume[x])]
    IN  IF /\ SizeAgrees(p, 40, 224) /\ p.f.sequence # 0 /\ valid_volume(volume)
           /\ \A i \in 1..p.count : /\ valid_route(p.entries[i])
                                    /\ TailZero(p.entries[i].id)
                                    /\ TailZero(p.entries[i].name)
                                    /\ TailZero(p.entries[i].detail)
           /\ RoutesDistinct(p.entries)
        THEN [sequence |-> p.f.sequence, volume |-> volume, entries |-> p.entries]
        ELSE Refused

(***************************************************************************)
(* The session catalog.  A handle is the catalog's generation and the      *)
(* position of its entry, so an old handle never names a new session.      *)
(***************************************************************************)
SessionTexts == {"name", "app", "lane", "output"}
valid_entry(e) ==
    /\ e.handle # <<0, 0>> /\ e.active <= 1 /\ e.state <= 3
    /\ e.flags <= 1 /\ (e.active = 0 => e.flags = 0) /\ e.mute <= 1
    /\ \A t \in SessionTexts : OptionalText(e[t])
    /\ e.flags = 1 => is_valid_session_volume(e.raw)
valid_handle_for_snapshot(e, generation, index) == e.handle = <<generation, index>>

SessionsValid(generation, es) ==
    \A i \in 1..Len(es) :
        /\ valid_entry(es[i]) /\ valid_handle_for_snapshot(es[i], generation, i)
        /\ \A j \in 1..i - 1 : es[j].handle # es[i].handle

encode_session_catalog_snapshot(s) ==
    IF /\ s.sequence # 0 /\ s.generation # 0 /\ Len(s.entries) <= MaxEntries
       /\ SessionsValid(s.generation, s.entries)
    THEN Sized(24, 256, s.entries, [sequence |-> s.sequence, generation |-> s.generation])
    ELSE Refused

decode_session_catalog_snapshot(p) ==
    IF /\ SizeAgrees(p, 24, 256) /\ p.f.sequence # 0 /\ p.f.generation # 0
       /\ SessionsValid(p.f.generation, p.entries)
    THEN [sequence |-> p.f.sequence, generation |-> p.f.generation, entries |-> p.entries]
    ELSE Refused

(***************************************************************************)
(* The EQ curve: at least MinPoints (frequency, gain) pairs, in increasing *)
(* frequency, in an array padded with zero pairs.                          *)
(***************************************************************************)
ZeroPoint == <<0, 0>>
PointValid(q) == q[1] >= 20 /\ q[1] <= 20000 /\ q[2] \in -24..24
\* The points before the first all-zero pair.
PointCount(ps) ==
    CHOOSE n \in 0..MaxPoints : /\ n = MaxPoints \/ ps[n + 1] = ZeroPoint
                                /\ \A i \in 1..n : ps[i] # ZeroPoint

encode_eq_visual_snapshot(s) ==
    LET n == PointCount(s.points)
    IN  IF /\ s.sequence # 0 /\ s.source \in {1, 2}
           /\ \A i \in 1..n : PointValid(s.points[i])
           /\ \A i \in 2..n : s.points[i - 1][1] < s.points[i][1]
           /\ \A i \in n + 1..MaxPoints : s.points[i] = ZeroPoint
           /\ n >= MinPoints
        THEN [size |-> 10 + 16 * n, sequence |-> s.sequence, source |-> s.source,
              count |-> n, points |-> SubSeq(s.points, 1, n)]
        ELSE Refused

decode_eq_visual_snapshot(p) ==
    IF /\ p.size <= 10 + 16 * MaxPoints /\ p.size = 10 + 16 * p.count
       /\ p.sequence # 0 /\ p.source \in {1, 2} /\ p.count >= MinPoints
       /\ \A i \in 1..p.count : PointValid(p.points[i])
       /\ \A i \in 2..p.count : p.points[i - 1][1] < p.points[i][1]
    THEN [sequence |-> p.sequence, source |-> p.source,
          points |-> [i \in 1..MaxPoints |-> IF i <= p.count THEN p.points[i] ELSE ZeroPoint]]
    ELSE Refused

(***************************************************************************)
(* A snapshot store holds the last payload published; only a valid         *)
(* snapshot with a larger sequence replaces it.                            *)
(***************************************************************************)
EmptyStore == [payload |-> Refused, sequence |-> 0]
has_snapshot(store) == store.payload # Refused
Publishable(store, payload, sequence) ==
    payload # Refused /\ (has_snapshot(store) => sequence > store.sequence)
Publish(store, payload, sequence) ==
    IF Publishable(store, payload, sequence)
    THEN [payload |-> payload, sequence |-> sequence] ELSE store
=============================================================================
