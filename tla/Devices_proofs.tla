----------------------------- MODULE Devices_proofs ----------------------------
(***************************************************************************)
(* Theorems about the devices below the engine: of the virtual driver the  *)
(* clock of a WaveRT stream and its calls (WaveRtStream), the ring of a    *)
(* render pin (PinRing) and the volume of an endpoint (DriverVolume), and  *)
(* the catalog of the physical endpoints (DeviceCatalog); for buffers and  *)
(* rings of any size, any calls at any times, any levels, any number of    *)
(* changes and restarts, any fate of the packets, and any endpoints.       *)
(***************************************************************************)
EXTENDS WaveRtStream, PinRing, DriverVolume, DeviceCatalog, FiniteSetTheorems, TLAPS

-------------------------------------------------------------------------------
(* The stream.  A call of PortCls takes several steps, and so does the DPC; *)
(* the invariant says for each of their places which of pin, clock, timer   *)
(* and rundown agree there.                                                 *)

Inside == dpc \in {"inside", "signal", "leaving"}
Starting == call.at \in {"start", "reopen", "timer"}
Stopping == call.at \in {"exchange", "cancel", "wait", "stopped"}

StreamTypeOK ==
  /\ now \in Nat /\ played \in Nat
  /\ pin \in [state : {"stop", "acquire", "pause", "run"}, buffer : {0, BufferBytes},
              notifications : 0..2]
  /\ position \in [active : BOOLEAN, start : Nat, base : Nat, boundary : Nat, total : Nat]
  /\ timer \in [set : BOOLEAN, queued : BOOLEAN]
  /\ rundown \in {"open", "closing", "closed"}
  /\ dpc \in {"none", "entering", "inside", "signal", "leaving"}
  /\ call \in [at : {"none", "start", "reopen", "timer", "exchange", "cancel", "wait", "stopped"},
               to : {"none", "stop", "acquire", "pause", "run", "free"}, wasActive : BOOLEAN]

\* Where a call of PortCls is, and what that says of the stream.
CallInv ==
  /\ call.at = "none" => call = NoCall
  /\ Starting => pin.state = "run"
  /\ Stopping => call.to \in {"stop", "pause", "free"}
  /\ Stopping /\ call.to # "pause" => pin.state # "run"
  /\ pin.state = "run" => pin.buffer # 0

\* When the clock goes and its timer is set.
ClockInv ==
  /\ position.active => pin.state = "run"
  /\ call.at \in {"none", "exchange"} /\ pin.state = "run" => position.active
  /\ call.at \in {"none", "exchange"} => (position.active <=> timer.set)
  /\ call.at = "timer" => position.active
  /\ call.at \in {"start", "reopen"} => ~position.active /\ ~timer.set
  /\ call.at \in {"cancel", "wait", "stopped"} => ~position.active
  /\ call.at \in {"wait", "stopped"} => ~timer.set
  /\ call.at = "cancel" /\ call.wasActive => pin.state = "run"

\* The rundown protection is open while the clock goes and until the timer is
\* cancelled; it closes only when no DPC is inside.
RundownInv ==
  /\ rundown = "open" <=> position.active \/ (call.at = "cancel" /\ call.wasActive)
  /\ rundown = "closing" <=> call.at = "wait"
  /\ Inside => rundown # "closed" /\ pin.buffer # 0

\* The time a going clock has measured was spent in RUN.
PlayedInv ==
  /\ position.total <= played
  /\ position.active \/ call.at = "reopen" =>
       position.start <= now /\ position.base + now - position.start <= played

StreamIInv == StreamTypeOK /\ CallInv /\ ClockInv /\ RundownInv /\ PlayedInv

\* Boundaries are numbered by naturals.
LEMMA BoundaryType ==
  ASSUME pin \in [state : {"stop", "acquire", "pause", "run"}, buffer : {0, BufferBytes},
                  notifications : 0..2],
         NEW total \in Nat
  PROVE  NotificationBoundaryLocked(total) \in Nat
<1>1. total \div BufferBytes \in Nat
  BY WaveRtAssumption
<1>2. pin.notifications \in {0, 1, 2}
  OBVIOUS
<1> QED
  BY <1>1, <1>2 DEF NotificationBoundaryLocked

LEMMA StreamInitIInv == StreamInit => StreamIInv
BY DEF StreamInit, StreamIInv, StreamTypeOK, CallInv, ClockInv, RundownInv, PlayedInv, Inside,
       Starting, Stopping, AtRest, NoCall

\* The position moves forward to what the clock has measured.
LEMMA UpdateKeeps ==
  ASSUME StreamIInv
  PROVE  /\ UpdatePositionLocked \in [active : BOOLEAN, start : Nat, base : Nat, boundary : Nat,
                                      total : Nat]
         /\ UpdatePositionLocked.active = position.active
         /\ UpdatePositionLocked.start = position.start
         /\ UpdatePositionLocked.base = position.base
         /\ UpdatePositionLocked.total <= played
<1> USE DEF StreamIInv, StreamTypeOK
<1>1. CASE ~Moves
  BY <1>1 DEF UpdatePositionLocked, PlayedInv
<1>2. CASE Moves
  <2>1. position.active /\ Elapsed \in Nat /\ Elapsed <= played
    BY <1>2 DEF Moves, Elapsed, PlayedInv
  <2>2. NotificationBoundaryLocked(Elapsed) \in Nat
    BY <2>1, BoundaryType
  <2> HIDE DEF Elapsed
  <2> QED
    BY <1>2, <2>1, <2>2 DEF UpdatePositionLocked
<1> QED
  BY <1>1, <1>2

LEMMA TickKeeps == StreamIInv /\ Tick => StreamIInv'
<1> SUFFICES ASSUME StreamIInv, Tick PROVE StreamIInv'
  OBVIOUS
<1>1. StreamTypeOK'
  BY DEF StreamIInv, StreamTypeOK, Tick
<1>2. CallInv' /\ ClockInv' /\ RundownInv'
  BY DEF StreamIInv, Tick, CallInv, ClockInv, RundownInv, Inside, Starting, Stopping
<1>3. PlayedInv'
  <2>1. now' = now + 1 /\ UNCHANGED <<position, call>>
    BY DEF Tick
  <2>2. played' = played + 1 \/ (played' = played /\ ~position.active /\ call.at # "reopen")
    BY DEF StreamIInv, Tick, CallInv, ClockInv, Starting
  <2> QED
    BY <2>1, <2>2 DEF StreamIInv, StreamTypeOK, PlayedInv
<1> QED
  BY <1>1, <1>2, <1>3 DEF StreamIInv

LEMMA DpcKeeps == StreamIInv /\ (Expire \/ Dpc) => StreamIInv'
<1> USE DEF StreamIInv, StreamTypeOK, CallInv, ClockInv, RundownInv, PlayedInv, Inside, Starting, Stopping
<1>1. ASSUME StreamIInv, Expire PROVE StreamIInv'
  <2>1. StreamTypeOK'
    BY <1>1 DEF Expire
  <2>2. CallInv' /\ RundownInv' /\ PlayedInv'
    BY <1>1 DEF Expire
  <2>3. ClockInv'
    BY <1>1 DEF Expire
  <2> QED
    BY <2>1, <2>2, <2>3
<1>2. ASSUME StreamIInv, PositionTimerDpc PROVE StreamIInv'
  <2>1. /\ dpc' = "entering" /\ timer' = [timer EXCEPT !.queued = FALSE]
        /\ UNCHANGED <<now, pin, position, rundown, call, played>>
    BY <1>2 DEF PositionTimerDpc
  <2>2. timer' \in [set : BOOLEAN, queued : BOOLEAN] /\ timer'.set = timer.set
    BY <1>2, <2>1
  <2> QED
    BY <1>2, <2>1, <2>2
<1>3. ASSUME StreamIInv, AcquireRundown PROVE StreamIInv'
  BY <1>3 DEF AcquireRundown
<1>4. ASSUME StreamIInv, DpcUpdates PROVE StreamIInv'
  BY <1>4, UpdateKeeps DEF DpcUpdates
<1>5. ASSUME StreamIInv, SignalNotificationEventsAtDpc PROVE StreamIInv'
  BY <1>5 DEF SignalNotificationEventsAtDpc
<1>6. ASSUME StreamIInv, ReleaseRundown PROVE StreamIInv'
  BY <1>6 DEF ReleaseRundown
<1> QED
  BY <1>1, <1>2, <1>3, <1>4, <1>5, <1>6 DEF Dpc

LEMMA ClientsKeep ==
  ASSUME StreamIInv,
         \/ GetPosition
         \/ \E e \in Events : RegisterNotificationEvent(e) \/ UnregisterNotificationEvent(e) \/ Wake(e)
  PROVE  StreamIInv'
<1> USE DEF StreamIInv, StreamTypeOK, CallInv, ClockInv, RundownInv, PlayedInv, Inside, Starting, Stopping
<1>1. CASE GetPosition
  BY <1>1, UpdateKeeps DEF GetPosition
<1>2. CASE UNCHANGED <<now, pin, position, timer, rundown, dpc, call, played>>
  BY <1>2
<1> QED
  BY <1>1, <1>2 DEF RegisterNotificationEvent, UnregisterNotificationEvent, Wake

LEMMA CallsKeep == StreamIInv /\ PortCls => StreamIInv'
<1> USE WaveRtAssumption DEF StreamIInv, StreamTypeOK, CallInv, ClockInv, RundownInv, PlayedInv, Inside, Starting, Stopping, Called, NoCall
<1>1. ASSUME StreamIInv, AllocateBuffer PROVE StreamIInv'
  <2>1. /\ call = NoCall /\ call' = call /\ ~position.active /\ pin.state # "run"
        /\ position' = [AtRest EXCEPT !.active = FALSE]
        /\ UNCHANGED <<now, timer, rundown, dpc>> /\ played' = 0
    BY <1>1 DEF AllocateBuffer
  <2>2. PICK n \in 0..2 : pin' = [pin EXCEPT !.buffer = BufferBytes, !.notifications = n]
    BY <1>1 DEF AllocateBuffer
  <2>3. /\ position'.active = FALSE /\ position'.total = 0
        /\ position' \in [active : BOOLEAN, start : Nat, base : Nat, boundary : Nat, total : Nat]
    BY <2>1 DEF AtRest
  <2>4. StreamTypeOK'
    BY <1>1, <2>1, <2>2, <2>3
  <2>5. pin'.state = pin.state /\ pin'.buffer = BufferBytes
    BY <2>2
  <2>6. CallInv' /\ ClockInv' /\ RundownInv' /\ PlayedInv'
    BY <1>1, <2>1, <2>3, <2>5
  <2> QED
    BY <2>4, <2>6
<1>2. ASSUME StreamIInv, FreeBuffer PROVE StreamIInv'
  BY <1>2 DEF FreeBuffer
<1>3. ASSUME StreamIInv, NEW to \in {"stop", "acquire", "pause", "run"}, SetState(to) PROVE StreamIInv'
  <2>1. /\ call = NoCall /\ UNCHANGED <<now, timer, rundown, dpc, played, position>>
        /\ Allowed(pin.state, to)
    BY <1>3 DEF SetState
  <2>2. CASE /\ to = "stop" \/ (to = "pause" /\ pin.state = "run")
             /\ call' = [at |-> "exchange", to |-> to, wasActive |-> FALSE] /\ pin' = pin
    <3>1. to = "stop" => pin.state # "run"
      BY <2>1 DEF Allowed
    <3> QED
      BY <1>3, <2>1, <2>2, <3>1
  <2>3. CASE /\ to \in {"acquire", "pause"} /\ pin.state # "run"
             /\ pin' = [pin EXCEPT !.state = to] /\ call' = call
    BY <1>3, <2>1, <2>3
  <2>4. CASE /\ to = "run" /\ pin.buffer # 0 /\ pin.state # "run"
             /\ pin' = [pin EXCEPT !.state = "run"]
             /\ call' = [at |-> "start", to |-> to, wasActive |-> FALSE]
    BY <1>3, <2>1, <2>4
  <2> QED
    BY <1>3, <2>2, <2>3, <2>4 DEF SetState
<1> QED
  BY <1>1, <1>2, <1>3 DEF PortCls

LEMMA ProceedKeeps == StreamIInv /\ Proceed => StreamIInv'
<1> USE WaveRtAssumption DEF StreamIInv, StreamTypeOK, CallInv, ClockInv, RundownInv, PlayedInv, Inside, Starting, Stopping, NoCall
<1>1. ASSUME StreamIInv, StartClock PROVE StreamIInv'
  <2>1. /\ call.at = "start" /\ ~position.active /\ call' = [call EXCEPT !.at = "reopen"]
        /\ position' = [position EXCEPT !.start = now, !.base = position.total,
                           !.boundary = NotificationBoundaryLocked(position.total)]
        /\ UNCHANGED <<now, pin, timer, rundown, dpc, played>>
    BY <1>1 DEF StartClock
  <2>2. NotificationBoundaryLocked(position.total) \in Nat
    BY <1>1, BoundaryType
  <2>3. StreamTypeOK'
    BY <1>1, <2>1, <2>2
  <2>4. /\ position'.active = FALSE /\ position'.start = now /\ position'.base = position.total
        /\ position'.total = position.total /\ call'.at = "reopen"
    BY <1>1, <2>1
  <2> QED
    BY <1>1, <2>1, <2>3, <2>4
<1>2. ASSUME StreamIInv, Activate PROVE StreamIInv'
  BY <1>2 DEF Activate
<1>3. ASSUME StreamIInv, SetTimer PROVE StreamIInv'
  BY <1>3 DEF SetTimer
<1>4. ASSUME StreamIInv, Exchange PROVE StreamIInv'
  BY <1>4 DEF Exchange
<1>5. ASSUME StreamIInv, CancelTimer PROVE StreamIInv'
  BY <1>5 DEF CancelTimer
<1>6. ASSUME StreamIInv, WaitForDpc PROVE StreamIInv'
  BY <1>6 DEF WaitForDpc
<1>7. ASSUME StreamIInv, Stopped PROVE StreamIInv'
  <2>1. call.at = "stopped" /\ call' = NoCall /\ UNCHANGED <<now, timer, rundown, dpc>>
    BY <1>7 DEF Stopped
  <2>2. /\ ~position.active /\ ~timer.set /\ rundown = "closed"
        /\ call.to \in {"stop", "pause", "free"}
    BY <1>7, <2>1
  <2>3. /\ pin' \in [state : {"stop", "acquire", "pause", "run"}, buffer : {0, BufferBytes},
                      notifications : 0..2]
        /\ pin'.state # "run"
    <3>1. CASE call.to = "free" /\ pin' = [pin EXCEPT !.buffer = 0, !.notifications = 0]
      <4>1. pin.state # "run"
        BY <1>7, <2>1, <3>1
      <4>2. pin \in [state : {"stop", "acquire", "pause", "run"}, buffer : {0, BufferBytes},
                     notifications : 0..2]
        BY <1>7
      <4>3. pin' = [state |-> pin.state, buffer |-> 0, notifications |-> 0]
        BY ONLY <3>1, <4>2
      <4> QED
        BY ONLY <4>1, <4>2, <4>3
    <3>2. CASE call.to # "free" /\ pin' = [pin EXCEPT !.state = call.to]
      BY <1>7, <2>2, <3>2
    <3> QED
      BY <1>7, <3>1, <3>2 DEF Stopped
  <2>4. \/ position' = position /\ played' = played
        \/ position' = AtRest /\ played' = 0
    BY <1>7 DEF Stopped
  <2>5. /\ position' \in [active : BOOLEAN, start : Nat, base : Nat, boundary : Nat, total : Nat]
        /\ ~position'.active /\ played' \in Nat /\ position'.total <= played'
    <3>1. /\ AtRest \in [active : BOOLEAN, start : Nat, base : Nat, boundary : Nat, total : Nat]
          /\ ~AtRest.active /\ AtRest.total = 0
      BY DEF AtRest
    <3> QED
      BY <1>7, <2>2, <2>4, <3>1
  <2> QED
    BY <1>7, <2>1, <2>2, <2>3, <2>5
<1> QED
  BY <1>1, <1>2, <1>3, <1>4, <1>5, <1>6, <1>7 DEF Proceed

LEMMA StreamNextKeeps == StreamIInv /\ [StreamNext]_streamVars => StreamIInv'
<1>1. StreamIInv /\ UNCHANGED streamVars => StreamIInv'
  BY DEF streamVars, StreamIInv, StreamTypeOK, CallInv, ClockInv, RundownInv, PlayedInv, Inside,
         Starting, Stopping
<1> QED
  BY <1>1, TickKeeps, DpcKeeps, ClientsKeep, CallsKeep, ProceedKeeps DEF StreamNext

\* Whenever PortCls stops, pauses or frees a stream and wherever its DPC is then, no DPC is
\* inside a stream whose buffer is gone, the position counts no time but that of RUN, and
\* the timer runs exactly in RUN (hibiki_miniport_wavert.cpp:205-242, 637-682).
THEOREM StreamKeepsTime == StreamSpec => []StreamClock
<1>1. StreamIInv => StreamClock
  <2> SUFFICES ASSUME StreamIInv PROVE StreamClock
    OBVIOUS
  <2>1. QuietOnceStopped
    BY DEF StreamIInv, StreamTypeOK, ClockInv, RundownInv, Inside, QuietOnceStopped
  <2>2. PositionIsPlayed
    BY DEF StreamIInv, PlayedInv, PositionIsPlayed
  <2>3. RunsIffTimed
    BY DEF StreamIInv, StreamTypeOK, ClockInv, NoCall, RunsIffTimed
  <2> QED
    BY <2>1, <2>2, <2>3 DEF StreamClock
<1>2. StreamSpec => []StreamIInv
  BY StreamInitIInv, StreamNextKeeps, PTL DEF StreamSpec
<1> QED
  BY <1>1, <1>2, PTL

-------------------------------------------------------------------------------
(* The ring of a pin.  Remainders first, for the ring and for the names.    *)

LEMMA Divided ==
  ASSUME NEW a \in Int, NEW m \in Nat \ {0}
  PROVE  /\ a = (m * (a \div m)) + (a % m)
         /\ a % m \in 0..m - 1 /\ a \div m \in Int
OBVIOUS

\* A remainder is known by any quotient it goes with.
LEMMA Remainder ==
  ASSUME NEW m \in Nat \ {0}, NEW q \in Int, NEW r \in 0..m - 1, NEW a \in Int, a = m * q + r
  PROVE  a % m = r
<1> DEFINE d == q - (a \div m)
<1>1. a = (m * (a \div m)) + (a % m) /\ a % m \in 0..m - 1 /\ a \div m \in Int
  BY Divided
<1>2. d \in Int /\ m * d = (a % m) - r
  BY <1>1
<1> HIDE DEF d
<1>3. d < 1
  <2>1. d >= 1 => m * d >= m
    BY <1>2
  <2> QED
    BY <1>1, <1>2, <2>1
<1>4. d > -1
  <2>1. d <= -1 => m * d <= -m
    BY <1>2
  <2> QED
    BY <1>1, <1>2, <2>1
<1>5. d = 0
  BY <1>2, <1>3, <1>4
<1> QED
  BY <1>1, <1>2, <1>5

LEMMA ModPlus ==
  ASSUME NEW m \in Nat \ {0}, NEW a \in Int, NEW b \in Int
  PROVE  ((a % m) + b) % m = (a + b) % m
<1> DEFINE p == a \div m
           q == (a + b) \div m
           r == (a + b) % m
<1>1. a = m * p + (a % m) /\ p \in Int /\ a % m \in Int
  BY Divided
<1>2. a + b = m * q + r /\ q \in Int /\ r \in 0..m - 1
  BY Divided
<1> HIDE DEF p, q, r
<1> DEFINE x == (a % m) + b
           w == q - p
<1>3. x \in Int /\ w \in Int /\ x = m * w + r
  BY <1>1, <1>2
<1> HIDE DEF x, w
<1>4. x % m = r
  BY <1>2, <1>3, Remainder
<1> QED
  BY <1>4 DEF x, r

LEMMA ModMinus ==
  ASSUME NEW m \in Nat \ {0}, NEW a \in Int, NEW b \in Int
  PROVE  ((a % m) - (b % m)) % m = (a - b) % m
<1> DEFINE p == a \div m
           s == b \div m
           q == (a - b) \div m
           r == (a - b) % m
<1>1. a = m * p + (a % m) /\ p \in Int /\ a % m \in Int
  BY Divided
<1>2. b = m * s + (b % m) /\ s \in Int /\ b % m \in Int
  BY Divided
<1>3. a - b = m * q + r /\ q \in Int /\ r \in 0..m - 1
  BY Divided
<1> HIDE DEF p, q, r, s
<1> DEFINE x == (a % m) - (b % m)
           w == q - p + s
<1>4. x \in Int /\ w \in Int /\ x = m * w + r
  BY <1>1, <1>2, <1>3
<1> HIDE DEF x, w
<1>5. x % m = r
  BY <1>3, <1>4, Remainder
<1> QED
  BY <1>5 DEF x, r

LEMMA ModSmall ==
  ASSUME NEW m \in Nat \ {0}, NEW a \in 0..m - 1
  PROVE  a % m = a
BY Remainder

\* How far apart two places of a ring are.
LEMMA Apart ==
  ASSUME NEW m \in Nat \ {0}, NEW first \in Int, NEW held \in 0..m, NEW k \in 0..m - 1
  PROVE  (((first + k) % m) - ((first + held) % m)) % m
           = IF k >= held THEN k - held ELSE m + k - held
<1>1. (((first + k) % m) - ((first + held) % m)) % m = (k - held) % m
  <2> DEFINE a == first + k
             b == first + held
  <2>1. a \in Int /\ b \in Int /\ a - b = k - held
    OBVIOUS
  <2>2. ((a % m) - (b % m)) % m = (a - b) % m
    <3> HIDE DEF a, b
    <3> QED
      BY <2>1, ModMinus
  <2> QED
    BY <2>1, <2>2
<1>2. CASE k >= held
  <2>1. k - held \in 0..m - 1
    BY <1>2
  <2> QED
    BY <1>1, <1>2, <2>1, ModSmall
<1>3. CASE k < held
  <2> DEFINE x == k - held
             r == m + k - held
             w == -1
  <2>1. x \in Int /\ w \in Int /\ r \in 0..m - 1 /\ x = m * w + r
    BY <1>3
  <2> HIDE DEF x, r, w
  <2>2. x % m = r
    BY <2>1, Remainder
  <2> QED
    BY <1>1, <1>3, <2>2 DEF x, r
<1> QED
  BY <1>2, <1>3

\* The ring holds the frames after the last one read, up to the last one accepted.
PinIInv ==
  /\ pinRing \in [read : 0..RingFramesOfPin - 1, write : 0..RingFramesOfPin - 1,
                  available : 0..RingFramesOfPin]
  /\ DOMAIN storage = 0..RingFramesOfPin - 1
  /\ sent \in 1..FrameNames /\ taken \in 1..FrameNames
  /\ pinRing.write = (pinRing.read + pinRing.available) % RingFramesOfPin
  /\ \A k \in 0..pinRing.available - 1 :
       storage[(pinRing.read + k) % RingFramesOfPin] = Named(taken + k + 1)
  /\ PinDeliversInOrder

LEMMA NamedPlus ==
  ASSUME NEW a \in Int, NEW b \in Int
  PROVE  /\ Named(a) \in 1..FrameNames
         /\ Named(Named(a) + b) = Named(a + b)
         /\ a \in 1..FrameNames => Named(a) = a
         /\ Named(a + FrameNames) = Named(a)
<1>1. FrameNames \in Nat \ {0} /\ a - 1 \in Int
  BY PinRingAssumption
<1>2. (a - 1) % FrameNames \in 0..FrameNames - 1
  BY <1>1, Divided
<1>3. (((a - 1) % FrameNames) + b) % FrameNames = (a - 1 + b) % FrameNames
  BY <1>1, ModPlus
<1>4. a \in 1..FrameNames => (a - 1) % FrameNames = a - 1
  BY <1>1, ModSmall
<1>5. (a - 1 + FrameNames) % FrameNames = (a - 1) % FrameNames
  <2> DEFINE q == (a - 1) \div FrameNames
             r == (a - 1) % FrameNames
  <2>1. a - 1 = FrameNames * q + r /\ q \in Int /\ r \in 0..FrameNames - 1
    BY <1>1, Divided
  <2> HIDE DEF q, r
  <2> DEFINE x == a - 1 + FrameNames
             w == q + 1
  <2>2. x \in Int /\ w \in Int /\ x = FrameNames * w + r
    BY <1>1, <2>1
  <2> HIDE DEF x, w
  <2>3. x % FrameNames = r
    BY <1>1, <2>1, <2>2, Remainder
  <2> QED
    BY <2>3 DEF x, r
<1>6. /\ ((((a - 1) % FrameNames) + 1 + b) - 1) = (((a - 1) % FrameNames) + b)
      /\ a + b - 1 = a - 1 + b /\ a + FrameNames - 1 = a - 1 + FrameNames
  BY <1>1, <1>2
<1> QED
  BY <1>1, <1>2, <1>3, <1>4, <1>5, <1>6 DEF Named

LEMMA PinInitIInv == PinInit => PinIInv
<1> SUFFICES ASSUME PinInit PROVE PinIInv
  OBVIOUS
<1> DEFINE R == RingFramesOfPin
<1>1. R \in Nat \ {0} /\ FrameNames \in Nat /\ FrameNames > 0
  BY PinRingAssumption
<1>2. 0 % R = 0 /\ Named(FrameNames) = FrameNames
  BY <1>1, ModSmall, NamedPlus
<1>3. DOMAIN heard = {}
  BY DEF PinInit
<1> QED
  BY <1>1, <1>2, <1>3 DEF PinInit, PinIInv, EmptyRing, PinDeliversInOrder

\* The frames submitted follow those the ring holds.
LEMMA SubmitKeeps ==
  ASSUME PinIInv, NEW frames \in 1..RingFramesOfPin + 1, SubmitRender(frames)
  PROVE  PinIInv'
<1> DEFINE R == RingFramesOfPin
           read == pinRing.read
           held == pinRing.available
<1>1. R \in Nat \ {0} /\ read \in 0..R - 1 /\ held \in 0..R
  BY PinRingAssumption DEF PinIInv
<1>2. /\ frames <= R - held /\ UNCHANGED <<heard, taken>> /\ sent' = Named(sent + frames)
      /\ storage' = [i \in DOMAIN storage |->
                       LET k == (i - pinRing.write) % R
                       IN  IF k < frames THEN Named(sent + k + 1) ELSE storage[i]]
  BY DEF SubmitRender
<1>3. /\ pinRing.write = (read + held) % R /\ DOMAIN storage = 0..R - 1
      /\ \A k \in 0..held - 1 : storage[(read + k) % R] = Named(taken + k + 1)
      /\ sent \in 1..FrameNames /\ taken \in 1..FrameNames /\ Named(taken + held) = sent
      /\ FrameNames \in Nat
  BY PinRingAssumption DEF PinIInv, PinDeliversInOrder
<1>4. pinRing' = [read |-> read, write |-> (pinRing.write + frames) % R, available |-> held + frames]
  BY DEF PinIInv, SubmitRender
<1> HIDE DEF R, read, held
<1>5. frames \in Int /\ frames + held \in 0..R /\ read + held \in Int
  BY <1>1, <1>2 DEF R
<1>6. pinRing'.write = (read + (held + frames)) % R
  <2> DEFINE a == read + held
  <2>1. a \in Int /\ a + frames = read + (held + frames)
    BY <1>1, <1>5
  <2>2. ((a % R) + frames) % R = (a + frames) % R
    <3> HIDE DEF a
    <3> QED
      BY <1>1, <1>5, <2>1, ModPlus
  <2> QED
    BY <1>3, <1>4, <2>1, <2>2
<1>7. pinRing' \in [read : 0..R - 1, write : 0..R - 1, available : 0..R]
  <2>1. (pinRing.write + frames) % R \in 0..R - 1
    <3>1. read + (held + frames) \in Int
      BY <1>1, <1>5
    <3>2. (read + (held + frames)) % R \in 0..R - 1
      BY <1>1, <3>1, Divided
    <3> QED
      BY <1>4, <1>6, <3>2
  <2> QED
    BY <1>1, <1>4, <1>5, <2>1
<1>8. ASSUME NEW b \in Int PROVE Named(sent + b) = Named(taken + held + b)
  <2>1. taken + held \in Int
    BY <1>1, <1>3
  <2> QED
    BY <1>3, <2>1, NamedPlus
<1>9. sent' \in 1..FrameNames /\ Named(taken' + pinRing'.available) = sent'
  <2>1. sent + frames \in Int /\ taken + held + frames = taken + (held + frames)
    BY <1>1, <1>3, <1>5
  <2>2. Named(sent + frames) \in 1..FrameNames
    BY <2>1, NamedPlus
  <2>3. Named(sent + frames) = Named(taken + held + frames)
    BY <1>5, <1>8
  <2>4. pinRing'.available = held + frames /\ taken' = taken /\ sent' = Named(sent + frames)
    BY <1>2, <1>4
  <2>5. taken' + pinRing'.available = taken + held + frames
    BY <2>1, <2>4
  <2> QED
    BY <2>2, <2>3, <2>4, <2>5
<1>10. ASSUME NEW k \in 0..held + frames - 1
       PROVE  storage'[(read + k) % R] = Named(taken + k + 1)
  <2> DEFINE i == (read + k) % R
             place == (i - pinRing.write) % R
  <2>1. i \in 0..R - 1
    <3>1. read + k \in Int
      BY <1>1
    <3> QED
      BY <1>1, <3>1, Divided
  <2>2. storage'[i] = IF place < frames THEN Named(sent + place + 1) ELSE storage[i]
    BY <1>2, <1>3, <2>1
  <2>3. place = IF k >= held THEN k - held ELSE R + k - held
    <3>1. k \in 0..R - 1 /\ read \in Int /\ R \in Nat \ {0} /\ held \in 0..R
      BY <1>1, <1>5
    <3>2. (((read + k) % R) - ((read + held) % R)) % R = IF k >= held THEN k - held ELSE R + k - held
      BY <3>1, Apart
    <3> QED
      BY <1>3, <3>2
  <2> HIDE DEF i, place
  <2>4. CASE k >= held
    <3>1. place = k - held /\ place < frames /\ place + 1 \in Int
      BY <1>1, <1>5, <2>3, <2>4
    <3>2. Named(sent + (place + 1)) = Named(taken + held + (place + 1))
      BY <1>8, <3>1
    <3>3. sent + (place + 1) = sent + place + 1 /\ taken + held + (place + 1) = taken + k + 1
      BY <1>1, <1>3, <3>1
    <3> QED
      BY <2>2, <3>1, <3>2, <3>3 DEF i
  <2>5. CASE k < held
    <3>1. ~(place < frames) /\ k \in 0..held - 1
      BY <1>1, <1>5, <2>3, <2>5
    <3> QED
      BY <1>3, <2>2, <3>1 DEF i
  <2> QED
    BY <1>1, <2>4, <2>5
<1>11. DOMAIN storage' = 0..R - 1
  BY <1>2, <1>3
<1>12. PinDeliversInOrder'
  BY <1>2, <1>9 DEF PinIInv, PinDeliversInOrder
<1>13. /\ pinRing'.read = read /\ pinRing'.available = held + frames
  BY <1>4
<1>14. ASSUME NEW k \in 0..pinRing'.available - 1
       PROVE  storage'[(pinRing'.read + k) % R] = Named(taken' + k + 1)
  <2>1. k \in 0..held + frames - 1
    BY <1>1, <1>5, <1>13
  <2>2. storage'[(read + k) % R] = Named(taken + k + 1)
    BY <1>10, <2>1
  <2>3. taken' = taken
    BY <1>2
  <2> QED
    BY <1>13, <2>2, <2>3
<1> QED
  BY <1>2, <1>3, <1>6, <1>7, <1>9, <1>11, <1>12, <1>13, <1>14 DEF PinIInv, R

\* What is read is the oldest, and the rest stays.
LEMMA ReadKeeps ==
  ASSUME PinIInv, NEW frames \in 1..RingFramesOfPin + 1, ReadRender(frames)
  PROVE  PinIInv'
<1> DEFINE R == RingFramesOfPin
           read == pinRing.read
           held == pinRing.available
           copied == IF held < frames THEN held ELSE frames
<1>1. /\ R \in Nat \ {0} /\ read \in 0..R - 1 /\ held \in 0..R /\ copied \in 0..held
      /\ copied <= frames /\ taken \in 1..FrameNames /\ FrameNames \in Nat
  BY PinRingAssumption DEF PinIInv
<1>2. /\ taken' = Named(taken + copied) /\ UNCHANGED <<storage, sent>>
      /\ heard' = [i \in 1..frames |-> IF i <= copied THEN storage[(read + i - 1) % R] ELSE 0]
  BY DEF ReadRender
<1>3. pinRing' = [read |-> (read + copied) % R, write |-> pinRing.write, available |-> held - copied]
  BY DEF PinIInv, ReadRender
<1>4. (read + copied) % R \in 0..R - 1
  <2>1. read + copied \in Int
    BY <1>1
  <2> QED
    BY <1>1, <2>1, Divided
<1>20. pinRing.write = (read + held) % R /\ Named(taken + held) = sent
       /\ DOMAIN storage = 0..R - 1 /\ pinRing.write \in 0..R - 1 /\ sent \in 1..FrameNames
       /\ \A k \in 0..held - 1 : storage[(read + k) % R] = Named(taken + k + 1)
  BY DEF PinIInv, PinDeliversInOrder
<1> HIDE DEF copied, R, read, held
<1>5. pinRing' \in [read : 0..R - 1, write : 0..R - 1, available : 0..R]
  BY <1>1, <1>3, <1>4, <1>20
<1>6. ASSUME NEW b \in Int PROVE (((read + copied) % R) + b) % R = (read + copied + b) % R
  <2>1. read + copied \in Int
    BY <1>1
  <2> QED
    BY <1>1, <2>1, ModPlus
<1>7. ASSUME NEW b \in Int PROVE Named(taken' + b) = Named(taken + copied + b)
  <2>1. taken + copied \in Int
    BY <1>1
  <2> QED
    BY <1>1, <1>2, <2>1, NamedPlus
<1>8. pinRing'.write = (pinRing'.read + pinRing'.available) % R
  <2>1. read + copied + (held - copied) = read + held /\ held - copied \in Int
    BY <1>1
  <2> QED
    BY <1>3, <1>6, <1>20, <2>1
<1>9. taken' \in 1..FrameNames /\ Named(taken' + pinRing'.available) = sent'
  <2>1. taken + copied + (held - copied) = taken + held /\ held - copied \in Int /\ taken + copied \in Int
    BY <1>1
  <2>2. Named(taken' + (held - copied)) = Named(taken + copied + (held - copied))
    BY <1>7, <2>1
  <2>3. pinRing'.available = held - copied /\ sent' = sent /\ taken' = Named(taken + copied)
    BY <1>2, <1>3
  <2>4. Named(taken + copied) \in 1..FrameNames
    BY <2>1, NamedPlus
  <2>5. Named(taken' + pinRing'.available) = Named(taken + held)
    BY <2>1, <2>2, <2>3
  <2> QED
    BY <1>20, <2>3, <2>4, <2>5
<1>10. ASSUME NEW k \in 0..held - copied - 1
       PROVE  storage'[(pinRing'.read + k) % R] = Named(taken' + k + 1)
  <2>1. /\ read + copied + k = read + (copied + k) /\ copied + k \in 0..held - 1
        /\ taken + (copied + k) + 1 = taken + copied + (k + 1) /\ k + 1 \in Int /\ k \in Int
        /\ taken' + (k + 1) = taken' + k + 1
    BY <1>1, <1>9
  <2>2. storage[(read + (copied + k)) % R] = Named(taken + (copied + k) + 1)
    BY <1>20, <2>1
  <2>3. pinRing'.read = (read + copied) % R /\ storage' = storage
    BY <1>2, <1>3
  <2>4. (((read + copied) % R) + k) % R = (read + copied + k) % R
    BY <1>6, <2>1
  <2>5. Named(taken' + (k + 1)) = Named(taken + copied + (k + 1))
    BY <1>7, <2>1
  <2>6. storage'[(pinRing'.read + k) % R] = storage[(read + (copied + k)) % R]
    BY <2>1, <2>3, <2>4
  <2>7. Named(taken' + k + 1) = Named(taken + (copied + k) + 1)
    BY <2>1, <2>5
  <2> QED
    BY <2>2, <2>6, <2>7
<1>11. ASSUME NEW i \in 1..frames
       PROVE  heard'[i] = IF i <= copied THEN Named(taken' + FrameNames - copied + i) ELSE 0
  <2>1. CASE i <= copied
    <3>1. /\ i - 1 \in 0..held - 1 /\ read + i - 1 = read + (i - 1) /\ taken + (i - 1) + 1 = taken + i
          /\ taken + copied + (FrameNames - copied + i) = taken + i + FrameNames
          /\ taken' + (FrameNames - copied + i) = taken' + FrameNames - copied + i
          /\ taken + i \in Int /\ FrameNames - copied + i \in Int
      BY <1>1, <1>9, <2>1
    <3>2. heard'[i] = Named(taken + i)
      BY <1>2, <1>20, <2>1, <3>1
    <3> QED
      BY <1>7, <2>1, <3>1, <3>2, NamedPlus
  <2>2. CASE ~(i <= copied)
    BY <1>2, <2>2
  <2> QED
    BY <2>1, <2>2
<1>12. copied \in {0} \cup DOMAIN heard' /\ DOMAIN heard' = 1..frames
  BY <1>1, <1>2
<1>13. PinDeliversInOrder'
  <2>1. \A i \in DOMAIN heard' :
          heard'[i] = IF i <= copied THEN Named(taken' + FrameNames - copied + i) ELSE 0
    BY <1>11, <1>12
  <2>2. \E c \in {0} \cup DOMAIN heard' : \A i \in DOMAIN heard' :
          heard'[i] = IF i <= c THEN Named(taken' + FrameNames - c + i) ELSE 0
    BY <1>12, <2>1
  <2> QED
    BY <1>9, <2>2 DEF PinDeliversInOrder
<1>14. \A k \in 0..pinRing'.available - 1 : storage'[(pinRing'.read + k) % R] = Named(taken' + k + 1)
  BY <1>3, <1>10
<1> QED
  BY <1>2, <1>5, <1>8, <1>9, <1>13, <1>14, <1>20 DEF PinIInv, R

LEMMA ResetKeeps == PinIInv /\ ResetPin => PinIInv'
<1> SUFFICES ASSUME PinIInv, ResetPin PROVE PinIInv'
  OBVIOUS
<1> DEFINE R == RingFramesOfPin
<1>1. R \in Nat \ {0} /\ sent \in 1..FrameNames /\ FrameNames \in Nat
  BY PinRingAssumption DEF PinIInv
<1>2. 0 % R = 0 /\ Named(sent) = sent
  BY <1>1, ModSmall, NamedPlus
<1>3. /\ pinRing' = [read |-> 0, write |-> 0, available |-> 0] /\ taken' = sent
      /\ UNCHANGED <<storage, sent>> /\ DOMAIN heard' = {}
  BY DEF ResetPin, EmptyRing
<1> QED
  BY <1>1, <1>2, <1>3 DEF PinIInv, PinDeliversInOrder

\* However the driver's side submits and the engine's side reads, a read returns the
\* accepted frames in order, without gap or repetition, then silence, in a ring of any
\* size (wavert_stream.c:44-68, 115-155).
THEOREM PinIsFifo == PinSpec => []PinDeliversInOrder
<1>1. PinIInv /\ [PinNext]_pinVars => PinIInv'
  <2>1. PinIInv /\ UNCHANGED pinVars => PinIInv'
    BY DEF pinVars, PinIInv, PinDeliversInOrder
  <2> QED
    BY <2>1, SubmitKeeps, ReadKeeps, ResetKeeps DEF PinNext
<1>2. PinIInv => PinDeliversInOrder
  BY DEF PinIInv
<1> QED
  BY <1>1, <1>2, PinInitIInv, PTL DEF PinSpec

-------------------------------------------------------------------------------
(* The volume of an endpoint.  A state is known by the run of the driver    *)
(* and its number: every state that was sent is of an earlier run, or not   *)
(* past the endpoint's number in the present one.                           *)

VolumeStates == [requested : LevelRange, mute : BOOLEAN, generation : Nat, epoch : Nat]

VolumeTypeOK ==
  /\ endpointState \in VolumeStates /\ groupVolume \in VolumeStates
  /\ packets \subseteq VolumeStates /\ handed \subseteq VolumeStates

\* The states that were sent.
Sent == packets \cup handed

\* No state is from a later run of the driver, nor from later in the present one.
NoneFromLater ==
  \A state \in Sent :
    /\ state.generation >= 1 /\ state.epoch <= endpointState.epoch
    /\ state.epoch = endpointState.epoch => state.generation <= endpointState.generation

\* A number is given to one state in each run of the driver.
NumbersUnique ==
  /\ \A a, b \in Sent : a.epoch = b.epoch /\ a.generation = b.generation => a = b
  /\ \A a \in Sent : a.epoch = endpointState.epoch /\ a.generation = endpointState.generation
                         => a = endpointState

\* What is in force was handed over, and nothing handed over has a higher number.
InForce ==
  /\ groupVolume.generation = 0 \/ groupVolume \in handed
  /\ \A state \in handed : state.generation <= groupVolume.generation

VolumeIInv ==
  /\ VolumeTypeOK /\ endpointState.generation >= 1
  /\ NoneFromLater /\ NumbersUnique /\ InForce

LEMMA VolumeInitIInv == DriverVolumeInit => VolumeIInv
<1> SUFFICES ASSUME DriverVolumeInit PROVE VolumeIInv
  OBVIOUS
<1>1. Fresh(0) \in VolumeStates /\ Fresh(0).generation = 1
  BY DriverVolumeAssumption DEF Fresh, VolumeStates
<1>2. groupVolume \in VolumeStates /\ groupVolume.generation = 0
  BY DriverVolumeAssumption DEF DriverVolumeInit, Fresh, VolumeStates
<1> QED
  BY <1>1, <1>2
     DEF DriverVolumeInit, VolumeIInv, VolumeTypeOK, Sent, NoneFromLater, NumbersUnique, InForce

\* A change has a new number.
LEMMA ChangeKeeps ==
  ASSUME VolumeIInv, NEW level, NEW mute \in BOOLEAN,
         ApplyVolume(level, mute, endpointState.generation + 1)
  PROVE  VolumeIInv'
<1> USE DEF VolumeIInv, ApplyVolume
<1> DEFINE number == endpointState.generation
<1>1. /\ endpointState' \in VolumeStates /\ endpointState'.epoch = endpointState.epoch
      /\ endpointState'.generation = number + 1 /\ number \in Nat
      /\ UNCHANGED <<packets, handed, groupVolume>>
  <2>1. endpointState \in VolumeStates /\ level \in LevelRange
    BY DEF VolumeTypeOK
  <2>2. number \in Nat /\ number + 1 \in Nat
    BY <2>1 DEF VolumeStates
  <2>3. endpointState' = [requested |-> level, mute |-> mute, generation |-> number + 1,
                          epoch |-> endpointState.epoch]
    BY <2>1 DEF VolumeStates
  <2> QED
    BY <2>1, <2>2, <2>3 DEF VolumeStates
<1>2. \A state \in Sent : state \in VolumeStates
  BY DEF VolumeTypeOK, Sent
<1>3. VolumeTypeOK' /\ InForce'
  BY <1>1 DEF VolumeTypeOK, InForce
<1>4. NoneFromLater'
  BY <1>1, <1>2 DEF NoneFromLater, Sent, VolumeStates
<1>5. \A a \in Sent : ~(a.epoch = endpointState'.epoch /\ a.generation = endpointState'.generation)
  BY <1>1, <1>2 DEF NoneFromLater, VolumeStates
<1>6. NumbersUnique'
  BY <1>1, <1>5 DEF NumbersUnique, Sent
<1> QED
  BY <1>1, <1>3, <1>4, <1>6

\* Numbers begin again after a restart, in a run of their own.
LEMMA RestartKeeps == VolumeIInv /\ RestartDriver => VolumeIInv'
<1> SUFFICES ASSUME VolumeIInv, RestartDriver PROVE VolumeIInv'
  OBVIOUS
<1> USE DEF VolumeIInv, RestartDriver, Fresh
<1>1. /\ endpointState' \in VolumeStates /\ endpointState'.epoch = endpointState.epoch + 1
      /\ endpointState'.generation = 1 /\ endpointState.epoch \in Nat
      /\ UNCHANGED <<packets, handed, groupVolume>>
  BY DriverVolumeAssumption DEF VolumeTypeOK, VolumeStates
<1>2. \A state \in Sent : state \in VolumeStates
  BY DEF VolumeTypeOK, Sent
<1>3. VolumeTypeOK' /\ InForce'
  BY <1>1 DEF VolumeTypeOK, InForce
<1>4. \A state \in Sent : state.epoch < endpointState'.epoch
  BY <1>1, <1>2 DEF NoneFromLater, VolumeStates
<1>5. NoneFromLater' /\ NumbersUnique'
  BY <1>1, <1>2, <1>4 DEF NoneFromLater, NumbersUnique, Sent, VolumeStates
<1> QED
  BY <1>1, <1>3, <1>5

LEMMA SendKeeps == VolumeIInv /\ SendState => VolumeIInv'
<1> SUFFICES ASSUME VolumeIInv, SendState PROVE VolumeIInv'
  OBVIOUS
<1>1. /\ UNCHANGED <<endpointState, handed, groupVolume>>
      /\ packets' = packets \cup {endpointState} /\ Sent' = Sent \cup {endpointState}
  BY DEF SendState, Sent
<1>2. VolumeTypeOK' /\ InForce'
  BY <1>1 DEF VolumeIInv, VolumeTypeOK, InForce
<1>3. NoneFromLater'
  BY <1>1 DEF VolumeIInv, NoneFromLater, VolumeTypeOK, VolumeStates
<1>4. NumbersUnique'
  BY <1>1 DEF VolumeIInv, NumbersUnique
<1> QED
  BY <1>1, <1>2, <1>3, <1>4 DEF VolumeIInv

\* A packet may be lost, come again and come late.
LEMMA PacketKeeps ==
  ASSUME VolumeIInv, NEW p \in packets, LosePacket(p) \/ ApplyPacket(p)
  PROVE  VolumeIInv'
<1>1. endpointState' = endpointState /\ Sent' \subseteq Sent /\ p \in VolumeStates
  BY DEF LosePacket, ApplyPacket, Sent, VolumeIInv, VolumeTypeOK
<1>2. NoneFromLater' /\ NumbersUnique'
  BY <1>1 DEF VolumeIInv, NoneFromLater, NumbersUnique
<1>3. VolumeTypeOK'
  BY <1>1 DEF LosePacket, ApplyPacket, VolumeIInv, VolumeTypeOK
<1>4. CASE LosePacket(p)
  BY <1>1, <1>2, <1>3, <1>4 DEF LosePacket, VolumeIInv, InForce
<1>5. CASE ApplyPacket(p)
  <2>1. /\ handed' = handed \cup {p}
        /\ groupVolume' = IF p.generation < groupVolume.generation THEN groupVolume ELSE p
    BY <1>5 DEF ApplyPacket
  <2>2. /\ p.generation \in Nat /\ groupVolume.generation \in Nat
        /\ \A state \in handed : state.generation \in Nat
    BY <1>1 DEF VolumeIInv, VolumeTypeOK, VolumeStates
  <2>3. InForce'
    BY <2>1, <2>2 DEF VolumeIInv, InForce
  <2> QED
    BY <1>1, <1>2, <1>3, <2>3 DEF VolumeIInv
<1>6. InForce'
  BY <1>4, <1>5 DEF VolumeIInv
<1> QED
  BY <1>1, <1>2, <1>3, <1>6 DEF VolumeIInv

LEMMA VolumeNextKeeps == VolumeIInv /\ [DriverVolumeNext]_driverVolumeVars => VolumeIInv'
<1> SUFFICES ASSUME VolumeIInv, [DriverVolumeNext]_driverVolumeVars PROVE VolumeIInv'
  OBVIOUS
<1>1. ASSUME NEW level \in DriverLevels, SetVolume(level) PROVE VolumeIInv'
  <2>1. endpointState.mute \in BOOLEAN
    BY DEF VolumeIInv, VolumeTypeOK, VolumeStates
  <2> QED
    BY <1>1, <2>1, ChangeKeeps DEF SetVolume
<1>2. ASSUME NEW mute \in BOOLEAN, SetMute(mute) PROVE VolumeIInv'
  BY <1>2, ChangeKeeps DEF SetMute
<1>3. CASE UNCHANGED driverVolumeVars
  BY <1>3 DEF driverVolumeVars, VolumeIInv, VolumeTypeOK, Sent, NoneFromLater, NumbersUnique, InForce
<1> QED
  BY <1>1, <1>2, <1>3, RestartKeeps, SendKeeps, PacketKeeps DEF DriverVolumeNext

\* Whatever packets are lost, repeated or late, the newest state handed over is in force
\* if its number is past those of the driver's earlier lives: always before the first
\* restart, and after one as soon as the driver has counted past them.  In between an
\* older state may be in force (volume_state.cpp:94, driver_control_bridge.cpp:87-119).
THEOREM NewestStateWins == DriverVolumeSpec => []LatestStateWins
<1>1. VolumeIInv => LatestStateWins
  <2> SUFFICES ASSUME VolumeIInv, NEW state \in handed, Newest(state), CaughtUp(state)
               PROVE  groupVolume = state
    BY DEF LatestStateWins
  <2>1. /\ state \in Sent /\ state \in VolumeStates /\ groupVolume \in VolumeStates
        /\ 1 <= state.generation /\ state.generation <= groupVolume.generation
    BY DEF VolumeIInv, VolumeTypeOK, Sent, NoneFromLater, InForce
  <2>2. groupVolume \in handed
    BY <2>1 DEF VolumeIInv, InForce, VolumeStates
  <2>3. groupVolume.epoch = state.epoch
    <3>1. CASE groupVolume.epoch < state.epoch
      BY <2>1, <2>2, <3>1 DEF CaughtUp, VolumeStates
    <3> QED
      BY <2>2, <3>1 DEF Newest
  <2>4. groupVolume.generation = state.generation
    BY <2>1, <2>2, <2>3 DEF Newest, VolumeStates
  <2> QED
    BY <2>1, <2>2, <2>3, <2>4 DEF VolumeIInv, Sent, NumbersUnique
<1>2. DriverVolumeSpec => []VolumeIInv
  BY VolumeInitIInv, VolumeNextKeeps, PTL DEF DriverVolumeSpec
<1> QED
  BY <1>1, <1>2, PTL
-------------------------------------------------------------------------------
(* The catalog of endpoints.  The watcher's cell has one holder and a number *)
(* that only grows; the candidate is sound at every place of the             *)
(* enumeration; and as long as no news is on its way, what the loop has read *)
(* is what Windows has.                                                      *)

DeviceEntry == [id : Devices, flow : Flows, state : States, default : BOOLEAN]

CatalogTypeOK ==
  /\ endpoint \in [Devices -> States]
  /\ default \in [Flows -> Devices \cup {NoDevice}]
  /\ reports \in [Threads -> [at : {"none", "called", "loaded", "claimed"}, loaded : Nat]]
  /\ cell \in [sequence : Nat, last : Nat]
  /\ loop \in [at : {"bound", "collection", "default", "devices", "format", "publish", "idle", "off"},
               flow : Flows, todo : SUBSET Devices, default : Devices \cup {NoDevice},
               device : Devices \cup {NoDevice}, state : States,
               candidate : SUBSET DeviceEntry, failed : BOOLEAN]
  /\ store \in [catalog : SUBSET DeviceEntry, sequence : Nat] /\ service = store

\* A callback holds the cell exactly while its number is odd, one at a time, and the
\* poll has seen nothing the cell has not had.
WatcherInv ==
  /\ Even(cell.last) /\ cell.last <= cell.sequence
  /\ \A t \in Threads :
       /\ reports[t].at = "loaded" => Even(reports[t].loaded) /\ reports[t].loaded <= cell.sequence
       /\ reports[t].at = "claimed" => Even(reports[t].loaded) /\ cell.sequence = reports[t].loaded + 1
  /\ \A t, u \in Threads : reports[t].at = "claimed" /\ reports[u].at = "claimed" => t = u
  /\ Even(cell.sequence) \/ \E t \in Threads : reports[t].at = "claimed"

SoundEntries(C) ==
  /\ \A e, f \in C : e.id = f.id \/ (e.default /\ f.default /\ e.flow = f.flow) => e = f
  /\ \A e \in C : /\ e.id \notin Unsupported /\ e.flow = FlowOf[e.id]
                  /\ e.default => e.state = "active"
  /\ IsFiniteSet(C) /\ Cardinality(C) <= CatalogLimit

\* What of the flow is still to be read is not in the candidate yet.
InFlow == {d \in Devices : FlowOf[d] = loop.flow}
CandidateInv ==
  /\ SoundEntries(loop.candidate) /\ SoundEntries(store.catalog)
  /\ loop.at \in {"collection", "default"} => \A e \in loop.candidate : e.flow # loop.flow
  /\ loop.at \in {"default", "devices", "format"} => loop.todo \subseteq InFlow
  /\ loop.at \in {"devices", "format"} =>
       \A e \in loop.candidate :
          e.id \notin loop.todo /\ (e.flow = loop.flow /\ e.default => e.id = loop.default)
  /\ loop.at = "format" =>
       loop.device \in InFlow \ loop.todo /\ \A e \in loop.candidate : e.id # loop.device
  /\ loop.flow = FirstFlow => \A e \in loop.candidate : e.flow = FirstFlow

\* The endpoints the enumeration has passed, and what it should have read by now.
Earlier == {d \in Devices : FlowOf[d] = FirstFlow /\ loop.flow # FirstFlow}
Present == {d \in InFlow : endpoint[d] # "absent"}
Passed ==
  CASE loop.at \in {"collection", "default"} -> Earlier
    [] loop.at = "devices" -> Earlier \cup (Present \ loop.todo)
    [] loop.at = "format" -> Earlier \cup (Present \ (loop.todo \cup {loop.device}))
    [] OTHER -> Devices
Agrees ==
  CASE loop.at \in {"bound", "off"} -> TRUE
    [] loop.at = "idle" -> loop.failed \/ store.catalog = Actual
    [] OTHER ->
        /\ loop.candidate = {e \in Actual : e.id \in Passed}
        /\ loop.at = "default" => loop.todo = Present
        /\ loop.at \in {"devices", "format"} =>
             loop.todo \subseteq Present /\ loop.default = default[loop.flow]
        /\ loop.at = "format" => loop.device \in Present /\ loop.state = endpoint[loop.device]
News == cell.sequence # cell.last \/ \E t \in Threads : Coming(t)
ReadInv == News \/ Agrees

SoundIInv == CatalogTypeOK /\ WatcherInv /\ CandidateInv

LEMMA CatalogInit == DeviceInit => SoundIInv /\ ReadInv
<1> SUFFICES ASSUME DeviceInit PROVE SoundIInv /\ ReadInv
  OBVIOUS
<1>0. FirstFlow \in Flows
  BY DeviceAssumption
<1>1. CatalogTypeOK
  <2>1. endpoint \in [Devices -> States] /\ default \in [Flows -> Devices \cup {NoDevice}]
    BY DEF DeviceInit, States
  <2>2. reports \in [Threads -> [at : {"none", "called", "loaded", "claimed"}, loaded : Nat]]
    BY DEF DeviceInit, Quiet
  <2> QED
    BY <1>0, <2>1, <2>2 DEF CatalogTypeOK, DeviceInit, Idle, States
<1>2. WatcherInv
  BY DEF DeviceInit, WatcherInv, Quiet, Even
<1>3. CandidateInv
  BY FS_EmptySet, DeviceAssumption DEF DeviceInit, CandidateInv, SoundEntries, Idle
<1>4. ReadInv
  BY DEF DeviceInit, ReadInv, Agrees, Idle
<1> QED
  BY <1>1, <1>2, <1>3, <1>4 DEF SoundIInv

\* Steps of the loop leave Windows and the watcher alone, and the others the loop.
WatcherSame == UNCHANGED <<endpoint, default, reports, cell>>

LEMMA LoopLeavesWatcher ==
  ASSUME SoundIInv, WatcherSame
  PROVE  /\ WatcherInv' /\ News' = News /\ Actual' = Actual
         /\ endpoint' \in [Devices -> States] /\ default' \in [Flows -> Devices \cup {NoDevice}]
         /\ reports' \in [Threads -> [at : {"none", "called", "loaded", "claimed"}, loaded : Nat]]
         /\ cell' \in [sequence : Nat, last : Nat]
<1>1. WatcherInv'
  BY DEF WatcherSame, WatcherInv, SoundIInv, Even
<1>2. News' = News
  BY DEF WatcherSame, News, Coming
<1>3. Actual' = Actual
  BY DEF WatcherSame, Actual, Usable
<1> QED
  BY <1>1, <1>2, <1>3 DEF WatcherSame, SoundIInv, CatalogTypeOK

\* A change of Windows, the callback that reports it and the poll that sees it.
LEMMA ChangeKeepsCatalog ==
  ASSUME SoundIInv, Change
  PROVE  SoundIInv' /\ ReadInv'
<1> USE DEF SoundIInv, CatalogTypeOK
<1>1. PICK t \in Threads : reports[t] = Quiet /\ reports' = [reports EXCEPT ![t].at = "called"]
  BY DEF Change, Reported
<1>2. UNCHANGED <<cell, loop, service, store>>
  BY DEF Change
<1>3. CatalogTypeOK'
  <2>1. endpoint' \in [Devices -> States] /\ default' \in [Flows -> Devices \cup {NoDevice}]
    BY DEF Change
  <2> QED
    BY <1>1, <1>2, <2>1
<1>4. WatcherInv'
  BY <1>1, <1>2 DEF WatcherInv, Quiet, Even
<1>5. CandidateInv'
  BY <1>2 DEF CandidateInv, SoundEntries, InFlow
<1>6. ReadInv'
  BY <1>1 DEF ReadInv, News, Coming
<1> QED
  BY <1>3, <1>4, <1>5, <1>6

LEMMA ReportKeepsCatalog ==
  ASSUME SoundIInv, NEW t \in Threads, publish(t)
  PROVE  SoundIInv' /\ (ReadInv => ReadInv')
<1> USE DEF SoundIInv, CatalogTypeOK
<1>1. UNCHANGED <<endpoint, default, loop, service, store>>
  BY DEF publish
<1>2. CandidateInv' /\ Agrees' = Agrees
  BY <1>1 DEF CandidateInv, SoundEntries, InFlow, Agrees, Passed, Present, Earlier, Actual, Usable
<1>3. \A u \in Threads : u # t => reports'[u] = reports[u]
  BY DEF publish, load, claim, release
<1>4. cell.sequence \in Nat /\ cell.last \in Nat /\ reports[t].loaded \in Nat
  OBVIOUS
<1>5. CASE load(t)
  <2>1. CatalogTypeOK'
    BY <1>1, <1>5 DEF load, Quiet
  <2>2. WatcherInv'
    BY <1>3, <1>5 DEF load, WatcherInv, Even, Quiet
  <2>3. CASE Even(cell.sequence)
    <3>1. reports'[t].at = "loaded" /\ reports'[t].loaded = cell'.sequence
      BY <1>5, <2>3 DEF load
    <3> QED
      BY <1>2, <2>1, <2>2, <3>1 DEF ReadInv, News, Coming
  <2>4. CASE ~Even(cell.sequence)
    <3>1. PICK u \in Threads : reports[u].at = "claimed"
      BY <2>4 DEF WatcherInv
    <3>2. reports'[u].at = "claimed"
      BY <1>3, <1>5, <3>1 DEF load
    <3> QED
      BY <1>2, <2>1, <2>2, <3>2 DEF ReadInv, News, Coming
  <2> QED
    BY <2>3, <2>4
<1>6. CASE claim(t) /\ cell.sequence = reports[t].loaded
  <2>1. cell' = [cell EXCEPT !.sequence = @ + 1] /\ reports' = [reports EXCEPT ![t].at = "claimed"]
    BY <1>6 DEF claim
  <2>2. Even(reports[t].loaded)
    BY <1>6 DEF claim, WatcherInv
  <2>3. \A u \in Threads : reports[u].at # "claimed"
    BY <1>4, <1>6, <2>2 DEF WatcherInv, Even
  <2>4. CatalogTypeOK'
    BY <1>1, <1>4, <2>1
  <2>5. reports'[t].at = "claimed" /\ reports'[t].loaded = reports[t].loaded
        /\ cell'.sequence = cell.sequence + 1 /\ cell'.last = cell.last
    BY <2>1
  <2>6. WatcherInv'
    <3>1. Even(cell'.last) /\ cell'.last <= cell'.sequence
      BY <1>4, <2>5 DEF WatcherInv
    <3>2. ASSUME NEW u \in Threads
          PROVE  /\ reports'[u].at = "loaded" => Even(reports'[u].loaded) /\ reports'[u].loaded <= cell'.sequence
                 /\ reports'[u].at = "claimed" => Even(reports'[u].loaded) /\ cell'.sequence = reports'[u].loaded + 1
      <4>1. CASE u = t
        BY <1>6, <2>2, <2>5, <4>1
      <4>2. CASE u # t
        <5>1. reports'[u] = reports[u] /\ reports[u].loaded \in Nat
          BY <1>3, <4>2
        <5> QED
          BY <1>4, <2>3, <2>5, <5>1 DEF WatcherInv
      <4> QED
        BY <4>1, <4>2
    <3> QED
      BY <1>3, <2>3, <2>5, <3>1, <3>2 DEF WatcherInv
  <2> QED
    BY <1>2, <2>4, <2>5, <2>6 DEF ReadInv, News, Coming
<1>7. CASE claim(t) /\ cell.sequence # reports[t].loaded
  <2>1. reports' = [reports EXCEPT ![t] = Quiet] /\ UNCHANGED cell /\ reports[t].at = "loaded"
    BY <1>7 DEF claim
  <2>2. CatalogTypeOK'
    BY <1>1, <2>1 DEF Quiet
  <2>3. WatcherInv'
    BY <1>3, <2>1 DEF WatcherInv, Even, Quiet
  <2>4. News => News'
    <3>1. ~Coming(t)
      BY <1>7, <2>1 DEF Coming
    <3>2. \A u \in Threads : Coming(u) => Coming(u)'
      BY <1>3, <2>1, <3>1 DEF Coming
    <3> QED
      BY <2>1, <3>2 DEF News
  <2> QED
    BY <1>2, <2>2, <2>3, <2>4 DEF ReadInv
<1>8. CASE release(t)
  <2>1. reports[t].at = "claimed" /\ cell.sequence = reports[t].loaded + 1 /\ Even(reports[t].loaded)
    BY <1>8 DEF release, WatcherInv
  <2>2. cell' = [cell EXCEPT !.sequence = reports[t].loaded + 2] /\ reports' = [reports EXCEPT ![t] = Quiet]
    BY <1>8 DEF release
  <2>3. cell'.sequence = reports[t].loaded + 2 /\ cell'.last = cell.last /\ reports'[t] = Quiet
    BY <2>2
  <2>4. CatalogTypeOK'
    BY <1>1, <1>4, <2>2 DEF Quiet
  <2>5. Even(cell.last) /\ cell.last <= cell.sequence
    BY DEF WatcherInv
  <2>6. cell'.sequence # cell'.last /\ Even(cell'.sequence) /\ cell'.last <= cell'.sequence
    BY <1>4, <2>1, <2>3, <2>5 DEF Even
  <2>7. \A u \in Threads : u # t => reports[u].at # "claimed"
    BY <2>1 DEF WatcherInv
  <2>8. WatcherInv'
    <3>1. ASSUME NEW u \in Threads
          PROVE  /\ reports'[u].at = "loaded" => Even(reports'[u].loaded) /\ reports'[u].loaded <= cell'.sequence
                 /\ reports'[u].at # "claimed"
      <4>1. CASE u = t
        BY <2>3, <4>1 DEF Quiet
      <4>2. CASE u # t
        <5>1. reports'[u] = reports[u] /\ reports[u].loaded \in Nat
          BY <1>3, <4>2
        <5>2. reports[u].at = "loaded" => Even(reports[u].loaded) /\ reports[u].loaded <= cell.sequence
          BY DEF WatcherInv
        <5> QED
          BY <1>4, <2>1, <2>3, <2>7, <4>2, <5>1, <5>2
      <4> QED
        BY <4>1, <4>2
    <3> QED
      BY <2>3, <2>5, <2>6, <3>1 DEF WatcherInv
  <2> QED
    BY <1>2, <2>4, <2>6, <2>8 DEF ReadInv, News
<1> QED
  BY <1>5, <1>6, <1>7, <1>8 DEF publish

\* The start of a refresh.
LEMMA BeginsRefresh ==
  ASSUME SoundIInv, loop' = Enumerating(FirstFlow), store' = store, service' = service,
         endpoint' = endpoint, default' = default, reports' = reports,
         cell' \in [sequence : Nat, last : Nat], WatcherInv'
  PROVE  SoundIInv' /\ ReadInv'
<1>0. FirstFlow \in Flows
  BY DeviceAssumption
<1>1. loop' = [at |-> "collection", flow |-> FirstFlow, todo |-> {}, default |-> NoDevice,
               device |-> NoDevice, state |-> "absent", candidate |-> {}, failed |-> FALSE]
  BY DEF Enumerating, Idle
<1>2. CatalogTypeOK'
  BY <1>0, <1>1 DEF SoundIInv, CatalogTypeOK, States
<1>3. CandidateInv'
  BY <1>1, FS_EmptySet, DeviceAssumption DEF SoundIInv, CandidateInv, SoundEntries
<1>4. Agrees'
  BY <1>1 DEF Agrees, Passed, Earlier
<1> QED
  BY <1>2, <1>3, <1>4 DEF SoundIInv, ReadInv

LEMMA BeginKeepsCatalog ==
  ASSUME SoundIInv, refresh_now \/ poll_and_refresh
  PROVE  SoundIInv' /\ ReadInv'
<1>1. CASE refresh_now
  <2>1. WatcherSame /\ loop' = Enumerating(FirstFlow) /\ store' = store /\ service' = service
    BY <1>1 DEF refresh_now, WatcherSame
  <2> QED
    BY <2>1, LoopLeavesWatcher, BeginsRefresh DEF WatcherSame
<1>2. CASE poll_and_refresh
  <2>1. /\ cell' = [cell EXCEPT !.last = cell.sequence] /\ loop' = Enumerating(FirstFlow)
        /\ UNCHANGED <<endpoint, default, reports, service, store>> /\ Even(cell.sequence)
    BY <1>2 DEF poll_and_refresh
  <2>2. cell' \in [sequence : Nat, last : Nat] /\ cell'.sequence = cell.sequence
        /\ cell'.last = cell.sequence
    BY <2>1 DEF SoundIInv, CatalogTypeOK
  <2>3. WatcherInv'
    BY <2>1, <2>2 DEF SoundIInv, WatcherInv, CatalogTypeOK
  <2> QED
    BY <2>1, <2>2, <2>3, BeginsRefresh
<1> QED
  BY <1>1, <1>2

\* The steps of the enumeration that add nothing to the candidate.
LEMMA CollectKeepsCatalog ==
  ASSUME SoundIInv, EnumAudioEndpoints \/ default_endpoint_id
  PROVE  SoundIInv' /\ (ReadInv => ReadInv')
<1>1. WatcherSame /\ store' = store /\ service' = service
  BY DEF EnumAudioEndpoints, default_endpoint_id, Step, WatcherSame
<1>2. WatcherInv' /\ News' = News /\ Actual' = Actual
  BY <1>1, LoopLeavesWatcher
<1>3. CASE EnumAudioEndpoints
  <2>1. /\ loop.at = "collection"
        /\ loop' = [loop EXCEPT !.at = "default",
                     !.todo = {d \in Devices : FlowOf[d] = loop.flow /\ endpoint[d] # "absent"}]
    BY <1>3 DEF EnumAudioEndpoints, Step
  <2>2. loop'.at = "default" /\ loop'.todo = Present /\ loop'.flow = loop.flow
        /\ loop'.candidate = loop.candidate
    BY <2>1 DEF SoundIInv, CatalogTypeOK, Present, InFlow
  <2>3. CatalogTypeOK'
    BY <1>1, <2>1 DEF SoundIInv, CatalogTypeOK, WatcherSame
  <2>4. InFlow' = InFlow /\ Present' = Present /\ Earlier' = Earlier
    BY <1>1, <2>2 DEF InFlow, Present, Earlier, WatcherSame
  <2>5. CandidateInv'
    BY <1>1, <2>1, <2>2, <2>4 DEF SoundIInv, CandidateInv, Present, SoundEntries
  <2>6. Agrees => Agrees'
    BY <1>2, <2>1, <2>2, <2>4 DEF Agrees, Passed
  <2> QED
    BY <1>2, <2>3, <2>5, <2>6 DEF SoundIInv, ReadInv
<1>4. CASE default_endpoint_id
  <2>1. loop.at = "default" /\ loop' = [loop EXCEPT !.at = "devices", !.default = default[loop.flow]]
    BY <1>4 DEF default_endpoint_id, Step
  <2>2. /\ loop'.at = "devices" /\ loop'.todo = loop.todo /\ loop'.flow = loop.flow
        /\ loop'.candidate = loop.candidate /\ loop'.default = default[loop.flow]
    BY <2>1 DEF SoundIInv, CatalogTypeOK
  <2>3. CatalogTypeOK'
    BY <1>1, <2>1 DEF SoundIInv, CatalogTypeOK, WatcherSame
  <2>4. InFlow' = InFlow /\ Present' = Present /\ Earlier' = Earlier
    BY <1>1, <2>2 DEF InFlow, Present, Earlier, WatcherSame
  <2>5. \A e \in loop.candidate : e.id \notin loop.todo /\ e.flow # loop.flow
    <3>1. \A e \in loop.candidate : e.flow # loop.flow /\ e.flow = FlowOf[e.id]
      BY <2>1 DEF SoundIInv, CandidateInv, SoundEntries
    <3> QED
      BY <2>1, <3>1 DEF SoundIInv, CandidateInv, InFlow
  <2>6. CandidateInv'
    <3>1. SoundEntries(loop.candidate)' /\ SoundEntries(store.catalog)'
      BY <1>1, <2>2 DEF SoundIInv, CandidateInv, SoundEntries
    <3> QED
      BY <2>1, <2>2, <2>4, <2>5, <3>1 DEF SoundIInv, CandidateInv
  <2>7. Agrees => Agrees'
    <3>1. SUFFICES ASSUME Agrees PROVE Agrees'
      OBVIOUS
    <3>2. loop.candidate = {e \in Actual : e.id \in Earlier} /\ loop.todo = Present
      BY <2>1, <3>1 DEF Agrees, Passed
    <3>3. Passed' = Earlier
      BY <2>2, <2>4, <3>2 DEF Passed
    <3>4. default' = default
      BY <1>1 DEF WatcherSame
    <3> QED
      BY <1>2, <2>2, <2>4, <3>2, <3>3, <3>4 DEF Agrees
  <2> QED
    BY <1>2, <2>3, <2>6, <2>7 DEF SoundIInv, ReadInv
<1> QED
  BY <1>3, <1>4

LEMMA GetStateKeepsCatalog ==
  ASSUME SoundIInv, GetState
  PROVE  SoundIInv' /\ (ReadInv => ReadInv')
<1>1. WatcherSame /\ store' = store /\ service' = service
  BY DEF GetState, Step, WatcherSame
<1>2. WatcherInv' /\ News' = News /\ Actual' = Actual
  BY <1>1, LoopLeavesWatcher
<1>3. PICK d \in loop.todo :
         /\ loop.at = "devices"
         /\ loop' = [loop EXCEPT !.at = "format", !.todo = @ \ {d}, !.device = d,
                       !.state = IF endpoint[d] = "absent" THEN "unplugged" ELSE endpoint[d]]
  BY DEF GetState, Step
<1>4. d \in Devices /\ endpoint[d] \in States
  BY <1>3 DEF SoundIInv, CatalogTypeOK
<1>5. /\ loop'.at = "format" /\ loop'.todo = loop.todo \ {d} /\ loop'.device = d
      /\ loop'.state = IF endpoint[d] = "absent" THEN "unplugged" ELSE endpoint[d]
      /\ loop'.flow = loop.flow /\ loop'.candidate = loop.candidate /\ loop'.default = loop.default
  BY <1>3 DEF SoundIInv, CatalogTypeOK
<1>6. CatalogTypeOK'
  <2>1. (IF endpoint[d] = "absent" THEN "unplugged" ELSE endpoint[d]) \in States
    BY <1>4 DEF States
  <2> QED
    BY <1>1, <1>3, <1>4, <2>1 DEF SoundIInv, CatalogTypeOK, WatcherSame
<1>7. InFlow' = InFlow /\ Present' = Present /\ Earlier' = Earlier
  BY <1>1, <1>5 DEF InFlow, Present, Earlier, WatcherSame
<1>8. CandidateInv'
  <2>1. SoundEntries(loop.candidate)' /\ SoundEntries(store.catalog)'
    BY <1>1, <1>5 DEF SoundIInv, CandidateInv, SoundEntries
  <2>2. loop.todo \subseteq InFlow /\ \A e \in loop.candidate : e.id # d
    BY <1>3 DEF SoundIInv, CandidateInv
  <2> QED
    BY <1>3, <1>5, <1>7, <2>1, <2>2 DEF SoundIInv, CandidateInv
<1>9. Agrees => Agrees'
  <2> SUFFICES ASSUME Agrees PROVE Agrees'
    OBVIOUS
  <2>1. /\ loop.candidate = {e \in Actual : e.id \in Earlier \cup (Present \ loop.todo)}
        /\ loop.todo \subseteq Present /\ loop.default = default[loop.flow]
    BY <1>3 DEF Agrees, Passed
  <2>2. Passed' = Earlier \cup (Present \ loop.todo)
    BY <1>3, <1>5, <1>7 DEF Passed
  <2>3. d \in Present /\ loop'.state = endpoint[d]
    BY <1>3, <1>5, <2>1 DEF Present
  <2>4. endpoint' = endpoint /\ default' = default
    BY <1>1 DEF WatcherSame
  <2> QED
    BY <1>2, <1>5, <1>7, <2>1, <2>2, <2>3, <2>4 DEF Agrees
<1> QED
  BY <1>2, <1>6, <1>8, <1>9 DEF SoundIInv, ReadInv

\* A default endpoint of the flow that is not in the candidate yet clears nothing.
LEMMA UpsertAdds ==
  ASSUME SoundIInv, loop.at = "format"
  PROVE  upsert(loop.candidate, Described)
           = IF Cardinality(loop.candidate) = CatalogLimit THEN loop.candidate
             ELSE loop.candidate \cup {Described}
<1> DEFINE C == loop.candidate
<1>1. \A e \in C : e \in DeviceEntry
  BY DEF SoundIInv, CatalogTypeOK
<1>2. Described.default => Described.id = loop.default /\ Described.flow = loop.flow
  BY DEF Described
<1>3. ASSUME Described.default, NEW e \in C
      PROVE  [e EXCEPT !.default = @ /\ e.flow # Described.flow] = e
  <2>1. e.flow = loop.flow => ~e.default
    BY <1>2, <1>3 DEF SoundIInv, CandidateInv, Described
  <2> QED
    BY <1>1, <1>2, <1>3, <2>1 DEF DeviceEntry
<1>4. Described.default => clear_defaults(C, Described.flow) = C
  BY <1>3 DEF clear_defaults
<1> QED
  BY <1>4 DEF upsert

LEMMA AddKeepsSound ==
  ASSUME SoundIInv, loop.at = "format", read_audio_format(loop.device)
  PROVE  /\ SoundEntries(upsert(loop.candidate, Described))
         /\ upsert(loop.candidate, Described) \in SUBSET DeviceEntry
<1> DEFINE C == loop.candidate
<1>1. CASE Cardinality(C) = CatalogLimit
  BY <1>1, UpsertAdds DEF SoundIInv, CandidateInv, CatalogTypeOK
<1>2. CASE Cardinality(C) # CatalogLimit
  <2>1. upsert(C, Described) = C \cup {Described}
    BY <1>2, UpsertAdds
  <2>2. /\ loop.device \in Devices /\ FlowOf[loop.device] = loop.flow /\ loop.device \notin Unsupported
        /\ loop.state \in States /\ loop.flow \in Flows
    BY DEF SoundIInv, CandidateInv, CatalogTypeOK, InFlow, read_audio_format
  <2>3. /\ Described.id = loop.device /\ Described.flow = loop.flow /\ Described.state = loop.state
        /\ Described.default <=> (loop.state = "active" /\ loop.device = loop.default)
        /\ Described \in DeviceEntry
    BY <2>2 DEF Described, DeviceEntry
  <2>4. \A e \in C : e.id # Described.id /\ ~(e.flow = Described.flow /\ e.default /\ Described.default)
    BY <2>3 DEF SoundIInv, CandidateInv
  <2>5. \A e, f \in C \cup {Described} :
            e.id = f.id \/ (e.default /\ f.default /\ e.flow = f.flow) => e = f
    BY <2>4 DEF SoundIInv, CandidateInv, SoundEntries
  <2>6. \A e \in C \cup {Described} :
            /\ e.id \notin Unsupported /\ e.flow = FlowOf[e.id]
            /\ e.default => e.state = "active"
    BY <2>2, <2>3 DEF SoundIInv, CandidateInv, SoundEntries
  <2>7. IsFiniteSet(C \cup {Described}) /\ Cardinality(C \cup {Described}) <= CatalogLimit
    <3>1. IsFiniteSet(C) /\ Cardinality(C) \in Nat /\ Cardinality(C) < CatalogLimit
      BY <1>2, FS_CardinalityType, DeviceAssumption DEF SoundIInv, CandidateInv, SoundEntries
    <3>2. /\ IsFiniteSet(C \cup {Described})
          /\ Cardinality(C \cup {Described}) \in {Cardinality(C), Cardinality(C) + 1}
      BY <3>1, FS_AddElement
    <3> QED
      BY <3>1, <3>2, DeviceAssumption
  <2>8. SoundEntries(C \cup {Described})
    BY <2>5, <2>6, <2>7 DEF SoundEntries
  <2> QED
    BY <2>1, <2>3, <2>8 DEF SoundIInv, CatalogTypeOK
<1> QED
  BY <1>1, <1>2

\* The entries of distinct endpoints other than the one being read leave it room.
LEMMA RoomForOneMore ==
  ASSUME SoundIInv, loop.at = "format", Cardinality(Devices) <= CatalogLimit
  PROVE  Cardinality(loop.candidate) # CatalogLimit
<1> DEFINE C == loop.candidate
           Others == Devices \ {loop.device}
           id == [e \in C |-> e.id]
<1>1. loop.device \in Devices /\ IsFiniteSet(Devices)
  BY DeviceAssumption DEF SoundIInv, CandidateInv, InFlow
<1>2. IsFiniteSet(Others) /\ Cardinality(Others) = Cardinality(Devices) - 1
  BY <1>1, FS_RemoveElement
<1>3. \A e \in C : e.id \in Others
  BY DEF SoundIInv, CandidateInv, CatalogTypeOK, DeviceEntry
<1>4. \A e, f \in C : e.id = f.id => e = f
  BY DEF SoundIInv, CandidateInv, SoundEntries
<1>5. id \in Injection(C, Others)
  BY <1>3, <1>4 DEF Injection, IsInjective
<1>6. IsFiniteSet(C) /\ Cardinality(C) <= Cardinality(Others)
  BY <1>2, <1>5, FS_Injection
<1>7. Cardinality(C) \in Nat /\ Cardinality(Devices) \in Nat
  BY <1>1, <1>6, FS_CardinalityType
<1> QED
  BY <1>2, <1>6, <1>7, DeviceAssumption

LEMMA AddKeepsCatalog ==
  ASSUME SoundIInv, AddDevice
  PROVE  /\ SoundIInv'
         /\ Cardinality(Devices) <= CatalogLimit /\ ReadInv => ReadInv'
<1> DEFINE next == IF read_audio_format(loop.device) THEN upsert(loop.candidate, Described)
                   ELSE loop.candidate
<1>1. WatcherSame /\ store' = store /\ service' = service
  BY DEF AddDevice, Step, WatcherSame
<1>2. WatcherInv' /\ News' = News /\ Actual' = Actual
  BY <1>1, LoopLeavesWatcher
<1>3. loop.at = "format" /\ loop' = [loop EXCEPT !.at = "devices", !.candidate = next]
  BY DEF AddDevice, Step
<1>4. SoundEntries(next) /\ next \in SUBSET DeviceEntry
  BY <1>3, AddKeepsSound DEF SoundIInv, CandidateInv, CatalogTypeOK
<1>5. next = loop.candidate \/ next = loop.candidate \cup {Described}
  BY <1>3, UpsertAdds
<1> HIDE DEF next
<1>6. /\ loop'.at = "devices" /\ loop'.todo = loop.todo /\ loop'.flow = loop.flow
      /\ loop'.default = loop.default /\ loop'.candidate = next
  BY <1>3 DEF SoundIInv, CatalogTypeOK
<1>7. CatalogTypeOK'
  BY <1>1, <1>3, <1>4 DEF SoundIInv, CatalogTypeOK, WatcherSame
<1>8. InFlow' = InFlow /\ Present' = Present /\ Earlier' = Earlier
  BY <1>1, <1>6 DEF InFlow, Present, Earlier, WatcherSame
<1>9. loop.device \in InFlow \ loop.todo /\ loop.todo \subseteq InFlow
  BY <1>3 DEF SoundIInv, CandidateInv
<1>10. /\ Described.id = loop.device /\ Described.flow = loop.flow /\ Described.state = loop.state
       /\ Described.default <=> (loop.state = "active" /\ loop.device = loop.default)
  BY DEF Described
<1>11. CandidateInv'
  <2>1. SoundEntries(loop.candidate)' /\ SoundEntries(store.catalog)'
    BY <1>1, <1>4, <1>6 DEF SoundIInv, CandidateInv, SoundEntries
  <2>2. \A e \in next : /\ e.id \notin loop.todo
                        /\ e.flow = loop.flow /\ e.default => e.id = loop.default
    BY <1>3, <1>5, <1>9, <1>10 DEF SoundIInv, CandidateInv
  <2>3. loop.flow = FirstFlow => \A e \in next : e.flow = FirstFlow
    BY <1>5, <1>10 DEF SoundIInv, CandidateInv
  <2> QED
    BY <1>6, <1>8, <1>9, <2>1, <2>2, <2>3 DEF CandidateInv
<1>12. ASSUME Cardinality(Devices) <= CatalogLimit, Agrees PROVE Agrees'
  <2> DEFINE Read == Earlier \cup (Present \ (loop.todo \cup {loop.device}))
             Entry(d) == [id |-> d, flow |-> FlowOf[d], state |-> "active",
                          default |-> default[FlowOf[d]] = d]
  <2>1. /\ loop.candidate = {e \in Actual : e.id \in Read}
        /\ loop.todo \subseteq Present /\ loop.default = default[loop.flow]
        /\ loop.device \in Present /\ loop.state = endpoint[loop.device]
    BY <1>3, <1>12 DEF Agrees, Passed
  <2>2. Passed' = Read \cup {loop.device}
    BY <1>6, <1>8, <1>9, <2>1 DEF Passed
  <2>3. Actual = {Entry(d) : d \in Usable}
    BY DEF Actual
  <2>4. \A d \in Usable : Entry(d).id = d
    OBVIOUS
  <2>5. next = {e \in Actual : e.id \in Read \cup {loop.device}}
    <3>1. CASE loop.device \in Usable
      <4>1. next = loop.candidate \cup {Described}
        <5>1. read_audio_format(loop.device)
          BY <3>1 DEF Usable, read_audio_format
        <5> QED
          BY <1>3, <1>12, <5>1, UpsertAdds, RoomForOneMore DEF next
      <4>2. Described = Entry(loop.device)
        BY <1>9, <2>1, <3>1 DEF Described, Usable, InFlow
      <4>3. \A e \in Actual : e.id = loop.device => e = Entry(loop.device)
        BY <2>3, <2>4
      <4>4. Entry(loop.device) \in Actual
        BY <2>3, <3>1
      <4> HIDE DEF Entry
      <4> QED
        BY <1>10, <2>1, <4>1, <4>2, <4>3, <4>4
    <3>2. CASE loop.device \notin Usable
      <4>1. ~read_audio_format(loop.device)
        BY <1>9, <3>2 DEF Usable, read_audio_format, InFlow
      <4>2. \A e \in Actual : e.id # loop.device
        BY <2>3, <2>4, <3>2
      <4> QED
        BY <2>1, <4>1, <4>2 DEF next
    <3> QED
      BY <3>1, <3>2
  <2>6. endpoint' = endpoint /\ default' = default
    BY <1>1 DEF WatcherSame
  <2> HIDE DEF Read
  <2> QED
    BY <1>2, <1>6, <1>8, <2>1, <2>2, <2>5, <2>6 DEF Agrees
<1> QED
  BY <1>2, <1>7, <1>11, <1>12 DEF SoundIInv, ReadInv

LEMMA NextFlowKeepsCatalog ==
  ASSUME SoundIInv, NextFlow
  PROVE  SoundIInv' /\ (ReadInv => ReadInv')
<1>0. loop.at = "devices" /\ loop.todo = {}
  BY DEF NextFlow
<1>1. WatcherSame /\ store' = store /\ service' = service
  BY DEF NextFlow, Step, WatcherSame
<1>2. WatcherInv' /\ News' = News /\ Actual' = Actual
  BY <1>1, LoopLeavesWatcher
<1>3. \A e \in Actual : e.id \in Usable /\ e.id \in Devices /\ endpoint[e.id] = "active"
  BY DEF Actual, Usable
<1>4. CASE loop.flow = FirstFlow
  <2>1. PICK w \in Flows \ {FirstFlow} : loop' = [loop EXCEPT !.at = "collection", !.flow = w]
    BY <1>4 DEF NextFlow, Step
  <2>2. /\ loop'.at = "collection" /\ loop'.flow = w /\ loop'.candidate = loop.candidate
    BY <2>1 DEF SoundIInv, CatalogTypeOK
  <2>3. CatalogTypeOK'
    BY <1>1, <2>1 DEF SoundIInv, CatalogTypeOK, WatcherSame
  <2>4. CandidateInv'
    <3>1. SoundEntries(loop.candidate)' /\ SoundEntries(store.catalog)'
      BY <1>1, <2>2 DEF SoundIInv, CandidateInv, SoundEntries
    <3>2. \A e \in loop.candidate : e.flow = FirstFlow
      BY <1>4 DEF SoundIInv, CandidateInv
    <3> QED
      BY <2>1, <2>2, <3>1, <3>2 DEF CandidateInv
  <2>5. Agrees => Agrees'
    <3> SUFFICES ASSUME Agrees PROVE Agrees'
      OBVIOUS
    <3>1. loop.candidate = {e \in Actual : e.id \in Earlier \cup (Present \ loop.todo)}
      BY <1>0 DEF Agrees, Passed
    <3>2. Earlier = {} /\ Present \ loop.todo = Present
      BY <1>0, <1>4 DEF Earlier
    <3>3. Passed' = {d \in Devices : FlowOf[d] = FirstFlow}
      BY <2>1, <2>2 DEF Passed, Earlier
    <3>4. \A e \in Actual : e.id \in Present <=> FlowOf[e.id] = FirstFlow
      BY <1>3, <1>4 DEF Present, InFlow
    <3>5. loop.candidate = {e \in Actual : e.id \in Passed'}
      BY <1>3, <3>1, <3>2, <3>3, <3>4
    <3> QED
      BY <1>2, <2>2, <3>5 DEF Agrees
  <2> QED
    BY <1>2, <2>3, <2>4, <2>5 DEF SoundIInv, ReadInv
<1>5. CASE loop.flow # FirstFlow
  <2>1. loop' = [loop EXCEPT !.at = "publish"]
    BY <1>5 DEF NextFlow, Step
  <2>2. loop'.at = "publish" /\ loop'.flow = loop.flow /\ loop'.candidate = loop.candidate
    BY <2>1 DEF SoundIInv, CatalogTypeOK
  <2>3. CatalogTypeOK'
    BY <1>1, <2>1 DEF SoundIInv, CatalogTypeOK, WatcherSame
  <2>4. CandidateInv'
    <3>1. SoundEntries(loop.candidate)' /\ SoundEntries(store.catalog)'
      BY <1>1, <2>2 DEF SoundIInv, CandidateInv, SoundEntries
    <3> QED
      BY <1>5, <2>2, <3>1 DEF CandidateInv
  <2>5. Agrees => Agrees'
    <3> SUFFICES ASSUME Agrees PROVE Agrees'
      OBVIOUS
    <3>1. loop.candidate = {e \in Actual : e.id \in Earlier \cup (Present \ loop.todo)}
      BY <1>0 DEF Agrees, Passed
    <3>2. \A d \in Devices : FlowOf[d] \in {FirstFlow, loop.flow}
      BY <1>5, DeviceAssumption DEF SoundIInv, CatalogTypeOK
    <3>3. \A e \in Actual : e.id \in Earlier \cup Present
      BY <1>3, <1>5, <3>2 DEF Earlier, Present, InFlow
    <3>4. Passed' = Devices
      BY <2>2 DEF Passed
    <3>5. loop.candidate = {e \in Actual : e.id \in Devices}
      BY <1>0, <1>3, <3>1, <3>3
    <3> QED
      BY <1>2, <2>2, <3>4, <3>5 DEF Agrees
  <2> QED
    BY <1>2, <2>3, <2>4, <2>5 DEF SoundIInv, ReadInv
<1> QED
  BY <1>4, <1>5

\* The end of a refresh, published or given up.
LEMMA EndKeepsCatalog ==
  ASSUME SoundIInv, Commit \/ Fail
  PROVE  SoundIInv' /\ (ReadInv => ReadInv')
<1>0. FirstFlow \in Flows
  BY DeviceAssumption
<1>1. CASE Commit
  <2>1. WatcherSame /\ loop.at = "publish"
    BY <1>1 DEF Commit, WatcherSame
  <2>2. WatcherInv' /\ News' = News /\ Actual' = Actual
    BY <2>1, LoopLeavesWatcher
  <2>3. store.sequence \in Nat /\ service = store
    BY DEF SoundIInv, CatalogTypeOK
  <2>4. /\ store' = [catalog |-> loop.candidate, sequence |-> store.sequence + 1]
        /\ service' = store'
    <3>1. store.sequence + 1 > store.sequence
      BY <2>3
    <3> QED
      BY <1>1, <2>3, <3>1 DEF Commit
  <2>5. PICK failed \in BOOLEAN :
           loop' = [at |-> "idle", flow |-> FirstFlow, todo |-> {}, default |-> NoDevice,
                    device |-> NoDevice, state |-> "absent", candidate |-> {}, failed |-> failed]
    BY <1>1 DEF Commit, Idle
  <2>6. CatalogTypeOK'
    BY <1>0, <2>1, <2>4, <2>5 DEF SoundIInv, CatalogTypeOK, WatcherSame, States
  <2>7. CandidateInv'
    <3>1. store'.catalog = loop.candidate /\ loop'.candidate = {}
      BY <2>4, <2>5
    <3>2. SoundEntries(store.catalog)' /\ SoundEntries(loop.candidate)'
      BY <3>1, FS_EmptySet, DeviceAssumption DEF SoundIInv, CandidateInv, SoundEntries
    <3> QED
      BY <2>5, <3>2 DEF CandidateInv
  <2>8. Agrees => Agrees'
    <3>1. Agrees => loop.candidate = {e \in Actual : e.id \in Devices}
      BY <2>1 DEF Agrees, Passed
    <3>2. \A e \in Actual : e.id \in Devices
      BY DEF Actual, Usable
    <3>3. Agrees => store'.catalog = Actual
      BY <2>4, <3>1, <3>2
    <3> QED
      BY <2>2, <2>5, <3>3 DEF Agrees
  <2> QED
    BY <2>2, <2>6, <2>7, <2>8 DEF SoundIInv, ReadInv
<1>2. CASE Fail
  <2>1. WatcherSame /\ store' = store /\ service' = service
    BY <1>2 DEF Fail, WatcherSame
  <2>2. WatcherInv' /\ News' = News
    BY <2>1, LoopLeavesWatcher
  <2>3. PICK at \in {"off", "idle"} :
           loop' = [at |-> at, flow |-> FirstFlow, todo |-> {}, default |-> NoDevice,
                    device |-> NoDevice, state |-> "absent", candidate |-> {}, failed |-> TRUE]
    BY <1>2 DEF Fail, Idle
  <2>4. CatalogTypeOK'
    BY <1>0, <2>1, <2>3 DEF SoundIInv, CatalogTypeOK, WatcherSame, States
  <2>5. CandidateInv'
    <3>1. SoundEntries(store.catalog)' /\ SoundEntries(loop.candidate)'
      BY <2>1, <2>3, FS_EmptySet, DeviceAssumption DEF SoundIInv, CandidateInv, SoundEntries
    <3> QED
      BY <2>3, <3>1 DEF CandidateInv
  <2>6. Agrees'
    BY <2>3 DEF Agrees
  <2> QED
    BY <2>2, <2>4, <2>5, <2>6 DEF SoundIInv, ReadInv
<1> QED
  BY <1>1, <1>2

LEMMA StutterKeepsCatalog ==
  ASSUME SoundIInv, UNCHANGED deviceVars
  PROVE  SoundIInv' /\ (ReadInv => ReadInv')
<1>1. WatcherSame /\ loop' = loop /\ store' = store /\ service' = service
  BY DEF deviceVars, WatcherSame
<1>2. WatcherInv' /\ News' = News /\ Actual' = Actual
  BY <1>1, LoopLeavesWatcher
<1>3. CatalogTypeOK' /\ CandidateInv'
  BY <1>1 DEF SoundIInv, CatalogTypeOK, CandidateInv, SoundEntries, InFlow, WatcherSame
<1>4. Agrees' = Agrees
  BY <1>1, <1>2 DEF Agrees, Passed, Present, Earlier, InFlow, WatcherSame
<1> QED
  BY <1>2, <1>3, <1>4 DEF SoundIInv, ReadInv

\* Only soundness is asked where the catalog may be too small for the endpoints: there
\* the enumeration drops those it has no room for.
LEMMA CatalogNext ==
  ASSUME SoundIInv, [DeviceNext]_deviceVars
  PROVE  /\ SoundIInv'
         /\ Cardinality(Devices) <= CatalogLimit /\ ReadInv => ReadInv'
<1>1. CASE Change
  BY <1>1, ChangeKeepsCatalog
<1>2. ASSUME NEW t \in Threads, publish(t) PROVE SoundIInv' /\ (ReadInv => ReadInv')
  BY <1>2, ReportKeepsCatalog
<1>3. CASE refresh_now \/ poll_and_refresh
  BY <1>3, BeginKeepsCatalog
<1>4. CASE EnumAudioEndpoints \/ default_endpoint_id
  BY <1>4, CollectKeepsCatalog
<1>5. CASE GetState \/ NextFlow
  BY <1>5, GetStateKeepsCatalog, NextFlowKeepsCatalog
<1>6. CASE AddDevice
  BY <1>6, AddKeepsCatalog
<1>7. CASE Commit \/ Fail
  BY <1>7, EndKeepsCatalog
<1>8. CASE UNCHANGED deviceVars
  BY <1>8, StutterKeepsCatalog
<1> QED
  BY <1>1, <1>2, <1>3, <1>4, <1>5, <1>6, <1>7, <1>8 DEF DeviceNext, Refreshing

\* Whatever changes fall into an enumeration, clients read a catalog they can decode: no
\* endpoint twice, one default per flow and that one active, nothing of an unsupported
\* format and no more than there is room for (windows_device_catalog.cpp:202-265,
\* device_catalog.cpp:78-106).
THEOREM CatalogStaysSound == DeviceSpec => []CatalogIsSound
<1>1. SoundIInv => CatalogIsSound
  BY DEF SoundIInv, CatalogTypeOK, CandidateInv, SoundEntries, CatalogIsSound, DeviceEntry
<1>2. DeviceSpec => []SoundIInv
  BY CatalogInit, CatalogNext, PTL DEF DeviceSpec
<1> QED
  BY <1>1, <1>2, PTL

\* No change of an endpoint is lost, however many reports the watcher drops and whenever
\* they come: as long as the catalog has room for the endpoints there are, a catalog that
\* is not what Windows has is about to be refreshed, unless its last refresh failed
\* (windows_device_watcher.cpp:38-68, 122-147; windows_device_catalog.cpp:202-265).
THEOREM ChangesReachTheCatalog ==
  ASSUME Cardinality(Devices) <= CatalogLimit
  PROVE  DeviceSpec => []NoChangeIsLost
<1>1. SoundIInv /\ ReadInv => NoChangeIsLost
  <2>1. SoundIInv /\ ReadInv => (loop.at = "idle" => News \/ loop.failed \/ store.catalog = Actual)
    BY DEF ReadInv, Agrees
  <2> QED
    BY <2>1 DEF NoChangeIsLost, News
<1>2. DeviceInit => SoundIInv /\ ReadInv
  BY CatalogInit
<1>3. SoundIInv /\ ReadInv /\ [DeviceNext]_deviceVars => (SoundIInv /\ ReadInv)'
  BY CatalogNext
<1>4. DeviceSpec => [](SoundIInv /\ ReadInv)
  BY <1>2, <1>3, PTL DEF DeviceSpec
<1> QED
  BY <1>1, <1>4, PTL
===============================================================================
