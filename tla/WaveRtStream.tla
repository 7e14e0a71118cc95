----------------------------- MODULE WaveRtStream ------------------------------
(***************************************************************************)
(* A stream of the virtual audio driver (hibiki_miniport_wavert.cpp).      *)
(* PortCls allocates and frees its buffer and moves it between the KS      *)
(* states, one call at a time; clients ask for the position and register   *)
(* events at any moment.  While the stream runs, a periodic timer queues a *)
(* DPC that derives the position from the interrupt time and, when it has  *)
(* passed a boundary, sets the registered events.  Stopping the timer must *)
(* wait for a DPC that is inside the stream before the buffer can go.      *)
(*                                                                         *)
(* A unit of time is the time of one byte, so bytes and time are counted   *)
(* alike; 64-bit saturation is out of reach and left out.                  *)
(***************************************************************************)
EXTENDS Integers, FiniteSets

CONSTANTS
    BufferBytes,   \* the size of a buffer
    Events,        \* the events of clients
    EventLimit,    \* HIBIKI_MAX_NOTIFICATION_EVENTS_V1
    MaxTime,       \* bound: units of time
    MaxCalls       \* bound: calls of PortCls

ASSUME WaveRtAssumption == BufferBytes \in Nat \ {0}

VARIABLES
    now,       \* KeQueryInterruptTime
    pin,       \* [state, buffer, notifications]: m_State, m_DmaBufferSize, m_BufferNotificationCount
    position,  \* [active, start, base, boundary, total]
    timer,     \* [set, queued]: the timer and the queue of the DPC
    rundown,   \* "open", "closing" or "closed"
    dpc,       \* where the DPC is
    call,      \* [at, to, wasActive]: the call of PortCls under way
    events,    \* the registered events
    signalled, \* the events that are set
    played,    \* history: time spent in RUN since the position was reset
    told,      \* history: the boundary of the last signal
    calls      \* calls of PortCls so far

streamVars == <<now, pin, position, timer, rundown, dpc, call, events, signalled,
                played, told, calls>>

NoCall == [at |-> "none", to |-> "none", wasActive |-> FALSE]
AtRest == [active |-> FALSE, start |-> 0, base |-> 0, boundary |-> 0, total |-> 0]

StreamInit ==
    /\ now = 0
    /\ pin = [state |-> "stop", buffer |-> 0, notifications |-> 0]
    /\ position = AtRest
    /\ timer = [set |-> FALSE, queued |-> FALSE]
    /\ rundown = "closed"
    /\ dpc = "none"
    /\ call = NoCall
    /\ events = {} /\ signalled = {}
    /\ played = 0 /\ told = 0 /\ calls = 0

Tick ==
    /\ now < MaxTime /\ now' = now + 1
    /\ played' = IF pin.state = "run" THEN played + 1 ELSE played
    /\ UNCHANGED <<pin, position, timer, rundown, dpc, call, events, signalled, told, calls>>

(***************************************************************************)
(* The position.  NotificationBoundaryLocked numbers the boundaries: one   *)
(* or two to a buffer, the first of two at the first byte past the half.   *)
(***************************************************************************)
NotificationBoundaryLocked(total) ==
    IF pin.notifications = 0 THEN 0
    ELSE (total \div BufferBytes) * pin.notifications
         + (IF pin.notifications = 2 /\ total % BufferBytes >= (BufferBytes + 1) \div 2
            THEN 1 ELSE 0)

Elapsed == position.base + now - position.start
Moves == position.active /\ pin.buffer # 0 /\ Elapsed > position.total
Passes == Moves /\ NotificationBoundaryLocked(Elapsed) > position.boundary
UpdatePositionLocked ==
    IF ~Moves THEN position
    ELSE [position EXCEPT !.total = Elapsed,
             !.boundary = IF Passes THEN NotificationBoundaryLocked(Elapsed) ELSE @]

(***************************************************************************)
(* The timer and its DPC: it takes the rundown protection, or gives up;    *)
(* updates the position under the lock; sets the events if that passed a   *)
(* boundary; releases the protection.                                      *)
(***************************************************************************)
Expire ==
    /\ timer.set /\ ~timer.queued
    /\ timer' = [timer EXCEPT !.queued = TRUE]
    /\ UNCHANGED <<now, pin, position, rundown, dpc, call, events, signalled, played,
                   told, calls>>

PositionTimerDpc ==
    /\ dpc = "none" /\ timer.queued
    /\ timer' = [timer EXCEPT !.queued = FALSE]
    /\ dpc' = "entering"
    /\ UNCHANGED <<now, pin, position, rundown, call, events, signalled, played, told, calls>>

AcquireRundown ==
    /\ dpc = "entering"
    /\ dpc' = IF rundown = "open" THEN "inside" ELSE "none"
    /\ UNCHANGED <<now, pin, position, timer, rundown, call, events, signalled, played,
                   told, calls>>

DpcUpdates ==
    /\ dpc = "inside"
    /\ position' = UpdatePositionLocked
    /\ dpc' = IF Passes THEN "signal" ELSE "leaving"
    /\ UNCHANGED <<now, pin, timer, rundown, call, events, signalled, played, told, calls>>

SignalNotificationEventsAtDpc ==
    /\ dpc = "signal"
    /\ signalled' = signalled \cup events
    /\ told' = position.boundary
    /\ dpc' = "leaving"
    /\ UNCHANGED <<now, pin, position, timer, rundown, call, events, played, calls>>

\* Mutant: the DPC returns without giving the rundown protection back.
ReleaseRundownNot ==
    /\ dpc = "leaving"
    /\ UNCHANGED streamVars
ReleaseRundown ==
    /\ dpc = "leaving" /\ dpc' = "none"
    /\ UNCHANGED <<now, pin, position, timer, rundown, call, events, signalled, played,
                   told, calls>>

Dpc == \/ PositionTimerDpc \/ AcquireRundown \/ DpcUpdates
       \/ SignalNotificationEventsAtDpc \/ ReleaseRundown

(***************************************************************************)
(* Calls of clients: the position, which is updated first but whose        *)
(* notification is dropped, and the events.                                *)
(***************************************************************************)
GetPosition ==
    /\ Moves
    /\ position' = UpdatePositionLocked
    /\ UNCHANGED <<now, pin, timer, rundown, dpc, call, events, signalled, played, told, calls>>

RegisterNotificationEvent(e) ==
    /\ e \notin events /\ Cardinality(events) < EventLimit
    /\ events' = events \cup {e}
    /\ UNCHANGED <<now, pin, position, timer, rundown, dpc, call, signalled, played, told, calls>>

UnregisterNotificationEvent(e) ==
    /\ e \in events
    /\ events' = events \ {e} /\ signalled' = signalled \ {e}
    /\ UNCHANGED <<now, pin, position, timer, rundown, dpc, call, played, told, calls>>

\* The client takes the event that woke it; it is an auto-reset event.
Wake(e) ==
    /\ e \in signalled
    /\ signalled' = signalled \ {e}
    /\ UNCHANGED <<now, pin, position, timer, rundown, dpc, call, events, played, told, calls>>

(***************************************************************************)
(* Calls of PortCls.                                                       *)
(***************************************************************************)
Called == call = NoCall /\ calls < MaxCalls /\ calls' = calls + 1

\* AllocateBufferCore, when the pages are there.
AllocateBuffer ==
    /\ Called
    /\ pin.buffer = 0
    /\ \E n \in 0..2 : pin' = [pin EXCEPT !.buffer = BufferBytes, !.notifications = n]
    /\ position' = [AtRest EXCEPT !.active = position.active]
    /\ played' = 0 /\ told' = 0
    /\ UNCHANGED <<now, timer, rundown, dpc, call, events, signalled>>

\* HibikiWaveRtStateTransitionAllowedV1
Allowed(from, to) ==
    \/ from = to
    \/ <<from, to>> \in {<<"stop", "acquire">>, <<"acquire", "pause">>, <<"acquire", "stop">>,
                         <<"pause", "run">>, <<"pause", "acquire">>, <<"run", "pause">>}

\* The calls that stop the timer first, and what they go on to.
SetState(to) ==
    /\ Called
    /\ Allowed(pin.state, to)
    /\ \/ /\ to = "stop" \/ (to = "pause" /\ pin.state = "run")
          /\ call' = [at |-> "exchange", to |-> to, wasActive |-> FALSE]
          /\ UNCHANGED <<pin, position>>
       \/ /\ to \in {"acquire", "pause"} /\ pin.state # "run"
          /\ pin' = [pin EXCEPT !.state = to]
          /\ UNCHANGED <<call, position>>
       \/ /\ to = "run" /\ pin.buffer # 0 /\ pin.state # "run"
          /\ pin' = [pin EXCEPT !.state = "run"]
          /\ call' = [at |-> "start", to |-> to, wasActive |-> FALSE]
          /\ UNCHANGED position
    /\ UNCHANGED <<now, timer, rundown, dpc, events, signalled, played, told>>

\* PortCls frees the buffer of a stream that does not run.
FreeBuffer ==
    /\ Called
    /\ pin.state # "run" /\ pin.buffer # 0
    /\ call' = [at |-> "exchange", to |-> "free", wasActive |-> FALSE]
    /\ UNCHANGED <<now, pin, position, timer, rundown, dpc, events, signalled, played, told>>

\* StartPositionTimer
StartClock ==
    /\ call.at = "start"
    /\ IF position.active THEN call' = NoCall /\ UNCHANGED <<position, told>>
       ELSE /\ call' = [call EXCEPT !.at = "reopen"]
            /\ position' = [position EXCEPT !.start = now, !.base = position.total,
                               !.boundary = NotificationBoundaryLocked(position.total)]
            /\ told' = position'.boundary
    /\ UNCHANGED <<now, pin, timer, rundown, dpc, events, signalled, played, calls>>

Activate ==
    /\ call.at = "reopen"
    /\ rundown' = "open"
    /\ position' = [position EXCEPT !.active = TRUE]
    /\ call' = [call EXCEPT !.at = "timer"]
    /\ UNCHANGED <<now, pin, timer, dpc, events, signalled, played, told, calls>>

SetTimer ==
    /\ call.at = "timer"
    /\ timer' = [timer EXCEPT !.set = TRUE]
    /\ call' = NoCall
    /\ UNCHANGED <<now, pin, position, rundown, dpc, events, signalled, played, told, calls>>

\* StopPositionTimer
Exchange ==
    /\ call.at = "exchange"
    /\ position' = [position EXCEPT !.active = FALSE]
    /\ call' = [call EXCEPT !.at = "cancel", !.wasActive = position.active]
    /\ UNCHANGED <<now, pin, timer, rundown, dpc, events, signalled, played, told, calls>>

CancelTimer ==
    /\ call.at = "cancel"
    /\ timer' = [set |-> FALSE, queued |-> FALSE]
    /\ call' = [call EXCEPT !.at = IF call.wasActive THEN "wait" ELSE "stopped"]
    /\ rundown' = IF call.wasActive THEN "closing" ELSE rundown
    /\ UNCHANGED <<now, pin, position, dpc, events, signalled, played, told, calls>>

\* Mutant: the timer is cancelled but nobody waits for the DPC that is inside.
WaitForDpcNot ==
    /\ call.at = "wait"
    /\ rundown' = "closed"
    /\ call' = [call EXCEPT !.at = "stopped"]
    /\ UNCHANGED <<now, pin, position, timer, dpc, events, signalled, played, told, calls>>
WaitForDpc ==
    /\ call.at = "wait"
    /\ dpc \in {"none", "entering"}
    /\ rundown' = "closed"
    /\ call' = [call EXCEPT !.at = "stopped"]
    /\ UNCHANGED <<now, pin, position, timer, dpc, events, signalled, played, told, calls>>

\* What SetState and FreeBuffer do once the timer has stopped.
Stopped ==
    /\ call.at = "stopped"
    /\ call' = NoCall
    /\ pin' = CASE call.to = "free" -> [pin EXCEPT !.buffer = 0, !.notifications = 0]
                [] OTHER -> [pin EXCEPT !.state = call.to]
    /\ IF call.to = "pause" THEN UNCHANGED <<position, played, told>>
       ELSE position' = AtRest /\ played' = 0 /\ told' = 0
    /\ UNCHANGED <<now, timer, rundown, dpc, events, signalled, calls>>

PortCls ==
    \/ AllocateBuffer \/ FreeBuffer
    \/ \E to \in {"stop", "acquire", "pause", "run"} : SetState(to)
Proceed ==
    \/ StartClock \/ Activate \/ SetTimer
    \/ Exchange \/ CancelTimer \/ WaitForDpc \/ Stopped

StreamNext ==
    \/ Tick \/ Expire \/ Dpc
    \/ GetPosition
    \/ \E e \in Events :
          RegisterNotificationEvent(e) \/ UnregisterNotificationEvent(e) \/ Wake(e)
    \/ PortCls \/ Proceed

\* A DPC runs to its end, and a call of PortCls goes on while it is not blocked.
StreamFairness == WF_streamVars(Dpc) /\ WF_streamVars(Proceed)
StreamSpec == StreamInit /\ [][StreamNext]_streamVars /\ StreamFairness
-------------------------------------------------------------------------------
(* Properties *)

\* No DPC is inside a stream whose buffer is gone or whose position is being reset,
\* and none brings a stopped clock back to life (StopPositionTimer, 229-242).
QuietOnceStopped ==
    dpc \in {"inside", "signal", "leaving"} =>
        pin.buffer # 0 /\ call.at # "stopped"

\* The position never counts time the stream did not run: not the time of a pause,
\* and nothing from before a stop (StartPositionTimer 205-227, SetState 637-682).
PositionIsPlayed == position.total <= played

\* Between calls a stream in RUN has its clock going and its timer set, and no other
\* stream has (637-682).
RunsIffTimed ==
    call = NoCall =>
        /\ pin.state = "run" <=> position.active
        /\ position.active <=> timer.set

\* The clock of a stream, its timer and its buffer agree with its state.
StreamClock == QuietOnceStopped /\ PositionIsPlayed /\ RunsIffTimed

\* Every call of PortCls returns: stopping the clock never waits for ever for the DPC
\* (173-198, 229-242).
PortClsReturns == [](call # NoCall => <>(call = NoCall))

\* "signals registered notification events at the requested one- or two-boundary
\* cadence" (driver/wdk/README.md:60-62): when a DPC leaves, the last boundary the
\* position has passed has been signalled.
BoundariesAreSignalled == dpc = "leaving" /\ call = NoCall => told = position.boundary
===============================================================================
