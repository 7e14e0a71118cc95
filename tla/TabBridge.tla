------------------------------- MODULE TabBridge -------------------------------
(***************************************************************************)
(* The browser tab bridge.  The page of the extension (offscreen.js)       *)
(* captures a tab and sends its audio in packets over a WebSocket, which   *)
(* it opens again, a bounded number of times, when it breaks.  The receiver*)
(* (tab_bridge.cpp) is a thread of the engine host that serves one         *)
(* connection at a time and pushes what it decodes into a ring of slots;   *)
(* the host's loop takes one block out at each turn, and stops the         *)
(* receiver at its end.                                                    *)
(*                                                                         *)
(* TCP keeps what was sent in order.  A connection waits in the listener's *)
(* backlog until it is accepted and is cut when the listener closes.       *)
(***************************************************************************)
EXTENDS Integers, Sequences, FiniteSets

CONSTANTS
    SlotCount,     \* slots of TabCaptureQueueV1
    RetryLimit,    \* BRIDGE_RETRY_MAX_ATTEMPTS
    NoPacket,
    MaxSockets,    \* bound: connections opened by the page
    MaxPackets,    \* bound: packets captured
    MaxCaptures    \* bound: captures started

ASSUME TabAssumption ==
    /\ {SlotCount, RetryLimit} \subseteq Nat \ {0}
    /\ {MaxSockets, MaxPackets, MaxCaptures} \subseteq Nat

Sockets == 1..MaxSockets
NoSocket == 0
CloseFrame == 0
TabPackets == 1..MaxPackets \* numbered as they are captured
\* Every third packet has another rate than the sink's.
Foreign(p) == p % 3 = 0

VARIABLES
    page,      \* [capturing, bridge, connected, timer, attempt, exhausted, captures]
    ready,     \* the page's view of each socket
    peer,      \* the receiver's side of each socket
    wire,      \* what each socket has under way to the receiver
    captured,  \* packets captured so far
    receiver,  \* [at, socket, packet]: the receiver's thread
    listener,  \* "open" or "closed"
    client,    \* client_socket_
    stop,      \* stop_requested_
    missed,    \* history: stop() looked while the receiver had an unregistered client
    slots,     \* slots_: [sequence, packet] of each
    producer, consumer,
    hostLoop,  \* the host's thread
    block      \* the block that the loop took last

pageVars == <<page, ready, captured>>
linkVars == <<peer, wire>>
serverVars == <<receiver, listener, client, stop, missed>>
tabRingVars == <<slots, producer, consumer>>
loopVars == <<hostLoop, block>>
tabVars == <<pageVars, linkVars, serverVars, tabRingVars, loopVars>>

IdlePage == [capturing |-> FALSE, bridge |-> NoSocket, connected |-> FALSE, timer |-> FALSE,
             attempt |-> 0, exhausted |-> FALSE, captures |-> 0]

TabInit ==
    /\ page = IdlePage
    /\ ready = [s \in Sockets |-> "unused"]
    /\ peer = [s \in Sockets |-> "none"]
    /\ wire = [s \in Sockets |-> <<>>]
    /\ captured = 0
    /\ receiver = [at |-> "begin", socket |-> NoSocket, packet |-> NoPacket]
    /\ listener = "open" /\ client = NoSocket /\ stop = FALSE /\ missed = FALSE
    /\ slots = [i \in 0..SlotCount - 1 |-> [sequence |-> 0, packet |-> NoPacket]]
    /\ producer = 0 /\ consumer = 0
    /\ hostLoop = "turn" /\ block = NoPacket

(***************************************************************************)
(* The page.                                                               *)
(***************************************************************************)
Unused == {s \in Sockets : ready[s] = "unused"}

\* connectBridge on a page p: a socket is opened unless there is one.
Connected(p) ==
    IF ~p.capturing \/ p.bridge # NoSocket \/ Unused = {}
    THEN page' = p /\ UNCHANGED <<ready, peer>>
    ELSE \E s \in Unused :
            /\ \A t \in Unused : s <= t
            /\ page' = [p EXCEPT !.bridge = s]
            /\ ready' = [ready EXCEPT ![s] = "connecting"]
            /\ peer' = [peer EXCEPT ![s] = IF listener = "open" THEN "backlog" ELSE "cut"]

\* teardownCaptureGraph: the bridge is told to close and forgotten.
Closed(s) == /\ ready' = [ready EXCEPT ![s] = "closing"]
             /\ wire' = [wire EXCEPT ![s] = Append(@, CloseFrame)]
StartCapture ==
    /\ ~page.capturing /\ page.captures < MaxCaptures
    /\ Connected([IdlePage EXCEPT !.capturing = TRUE, !.captures = page.captures + 1])
    /\ UNCHANGED <<captured, wire, serverVars, tabRingVars, loopVars>>
StopCapture ==
    /\ page.capturing
    /\ page' = [IdlePage EXCEPT !.captures = page.captures]
    /\ IF page.bridge = NoSocket THEN UNCHANGED <<ready, wire>> ELSE Closed(page.bridge)
    /\ UNCHANGED <<captured, peer, serverVars, tabRingVars, loopVars>>

OnOpen(s) ==
    /\ ready[s] = "connecting" /\ peer[s] = "upgraded"
    /\ ready' = [ready EXCEPT ![s] = "open"]
    /\ page' = IF page.bridge # s \/ ~page.capturing THEN page
               ELSE [page EXCEPT !.attempt = 0, !.connected = TRUE]
    /\ UNCHANGED <<captured, linkVars, serverVars, tabRingVars, loopVars>>

\* scheduleBridgeRetry
Scheduled(p) ==
    IF p.timer THEN p
    ELSE IF p.attempt >= RetryLimit THEN [p EXCEPT !.exhausted = TRUE]
    ELSE [p EXCEPT !.exhausted = FALSE, !.attempt = @ + 1, !.timer = TRUE]

\* Mutant of OnClose: any socket that closes is taken for the bridge.
OnCloseAny(s) ==
    /\ ready[s] \in {"connecting", "open", "closing"} /\ peer[s] = "cut"
    /\ ready' = [ready EXCEPT ![s] = "closed"]
    /\ page' = IF ~page.capturing THEN page
               ELSE Scheduled([page EXCEPT !.bridge = NoSocket, !.connected = FALSE])
    /\ UNCHANGED <<captured, linkVars, serverVars, tabRingVars, loopVars>>
OnClose(s) ==
    /\ ready[s] \in {"connecting", "open", "closing"} /\ peer[s] = "cut"
    /\ ready' = [ready EXCEPT ![s] = "closed"]
    /\ page' = IF page.bridge # s \/ ~page.capturing THEN page
               ELSE Scheduled([page EXCEPT !.bridge = NoSocket, !.connected = FALSE])
    /\ UNCHANGED <<captured, linkVars, serverVars, tabRingVars, loopVars>>

RetryTimer ==
    /\ page.timer
    /\ Connected([page EXCEPT !.timer = FALSE])
    /\ UNCHANGED <<captured, wire, serverVars, tabRingVars, loopVars>>

\* The message retry-tab-bridge of the popup.
RetryNow ==
    /\ page.capturing /\ ~page.connected /\ (page.timer \/ page.exhausted)
    /\ Connected([page EXCEPT !.timer = FALSE, !.attempt = 0, !.exhausted = FALSE])
    /\ UNCHANGED <<captured, wire, serverVars, tabRingVars, loopVars>>

\* The packetizer: a packet is sent over an open bridge, and dropped otherwise.
Capture ==
    /\ page.capturing /\ captured < MaxPackets
    /\ captured' = captured + 1
    /\ wire' = IF page.bridge # NoSocket /\ ready[page.bridge] = "open"
               THEN [wire EXCEPT ![page.bridge] = Append(@, captured')] ELSE wire
    /\ UNCHANGED <<page, ready, peer, serverVars, tabRingVars, loopVars>>

Page == \/ StartCapture \/ StopCapture \/ RetryTimer \/ RetryNow \/ Capture
        \/ \E s \in Sockets : OnOpen(s) \/ OnClose(s)

(***************************************************************************)
(* The receiver's thread (TabBridgeServer::run and serve_client).          *)
(***************************************************************************)
ReceiverAt(place) == receiver.at = place
Goto(place) == receiver' = [receiver EXCEPT !.at = place]

Begin ==
    /\ ReceiverAt("begin") /\ Goto("check")
    /\ UNCHANGED <<pageVars, linkVars, listener, client, stop, missed, tabRingVars, loopVars>>

CheckStop ==
    /\ ReceiverAt("check") /\ Goto(IF stop THEN "leave" ELSE "accept")
    /\ UNCHANGED <<pageVars, linkVars, listener, client, stop, missed, tabRingVars, loopVars>>

\* accept returns the oldest connection, or fails once the listener is closed.
Accept ==
    /\ ReceiverAt("accept")
    /\ \/ /\ listener = "closed" /\ Goto("leave") /\ UNCHANGED peer
       \/ \E s \in Sockets :
             /\ peer[s] = "backlog" /\ \A t \in 1..s - 1 : peer[t] # "backlog"
             /\ peer' = [peer EXCEPT ![s] = "accepted"]
             /\ receiver' = [receiver EXCEPT !.at = "register", !.socket = s]
    /\ UNCHANGED <<pageVars, wire, listener, client, stop, missed, tabRingVars, loopVars>>

Register ==
    /\ ReceiverAt("register")
    /\ client' = receiver.socket
    /\ Goto("handshake")
    /\ UNCHANGED <<pageVars, linkVars, listener, stop, missed, tabRingVars, loopVars>>

\* The page asks for the upgrade at once; a connection it gave up ends in a close.
Handshake ==
    LET s == receiver.socket
    IN  /\ ReceiverAt("handshake")
        /\ IF peer[s] = "cut" \/ wire[s] # <<>> THEN Goto("ended") /\ UNCHANGED peer
           ELSE /\ peer' = [peer EXCEPT ![s] = "upgraded"]
                /\ Goto("serve")
        /\ UNCHANGED <<pageVars, wire, listener, client, stop, missed, tabRingVars, loopVars>>

\* next_ws_binary_message and the decoder: recv waits until something comes or the
\* socket is shut down; a close ends the connection.
Serve ==
    LET s == receiver.socket
    IN  /\ ReceiverAt("serve")
        /\ \/ peer[s] = "cut" /\ Goto("ended") /\ UNCHANGED wire
           \/ /\ peer[s] # "cut" /\ wire[s] # <<>>
              /\ wire' = [wire EXCEPT ![s] = Tail(@)]
              /\ receiver' = IF Head(wire[s]) = CloseFrame THEN [receiver EXCEPT !.at = "ended"]
                             ELSE [receiver EXCEPT !.at = "push", !.packet = Head(wire[s])]
        /\ UNCHANGED <<pageVars, peer, listener, client, stop, missed, tabRingVars, loopVars>>

\* The loop takes the connection down unless stop() already has.
Ended ==
    /\ ReceiverAt("ended")
    /\ client' = NoSocket
    /\ peer' = IF client = NoSocket THEN peer ELSE [peer EXCEPT ![client] = "cut"]
    /\ receiver' = [receiver EXCEPT !.at = "check", !.socket = NoSocket]
    /\ UNCHANGED <<pageVars, wire, listener, stop, missed, tabRingVars, loopVars>>

\* Closing the listener cuts what waits in its backlog.
CutBacklog == [s \in Sockets |-> IF peer[s] = "backlog" THEN "cut" ELSE peer[s]]
Leave ==
    /\ ReceiverAt("leave") /\ Goto("done")
    /\ listener' = "closed" /\ peer' = CutBacklog
    /\ UNCHANGED <<pageVars, wire, client, stop, missed, tabRingVars, loopVars>>

(***************************************************************************)
(* TabCaptureQueueV1::push: refuse another rate; drop when the ring is     *)
(* full; fill the slot; mark it ready; publish.                            *)
(***************************************************************************)
TabSlot(n) == n % SlotCount
PushChecksNothing ==
    /\ ReceiverAt("push")
    /\ Goto(IF Foreign(receiver.packet) THEN "serve" ELSE "fill")
    /\ UNCHANGED <<pageVars, linkVars, listener, client, stop, missed, tabRingVars, loopVars>>
PushChecks ==
    /\ ReceiverAt("push")
    /\ Goto(IF Foreign(receiver.packet) \/ producer - consumer >= SlotCount
            THEN "serve" ELSE "fill")
    /\ UNCHANGED <<pageVars, linkVars, listener, client, stop, missed, tabRingVars, loopVars>>

PushFills ==
    /\ ReceiverAt("fill") /\ Goto("ready")
    /\ slots' = [slots EXCEPT ![TabSlot(producer)].packet = receiver.packet]
    /\ UNCHANGED <<pageVars, linkVars, listener, client, stop, missed, producer, consumer, loopVars>>

PushMarks ==
    /\ ReceiverAt("ready") /\ Goto("publish")
    /\ slots' = [slots EXCEPT ![TabSlot(producer)].sequence = producer + 1]
    /\ UNCHANGED <<pageVars, linkVars, listener, client, stop, missed, producer, consumer, loopVars>>

PushPublishes ==
    /\ ReceiverAt("publish") /\ Goto("serve")
    /\ producer' = producer + 1
    /\ UNCHANGED <<pageVars, linkVars, listener, client, stop, missed, slots, consumer, loopVars>>

Receiver == \/ Begin \/ CheckStop \/ Accept \/ Register \/ Handshake \/ Serve \/ Ended \/ Leave
            \/ PushChecks \/ PushFills \/ PushMarks \/ PushPublishes

(***************************************************************************)
(* The host's loop: a block is taken out of its slot, then the slot is     *)
(* given back.  At its end the host stops the receiver: it asks, closes    *)
(* the listener, shuts the client down, and joins the thread.              *)
(***************************************************************************)
PopCopies ==
    /\ hostLoop = "turn" /\ consumer # producer
    /\ slots[TabSlot(consumer)].sequence = consumer + 1
    /\ block' = slots[TabSlot(consumer)].packet
    /\ hostLoop' = "popped"
    /\ UNCHANGED <<tabRingVars, pageVars, linkVars, serverVars>>

PopPublishes ==
    /\ hostLoop = "popped" /\ hostLoop' = "turn"
    /\ consumer' = consumer + 1
    /\ UNCHANGED <<block, slots, producer, pageVars, linkVars, serverVars>>

StopRequest ==
    /\ hostLoop = "turn" /\ hostLoop' = "close listener"
    /\ stop' = TRUE
    /\ UNCHANGED <<block, receiver, listener, client, missed, pageVars, linkVars, tabRingVars>>

CloseListener ==
    /\ hostLoop = "close listener" /\ hostLoop' = "close client"
    /\ listener' = "closed" /\ peer' = CutBacklog
    /\ UNCHANGED <<block, receiver, client, stop, missed, pageVars, wire, tabRingVars>>

\* Mutant: only the listener is closed.
CloseClientNot ==
    /\ hostLoop = "close client" /\ hostLoop' = "join"
    /\ missed' = ReceiverAt("register")
    /\ UNCHANGED <<block, peer, receiver, listener, client, stop, pageVars, wire, tabRingVars>>
CloseClient ==
    /\ hostLoop = "close client" /\ hostLoop' = "join"
    /\ missed' = ReceiverAt("register")
    /\ client' = NoSocket
    /\ peer' = IF client = NoSocket THEN peer ELSE [peer EXCEPT ![client] = "cut"]
    /\ UNCHANGED <<block, receiver, listener, stop, pageVars, wire, tabRingVars>>

Join ==
    /\ hostLoop = "join" /\ ReceiverAt("done") /\ hostLoop' = "stopped"
    /\ UNCHANGED <<block, pageVars, linkVars, serverVars, tabRingVars>>

HostTurn == PopCopies \/ PopPublishes
HostStop == CloseListener \/ CloseClient \/ Join

TabNext == Page \/ Receiver \/ HostTurn \/ StopRequest \/ HostStop

\* The threads of the host run; the browser's timers and socket events are delivered.
TabFairness ==
    /\ WF_tabVars(Receiver) /\ WF_tabVars(HostTurn) /\ WF_tabVars(HostStop)
    /\ WF_tabVars(RetryTimer)
    /\ \A s \in Sockets : WF_tabVars(OnOpen(s)) /\ WF_tabVars(OnClose(s))
TabSpec == TabInit /\ [][TabNext]_tabVars /\ TabFairness
-------------------------------------------------------------------------------
(* Properties *)

\* The ring is a bounded first-in first-out channel of the packets that match the
\* sink's rate, over any interleaving of push and pop (tab_bridge.cpp:109-163).
InOrder == [i \in 1..producer - consumer |-> slots[TabSlot(consumer + i - 1)].packet]
Waiting == IF hostLoop = "popped" THEN Tail(InOrder) ELSE InOrder
TabFifo == INSTANCE BlockFifo WITH
    Blocks <- {p \in TabPackets : ~Foreign(p)}, Capacity <- SlotCount, NoBlock <- NoPacket,
    q <- Waiting, out <- block
RingIsFifo == TabFifo!LosslessSpec

\* A page has one live socket at most, the bridge: an event of a replaced socket never
\* disowns the one that replaced it (offscreen.js, SPEC-0009:69-71).
OneLiveSocket ==
    \A s \in Sockets : ready[s] \in {"connecting", "open"} => page.bridge = s

\* stop() returns, provided that a connection which the receiver accepted but had not
\* registered when stop() looked is not kept open by its peer (tab_bridge.cpp:424-455).
KeptOpen == missed /\ receiver.socket # NoSocket /\ peer[receiver.socket] # "cut"
StopReturns == []<>~KeptOpen => (stop ~> hostLoop = "stopped")

\* A capture that lasts is connected in the end, or has used up the attempts (or the
\* sockets) it may make (offscreen.js, SPEC-0009:64-68).
CaptureConnects ==
    page.capturing ~> page.connected \/ ~page.capturing \/ page.exhausted \/ Unused = {}

\* Neither end of the bridge waits for ever for the other.
BridgeMakesProgress == StopReturns /\ CaptureConnects
===============================================================================
