------------------------------ MODULE ControlPlane ------------------------------
(***************************************************************************)
(* The control plane: a client's named-pipe session (IpcProtocol.cs), the  *)
(* pipe worker (ipc_pipe.cpp) and its frame handler (control_service.cpp), *)
(* the command queue between the worker and the engine's loop              *)
(* (control_queue.cpp), and the loop that drains it and publishes the      *)
(* control status (engine_control.cpp, engine_preview.cpp).                *)
(*                                                                         *)
(* The bytes in the pipe are the four length bytes and the frame of each   *)
(* request, as two tokens: a client writes them separately and a timeout   *)
(* may fall between them.                                                  *)
(***************************************************************************)
EXTENDS ControlSnapshots

CONSTANTS Frames,       \* the frames a client may send: a function from names
          QueueSlots,   \* slots of the command queue (64 in the code)
          Details,      \* lengths of the detail texts the status may need
          MaxRequests, MaxChanges, MaxStarts \* bounds: requests, status changes, starts

ASSUME ControlAssumption ==
    /\ {QueueSlots, MaxRequests, MaxStarts} \subseteq Nat \ {0}
    /\ MaxChanges \in Nat /\ Details \subseteq Nat \ {0}

VARIABLES
    worker, request,                            \* the pipe worker and what it handles
    pipe, inbound, outbound,                    \* the pipe instance and its bytes
    stopRequested, running, connected, handle,  \* the server's shared flags
    host, starts, item,                         \* the engine loop and the command it took
    slots, head, tail,                          \* the command queue
    status, store,                              \* the status and its snapshot store
    client, waiting, half, sent,                \* the client
    accepted, applied, acked                    \* history: queued, consumed, acknowledged

pipeVars   == <<pipe, inbound, outbound>>
flagVars   == <<stopRequested, running, connected, handle>>
hostVars   == <<host, starts, item, status, store, applied>>
queueVars  == <<slots, head, tail, accepted>>
clientVars == <<client, waiting, half, sent, acked>>
vars == <<worker, request, pipeVars, flagVars, hostVars, queueVars, clientVars>>

Frame(id) == Frames[sent[id]]
Command(id) == decode_control_command([Frame(id) EXCEPT !.id = id])
IsSnapshotRequest(id) == Frame(id).type = "ControlStatusRequest"
Prefix(id) == [part |-> "length", id |-> id]
Body(id)   == [part |-> "frame", id |-> id]

\* set_route keeps as many bytes of a detail as its array holds.
DetailText(n) ==
    LET kept == IF n < TextCap THEN n ELSE TextCap
    IN  [n |-> kept, body |-> [i \in 1..TextCap |-> IF i <= kept THEN 65 ELSE 0]]
RouteEntry(n) == [id |-> DetailText(1), name |-> DetailText(1), detail |-> DetailText(n),
                  state |-> 0, flags |-> 0]
Snapshot(s) == [sequence |-> s.sequence, entries |-> <<RouteEntry(s.detail)>>,
                volume |-> [requested |-> 0, ceiling |-> 0, effective |-> 0]]

Init ==
    /\ worker = "none" /\ request = 0
    /\ pipe = "none" /\ inbound = <<>> /\ outbound = <<>>
    /\ stopRequested = FALSE /\ running = FALSE /\ connected = FALSE /\ handle = FALSE
    /\ host = "off" /\ starts = 0 /\ item = 0
    /\ slots = [i \in 0..QueueSlots - 1 |-> 0] /\ head = 0 /\ tail = 0
    /\ status = [sequence |-> 1, detail |-> 1]
    /\ store = Publish(EmptyStore, encode_control_status_snapshot(Snapshot(status)), 1)
    /\ client = "away" /\ waiting = 0 /\ half = FALSE /\ sent = <<>>
    /\ accepted = <<>> /\ applied = <<>> /\ acked = {}

(***************************************************************************)
(* The host: starting and stopping the server, and the engine loop.        *)
(***************************************************************************)

\* start(): the first pipe instance is created before the worker thread; a
\* name that is still taken fails the start and leaves everything reset.
Start ==
    /\ host = "off" /\ starts < MaxStarts
    /\ starts' = starts + 1
    /\ stopRequested' = FALSE
    /\ IF pipe = "none"
       THEN /\ pipe' = "listening" /\ running' = TRUE /\ handle' = TRUE
            /\ worker' = "start" /\ host' = "drain"
       ELSE UNCHANGED <<pipe, running, handle, worker, host>>
    /\ UNCHANGED <<request, inbound, outbound, connected, item, status, store, applied,
                   queueVars, clientVars>>

RequestStop ==
    /\ host = "drain"
    /\ host' = "stopping" /\ stopRequested' = TRUE
    /\ UNCHANGED <<worker, request, pipeVars, running, connected, handle, starts, item,
                   status, store, applied, queueVars, clientVars>>

\* The loop of stop() ends when the worker has cleared running; then it joins.
FinishStop ==
    /\ host = "stopping" /\ ~running /\ worker = "none"
    /\ host' = "off" /\ connected' = FALSE
    /\ UNCHANGED <<worker, request, pipeVars, stopRequested, running, handle, starts, item,
                   status, store, applied, queueVars, clientVars>>

\* try_pop, first half: head is read and the slot copied.
PopCopy ==
    /\ host = "drain" /\ tail # head
    /\ item' = slots[tail % QueueSlots] /\ host' = "popping"
    /\ UNCHANGED <<worker, request, pipeVars, flagVars, starts, status, store, applied,
                   queueVars, clientVars>>

\* try_pop releases the slot, and the worker consumes the command.
PopRelease ==
    /\ host = "popping"
    /\ tail' = tail + 1 /\ applied' = Append(applied, item)
    /\ item' = 0 /\ host' = "drain"
    /\ UNCHANGED <<worker, request, pipeVars, flagVars, starts, status, store, slots, head,
                   accepted, clientVars>>

\* The rest of an iteration: the routes are described again, and a change is
\* numbered and published.
RefreshStatus ==
    /\ host = "drain"
    /\ status.sequence <= MaxChanges
    /\ \E n \in Details \ {status.detail} :
         status' = [sequence |-> status.sequence + 1, detail |-> n]
    /\ store' = Publish(store, encode_control_status_snapshot(Snapshot(status')),
                        status'.sequence)
    /\ UNCHANGED <<worker, request, pipeVars, flagVars, host, starts, item, applied,
                   queueVars, clientVars>>

(***************************************************************************)
(* The pipe worker.                                                        *)
(***************************************************************************)
WorkerOnly == UNCHANGED <<hostVars, clientVars>>

\* Mutant of Exit: running is not cleared.
ExitRunning ==
    /\ worker' = "none" /\ handle' = FALSE /\ connected' = FALSE
    /\ UNCHANGED <<stopRequested, running, request, pipeVars, queueVars>>
Exit ==
    /\ worker' = "none" /\ handle' = FALSE /\ connected' = FALSE /\ running' = FALSE
    /\ UNCHANGED <<stopRequested, request, pipeVars, queueVars>>

\* The thread's first look at the stop flag.  Stopped before it ran at all, it
\* leaves the loop without closing the instance start() created.
WorkerBegin ==
    /\ worker = "start"
    /\ IF stopRequested THEN Exit
       ELSE worker' = "connect" /\ UNCHANGED <<request, pipeVars, flagVars, queueVars>>
    /\ WorkerOnly

\* A further instance; CreateNamedPipeW may refuse it, and the worker ends.
CreateInstance ==
    /\ worker = "create"
    /\ \/ Exit
       \/ /\ ~stopRequested /\ pipe = "none"
          /\ pipe' = "listening" /\ handle' = TRUE /\ worker' = "connect"
          /\ UNCHANGED <<request, inbound, outbound, stopRequested, running, connected, queueVars>>
    /\ WorkerOnly

Accept ==
    /\ worker = "connect" /\ pipe = "open"
    /\ connected' = TRUE /\ worker' = "length"
    /\ UNCHANGED <<request, pipeVars, stopRequested, running, handle, queueVars>>
    /\ WorkerOnly

\* close_pipe: the instance and every byte still in it are gone.
Close ==
    /\ pipe' = "none" /\ inbound' = <<>> /\ outbound' = <<>>
    /\ handle' = FALSE /\ connected' = FALSE /\ request' = 0
    /\ worker' = "create"
    /\ UNCHANGED <<stopRequested, running, queueVars>>

\* Nobody came within the timeout, the client left at once, or stop() cancels.
ConnectFails ==
    /\ worker = "connect" /\ pipe # "open"
    /\ Close /\ WorkerOnly

\* Between two requests the stop flag ends the session.
LeaveSession == worker = "length" /\ stopRequested /\ Close /\ WorkerOnly

ReadLength ==
    /\ worker = "length" /\ ~stopRequested /\ inbound # <<>>
    /\ IF Head(inbound).part = "length"
       THEN /\ request' = Head(inbound).id /\ inbound' = Tail(inbound)
            /\ worker' = "frame"
            /\ UNCHANGED <<pipe, outbound, flagVars, queueVars>>
       ELSE Close       \* the magic number read as a length is beyond the limit
    /\ WorkerOnly

\* The idle timeout: the read is cancelled, but bytes that arrived in that
\* moment are taken from the pipe and forgotten.
IdleTimeout ==
    /\ worker = "length" /\ inbound # <<>> /\ Head(inbound).part = "length"
    /\ inbound' = Tail(inbound)
    /\ UNCHANGED <<worker, request, pipe, outbound, flagVars, queueVars>>
    /\ WorkerOnly

\* The client closed its end, or stop() cancels the read.
ReadFails ==
    /\ worker \in {"length", "frame"}
    /\ (pipe = "broken" /\ inbound = <<>>) \/ stopRequested
    /\ Close /\ WorkerOnly

\* The frame does not arrive in time, or what arrives is not that frame.
FrameFails ==
    /\ worker = "frame"
    /\ \/ inbound = <<>>
       \/ inbound # <<>> /\ (\/ Head(inbound) # Body(request)
                             \/ decode_ipc_frame(Frame(request)) # "None")
    /\ Close /\ WorkerOnly

\* Mutant of HandleFrame: the queue takes one command too many.
HandleFrameOverfull ==
    /\ worker = "frame" /\ inbound # <<>> /\ Head(inbound) = Body(request)
    /\ decode_ipc_frame(Frame(request)) = "None"
    /\ inbound' = Tail(inbound)
    /\ IF Command(request) = Refused \/ head - tail > QueueSlots
       THEN worker' = "error" /\ UNCHANGED slots
       ELSE worker' = "push" /\ slots' = [slots EXCEPT ![head % QueueSlots] = request]
    /\ UNCHANGED <<request, pipe, outbound, flagVars, head, tail, accepted>>
    /\ WorkerOnly

\* handle_control_frame_v1 up to try_push's slot: a payload that does not
\* decode or a full queue is answered with an error.
HandleFrame ==
    /\ worker = "frame" /\ inbound # <<>> /\ Head(inbound) = Body(request)
    /\ decode_ipc_frame(Frame(request)) = "None"
    /\ inbound' = Tail(inbound)
    /\ IF Command(request) = Refused \/ head - tail >= QueueSlots
       THEN worker' = "error" /\ UNCHANGED slots
       ELSE worker' = "push" /\ slots' = [slots EXCEPT ![head % QueueSlots] = request]
    /\ UNCHANGED <<request, pipe, outbound, flagVars, head, tail, accepted>>
    /\ WorkerOnly

\* The head is stored: the command is the engine's.
PushRelease ==
    /\ worker = "push"
    /\ head' = head + 1 /\ accepted' = Append(accepted, request)
    /\ worker' = "reply"
    /\ UNCHANGED <<request, pipeVars, flagVars, slots, tail>>
    /\ WorkerOnly

Reply ==
    [id |-> request,
     kind |-> CASE worker = "error" -> "Error"
                [] worker = "reply" /\ ~IsSnapshotRequest(request) -> "Ack"
                [] OTHER -> IF has_snapshot(store) THEN "Status" ELSE "Error"]

\* The answer is written, or the pipe breaks or stalls under it.
WriteReply ==
    /\ worker \in {"reply", "error"}
    /\ \/ /\ pipe = "open"
          /\ outbound' = Append(outbound, Reply) /\ request' = 0 /\ worker' = "length"
          /\ UNCHANGED <<pipe, inbound, flagVars, queueVars>>
       \/ Close
    /\ WorkerOnly

(***************************************************************************)
(* The client.                                                             *)
(***************************************************************************)
ClientOnly == UNCHANGED <<worker, request, flagVars, hostVars, queueVars>>

Connect ==
    /\ client = "away" /\ pipe = "listening"
    /\ client' = "open" /\ pipe' = "open"
    /\ inbound' = <<>> /\ outbound' = <<>>
    /\ UNCHANGED <<waiting, half, sent, acked>>
    /\ ClientOnly

\* RoundTripAsync: the length is written, then the frame.
SendLength ==
    /\ client = "open" /\ waiting = 0 /\ pipe = "open" /\ Len(sent) < MaxRequests
    /\ \E f \in DOMAIN Frames : sent' = Append(sent, f)
    /\ waiting' = Len(sent') /\ half' = TRUE
    /\ inbound' = Append(inbound, Prefix(waiting'))
    /\ UNCHANGED <<client, acked, pipe, outbound>>
    /\ ClientOnly

SendFrame ==
    /\ client = "open" /\ half /\ pipe = "open"
    /\ half' = FALSE
    /\ inbound' = Append(inbound, Body(waiting))
    /\ UNCHANGED <<client, waiting, sent, acked, pipe, outbound>>
    /\ ClientOnly

\* An answer with another request's id is an error, as an Error frame is: the
\* client calls itself degraded and keeps the pipe until it reconnects.
Expected(r) == r.id = waiting
Receive ==
    /\ client = "open" /\ waiting # 0 /\ ~half /\ outbound # <<>>
    /\ LET r == Head(outbound)
       IN  /\ acked' = IF Expected(r) /\ r.kind = "Ack" THEN acked \cup {waiting} ELSE acked
           /\ client' = IF Expected(r) /\ r.kind # "Error" THEN "open" ELSE "degraded"
    /\ outbound' = Tail(outbound) /\ waiting' = 0
    /\ UNCHANGED <<half, sent, pipe, inbound>>
    /\ ClientOnly

\* The caller cancels: the stream stays, with the answer still to come.
Cancel ==
    /\ client = "open" /\ waiting # 0
    /\ waiting' = 0 /\ half' = FALSE
    /\ UNCHANGED <<client, sent, acked, pipeVars>>
    /\ ClientOnly

\* The client leaves, crashes, or finds the server gone.
Leave ==
    /\ client # "away"
    /\ client' = "away" /\ waiting' = 0 /\ half' = FALSE
    /\ IF pipe = "open" THEN pipe' = "broken" ELSE UNCHANGED pipe
    /\ UNCHANGED <<inbound, outbound, sent, acked>>
    /\ ClientOnly

HostNext == Start \/ RequestStop \/ FinishStop \/ PopCopy \/ PopRelease \/ RefreshStatus
WorkerNext ==
    \/ WorkerBegin \/ CreateInstance \/ Accept \/ ConnectFails \/ LeaveSession
    \/ ReadLength \/ IdleTimeout \/ ReadFails \/ FrameFails \/ HandleFrame
    \/ PushRelease \/ WriteReply
ClientNext == Connect \/ SendLength \/ SendFrame \/ Receive \/ Cancel \/ Leave

Next == HostNext \/ WorkerNext \/ ClientNext
Spec == Init /\ [][Next]_vars

\* The host's loop turns every few milliseconds until it is stopped, and every
\* wait of the worker has a timeout.
FairSpec == Spec /\ WF_vars(PopCopy) /\ WF_vars(PopRelease) /\ WF_vars(FinishStop)
                 /\ WF_vars(WorkerNext)

(***************************************************************************)
(* Properties.                                                             *)
(***************************************************************************)
Queued == [i \in 1..head - tail |-> slots[(tail + i - 1) % QueueSlots]]

\* Whatever the worker, the loop, the client and a restart do between two
\* stores of the queue: what was consumed, followed by what is queued, is
\* what was accepted, in that order: no command is lost, repeated or applied
\* in another's place.
AppliedExactlyOnce == applied \o Queued = accepted

\* A client counts a command as acknowledged only when that very command was
\* queued, although a cancelled request leaves its answer in the pipe.
AckMeansQueued == \A id \in acked : \E i \in 1..Len(accepted) : accepted[i] = id

\* Commands, acknowledgements and applications belong together.
CommandsMatchAnswers == AppliedExactlyOnce /\ AckMeansQueued

\* stop() returns whatever the worker is waiting for.
StopEnds == host = "stopping" ~> host = "off"

\* The loop gets to every accepted command unless it is told to stop.
AcceptedIsApplied ==
    \A id \in 1..MaxRequests :
        (\E i \in 1..Len(accepted) : accepted[i] = id)
            ~> (host # "drain" \/ \E i \in 1..Len(applied) : applied[i] = id)

\* Neither side of the control plane waits for ever for the other.
ControlMakesProgress == StopEnds /\ AcceptedIsApplied

\* The comment in set_route (engine_preview.cpp:1289): the texts composed for
\* the routes stay inside the budget of the wire, so the snapshot clients are
\* given is always the engine's present status.
StatusIsPublished == store.sequence = status.sequence
=============================================================================
