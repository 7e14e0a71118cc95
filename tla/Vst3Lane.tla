------------------------------ MODULE Vst3Lane ------------------------------
(***************************************************************************)
(* The VST3 lane of the engine host: the turn of its loop that renders a   *)
(* group, publishes the tap and takes processed frames from the lane ring  *)
(* (audio_engine.cpp, vst3_lane_bridge.cpp), then exchanges the newest tap *)
(* with the worker and pushes the answer (engine_preview.cpp).  The other  *)
(* holder of a sandbox is a client of the class that launches it again and *)
(* polls its watchdog (vst3_sandbox.hpp), which the loop never does.       *)
(*                                                                         *)
(* The tap and the ring are used by one thread here; Vst3Tap has the tap   *)
(* between threads.  A block's name is free again once nothing holds it.   *)
(***************************************************************************)
EXTENDS Vst3Sandbox, SequencesExt

CONSTANT RingFrames  \* capacity of the lane ring

ASSUME RingAssumption == RingFrames \in Nat \ {0}

VARIABLES
    owner,   \* who holds the sandbox: "preview" or "client"
    loop,    \* Vst3LaneState: pc, requested, launched, request, position, counters
    tap,     \* the block the tap shows, and its frames
    taken,   \* tap_sequence: the block exchanged last
    ring,    \* the frames in the lane ring, each the name of its block
    prepared,\* the lane is prepared and committed in the engine
    status   \* the published state of the route

loopVars == <<owner, loop, tap, taken, ring, prepared, status>>
laneVars == <<sandboxVars, loopVars>>

NoLaneBlock == [name |-> 0, frames |-> 0]

LaneInit ==
    /\ SandboxInit
    /\ owner \in {"preview", "client"}
    /\ loop = [pc |-> "render", requested |-> TRUE, launched |-> FALSE, request |-> 1,
               start |-> 0, processed |-> FALSE, failed |-> FALSE]
    /\ tap = NoLaneBlock /\ taken = 0 /\ ring = <<>> /\ prepared = FALSE
    /\ status = "Pending"

\* The state shown for the lane's route.
vst3_route_state(l, processable, ready) ==
    IF ~l.launched THEN IF l.failed THEN "Degraded" ELSE "Pending"
    ELSE IF ~processable \/ ~ready THEN "Degraded"
    ELSE IF l.processed THEN "Ready" ELSE "Pending"

(***************************************************************************)
(* The turn of the loop.                                                   *)
(***************************************************************************)
At(pc) == owner = "preview" /\ loop.pc = pc
Request == IF loop.request < MaxRequest THEN loop.request + 1 ELSE 1

\* The name a new block gets.
FreeName ==
    LET free == Blocks \ ({tap.name, taken, call.block} \cup ToSet(ring))
    IN  CHOOSE b \in free : \A c \in free : b <= c

\* pop: all the frames asked for, or none.
Popped(n) == IF Len(ring) >= n THEN SubSeq(ring, n + 1, Len(ring)) ELSE ring

\* process_output_group: the tap shows the block, then as many processed
\* frames as the block has replace it, or none.
RenderBlock ==
    /\ At("render")
    /\ loop' = [loop EXCEPT !.pc = "lane"]
    /\ IF prepared
       THEN \E n \in Sizes :
              /\ tap' = [name |-> FreeName, frames |-> n]
              /\ ring' = Popped(n)
       ELSE UNCHANGED <<tap, ring>>
    /\ UNCHANGED <<sandboxVars, owner, taken, prepared, status>>

RenderNothing ==
    /\ At("render")
    /\ loop' = [loop EXCEPT !.pc = "lane"]
    /\ UNCHANGED <<sandboxVars, owner, tap, taken, ring, prepared, status>>

NotLaunched == At("lane") /\ loop.requested /\ ~loop.launched

\* The first turn launches; a launch that fails is not tried again.
LaunchLane ==
    /\ NotLaunched /\ call.op = "none"
    /\ \/ /\ LaunchFails
          /\ loop' = [loop EXCEPT !.pc = "status", !.requested = FALSE, !.failed = TRUE]
          /\ UNCHANGED <<lane, host, call>>
       \/ /\ LaunchWorks
          /\ host' = [state |-> "Running"]
          /\ prepare_worker_session
          /\ Begin("wait", 0, 0, 0)
          /\ loop' = [loop EXCEPT !.launched = TRUE, !.pc = "wait"]
    /\ launches' = launches + 1
    /\ UNCHANGED <<now, owner, tap, taken, ring, prepared, status>>

GiveUpLane == [loop EXCEPT !.pc = "status", !.requested = FALSE, !.failed = TRUE]

LaneConnected ==
    /\ At("wait") /\ WaitEnds(TRUE)
    /\ loop' = [loop EXCEPT !.pc = "hello"]
    /\ UNCHANGED <<lane, host, owner, tap, taken, ring, prepared, status>>

LaneNotConnected ==
    /\ At("wait") /\ WaitEnds(FALSE)
    /\ report_crash
    /\ loop' = GiveUpLane
    /\ UNCHANGED <<owner, tap, taken, ring, prepared, status>>

SendHello ==
    /\ At("hello") /\ call.op = "none"
    /\ Send("handshake", loop.request, 0, 0)
    /\ loop' = IF call'.op = "none" THEN GiveUpLane
               ELSE [loop EXCEPT !.request = Request]
    /\ UNCHANGED <<now, launches, owner, tap, taken, ring, prepared, status>>

\* After the handshake the ring is prepared and committed in the engine.
HelloAnswered ==
    /\ At("hello") /\ AnswerUsed /\ call' = NoCall
    /\ prepared' = TRUE
    /\ loop' = [loop EXCEPT !.pc = "status"]
    /\ UNCHANGED <<owner, tap, taken, ring, status>>

HelloFails ==
    /\ At("hello") /\ ExchangeFails
    /\ loop' = GiveUpLane
    /\ UNCHANGED <<owner, tap, taken, ring, prepared, status>>

Unread == tap.name # 0 /\ tap.name # taken
Exchanging == At("lane") /\ loop.requested /\ loop.launched /\ call.op = "none"

\* Nothing to do: not asked for, or the tap was taken already.
LaneIdle ==
    /\ At("lane") /\ call.op = "none"
    /\ ~loop.requested \/ (loop.launched /\ (can_process => ~Unread))
    /\ loop' = [loop EXCEPT !.pc = "status",
                            !.failed = @ \/ (loop.requested /\ ~can_process)]
    /\ UNCHANGED <<sandboxVars, owner, tap, taken, ring, prepared, status>>

\* The session refuses a block that is too long or not the next one; that ends
\* it without a word to the worker.
RangeFits == tap.frames <= MaxBlockFrames /\ (lane.processed => lane.next = loop.start)

BlockRefused ==
    /\ Exchanging /\ can_process /\ Unread
    /\ lane.state # "Ready" \/ ~RangeFits
    /\ report_crash
    /\ loop' = [loop EXCEPT !.pc = "status", !.failed = TRUE]
    /\ UNCHANGED <<sandbox, pipe, toWorker, toHub, worker, call, now, launches,
                   owner, tap, taken, ring, prepared, status>>

SendBlock ==
    /\ Exchanging /\ can_process /\ Unread /\ lane.state = "Ready" /\ RangeFits
    /\ Send("process", loop.request, tap.name, tap.frames)
    /\ loop' = [loop EXCEPT !.request = Request,
                            !.pc = IF call'.op = "none" THEN "status" ELSE "block",
                            !.failed = @ \/ call'.op = "none"]
    /\ UNCHANGED <<now, launches, owner, tap, taken, ring, prepared, status>>

BlockFails ==
    /\ At("block") /\ ExchangeFails
    /\ loop' = [loop EXCEPT !.pc = "status", !.failed = TRUE]
    /\ UNCHANGED <<owner, tap, taken, ring, prepared, status>>

Progressed(frames) == [loop EXCEPT !.pc = "status", !.processed = TRUE,
                                   !.start = (@ + frames) % 4]

\* push and commit_vst3_exchange_progress: what the ring has no room for ends
\* the lane, and the tap stays unread.
BlockAnswered ==
    LET answer == Head(toHub)
        fits == Len(ring) + call.frames <= RingFrames
    IN
    /\ At("block") /\ AnswerUsed
    /\ fits
    /\ call' = NoCall
    /\ ring' = ring \o [i \in 1..call.frames |-> answer.block]
    /\ taken' = call.block
    /\ loop' = Progressed(call.frames)
    /\ UNCHANGED <<owner, tap, prepared, status>>

RingRefuses ==
    /\ At("block") /\ Answered /\ Verdict(Head(toHub)) = "ok"
    /\ Len(ring) + call.frames > RingFrames
    /\ toHub' = Tail(toHub) /\ call' = NoCall
    /\ report_crash
    /\ loop' = GiveUpLane
    /\ UNCHANGED <<sandbox, pipe, toWorker, worker, now, launches,
                   owner, tap, taken, ring, prepared, status>>

PublishStatus ==
    /\ At("status")
    /\ status' = vst3_route_state(loop, can_process, lane.state = "Ready")
    /\ loop' = [loop EXCEPT !.pc = "render"]
    /\ UNCHANGED <<sandboxVars, owner, tap, taken, ring, prepared>>

\* The host ends: the sandbox is stopped with it.
EndLoop ==
    /\ At("render")
    /\ StopSandbox
    /\ loop' = [loop EXCEPT !.pc = "ended"]
    /\ UNCHANGED <<lane, host, call, now, launches, owner, tap, taken, ring, prepared, status>>

TurnNext ==
    \/ RenderBlock \/ RenderNothing \/ LaneConnected \/ LaneNotConnected
    \/ SendHello \/ HelloAnswered \/ HelloFails \/ LaneIdle \/ BlockRefused
    \/ SendBlock \/ BlockFails \/ BlockAnswered \/ RingRefuses \/ PublishStatus

(***************************************************************************)
(* A client of the classes: any of their calls, in any order.              *)
(***************************************************************************)
Client == owner = "client" /\ call.op = "none" /\ UNCHANGED loopVars

ClientLaunch ==
    /\ Client /\ launches < MaxLaunches
    /\ LaunchWorks \/ LaunchFails
    /\ launches' = launches + 1 /\ UNCHANGED <<lane, host, call, now>>

ClientStop ==
    /\ Client /\ sandbox.state # "Stopped"
    /\ StopSandbox /\ UNCHANGED <<lane, host, call, now, launches>>

ClientStart ==
    /\ Client
    /\ \/ \E valid \in BOOLEAN : host_start(valid)
       \/ can_process /\ prepare_worker_session /\ UNCHANGED host
       \/ lane' = Detached /\ host' = [state |-> "Disabled"]
    /\ HostOnly

ClientWait ==
    /\ owner = "client" /\ UNCHANGED loopVars
    /\ \/ /\ call.op = "none" /\ sandbox.state = "Running" /\ WaitBegins
          /\ UNCHANGED <<sandbox, toWorker, toHub, worker, lane, host, now, launches>>
       \/ (\E connected \in BOOLEAN : WaitEnds(connected)) /\ UNCHANGED <<lane, host>>

\* handshake() and process_block(): one of them always comes at the wrong time
\* for the session and is refused there; over a pipe that nobody connected to
\* the sandbox gives up as well.
ClientExchangeRefused ==
    /\ Client /\ can_process
    /\ \/ /\ lane.state \in {"Prepared", "Ready"} /\ sandbox.state = "Running" /\ pipe # "connected"
          /\ GiveUp("WorkerExchangeFailed", "none")
       \/ UNCHANGED <<sandbox, worker>>
    /\ report_crash
    /\ KeepPipe /\ UNCHANGED <<call, now, launches>>

\* Bounds: one block a session, and no second handshake over a repeated
\* answer, which would go on for ever; the loop has more of both.
ClientSend ==
    /\ Client /\ can_process /\ sandbox.state = "Running"
    /\ \/ lane.state = "Prepared" /\ toHub = <<>> /\ Send("handshake", 1, 0, 0)
       \/ lane.state = "Ready" /\ ~lane.processed /\ Send("process", 2, 1, 1)
    /\ UNCHANGED <<now, launches>>

ClientAnswered ==
    /\ owner = "client" /\ UNCHANGED loopVars
    /\ (AnswerUsed /\ call' = NoCall) \/ ExchangeFails

ClientWatches == Client /\ (MarkHeartbeat \/ poll_watchdog)

Tick ==
    /\ Client /\ now < MaxTime /\ now' = now + 1
    /\ UNCHANGED <<sandbox, pipe, toWorker, toHub, worker, lane, host, call, launches>>

ClientNext ==
    \/ ClientLaunch \/ ClientStop \/ ClientStart \/ ClientWait \/ ClientExchangeRefused
    \/ ClientSend \/ ClientAnswered \/ ClientWatches \/ Tick

LaneNext == TurnNext \/ LaunchLane \/ EndLoop \/ (WorkerNext /\ UNCHANGED loopVars) \/ ClientNext

LaneSpec == LaneInit /\ [][LaneNext]_laneVars

\* The loop goes round, its waits end (every call has a timeout), and the
\* sources keep rendering blocks.
LaneFairSpec == LaneSpec /\ WF_laneVars(TurnNext \/ LaunchLane) /\ SF_laneVars(RenderBlock)

-----------------------------------------------------------------------------
\* A worker that outlives its quarantine is in the crash reports: the
\* termination that failed is not hidden by the reason of the quarantine
\* (vst3_sandbox.cpp:183-193).
SurvivorIsReported ==
    sandbox.state = "Quarantined" /\ Alive(worker)
        => "job_object_failure" \in ToSet(sandbox.reports)

\* One lifecycle event leaves at most one crash entry, also when ending the
\* worker fails while the sandbox is being quarantined for something else
\* (vst3_sandbox.cpp:201-205).
OneEntryPerEvent ==
    [][Len(sandbox'.reports) <= Len(sandbox.reports) + 1]_sandbox

\* No event is in the crash reports twice, and a worker that outlives its
\* quarantine is in them (vst3_sandbox.cpp:183-205).
CrashReportsAreTrue == []SurvivorIsReported /\ OneEntryPerEvent

\* What is pushed into the lane ring is the worker's answer to the block that
\* was read from the tap in this exchange, and no block is pushed twice
\* (engine_preview.cpp:2213-2232).
LaneCarriesAnswers ==
    [][Len(ring') > Len(ring) =>
         /\ \A i \in Len(ring) + 1..Len(ring') : ring'[i] = call.block
         /\ call.block # taken]_laneVars

\* The route is shown Ready only while the session is (vst3_route_status.hpp:12).
ReadyMeansUsable ==
    At("render") /\ status = "Ready" =>
        sandbox.state = "Running" /\ can_process /\ lane.state = "Ready" /\ prepared

\* A worker that is gone does not stay hidden while blocks are rendered: the
\* route becomes Degraded.
DeadWorkerDegrades ==
    (owner = "preview" /\ loop.launched /\ worker.at = "exited")
        ~> (status = "Degraded" \/ loop.pc = "ended")

\* What clients are shown of the route is what became of the worker.
RouteShowsWorker == []ReadyMeansUsable /\ DeadWorkerDegrades
=============================================================================
