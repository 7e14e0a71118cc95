---------------------------- MODULE Vst3Sandbox ----------------------------
(***************************************************************************)
(* The VST3 sandbox: the worker process in its job object and the pipe to  *)
(* it (vst3_sandbox.cpp, vst3_worker_pipe.cpp), the worker itself          *)
(* (vst3_sdk_worker_main.cpp), the session and host objects over it        *)
(* (vst3_worker_lane.cpp, plugin_host.cpp).  The hub blocks in its calls,  *)
(* so the worker may act between a request and its answer, and only there. *)
(*                                                                         *)
(* The worker runs foreign code: Faults says which answers it may give     *)
(* besides the right ones.                                                 *)
(***************************************************************************)
EXTENDS Naturals, Sequences

CONSTANTS
    Blocks,         \* names of audio blocks
    Sizes,          \* frames a rendered block may have
    MaxBlockFrames, \* the largest block the session was prepared for
    Faults,         \* kinds of wrong answers of the worker
    FailingIn,      \* calls in which TerminateJobObject may fail: "stop", "quarantine"
    WatchdogTimeout, MaxTime, MaxLaunches, MaxRequest \* bounds but for the first

ASSUME SandboxAssumption ==
    /\ {MaxBlockFrames, MaxLaunches} \subseteq Nat \ {0}
    /\ MaxRequest \in Nat \ {0, 1}  \* two exchanges in a row differ in their ids
    /\ Faults \subseteq {"Error", "Heartbeat", "Shape", "Garbage", "NonFinite", "Twice"}
    /\ Sizes \subseteq Nat \ {0} /\ Blocks # {} /\ {WatchdogTimeout, MaxTime} \subseteq Nat
    /\ FailingIn \subseteq {"stop", "quarantine"}

VARIABLES
    sandbox,    \* state, diagnostic reason, job, heartbeat, entry slot, crash reports
    pipe,       \* the server's end: none, listening, connected, disconnected
    toWorker, toHub, \* frames in the pipe
    worker,     \* the worker process: where it is and its exit code
    lane,       \* the worker lane session
    host,       \* the plug-in host
    call,       \* the call the hub is blocked in
    now, launches

sandboxVars == <<sandbox, pipe, toWorker, toHub, worker, lane, host, call, now, launches>>

NoCall == [op |-> "none", id |-> 0, block |-> 0, frames |-> 0]
NoWorker == [at |-> "none", code |-> 0]
Frame(type, id, block, frames) == [type |-> type, id |-> id, block |-> block, frames |-> frames]
Detached == [state |-> "Detached", next |-> 0, processed |-> FALSE]

SandboxInit ==
    /\ sandbox = [state |-> "Stopped", reason |-> "None", job |-> FALSE, heartbeat |-> 0,
                  taken |-> FALSE, reports |-> <<>>]
    /\ pipe = "none" /\ toWorker = <<>> /\ toHub = <<>>
    /\ worker = NoWorker
    /\ lane = Detached /\ host = [state |-> "Disabled"]
    /\ call = NoCall /\ now = 1 /\ launches = 0

(***************************************************************************)
(* One lifecycle event: the state, at most one crash entry, and the fate   *)
(* of the process.                                                         *)
(***************************************************************************)

\* Mutant: nothing looks at the slot.
record_each_entry(s, entry) == [s EXCEPT !.taken = TRUE, !.reports = Append(@, entry)]
record_crash_entry(s, entry) ==
    IF s.taken THEN s
    ELSE [s EXCEPT !.taken = TRUE, !.reports = Append(@, entry)]

quarantine(s, reason, fails) ==
    LET q == [s EXCEPT !.state = "Quarantined", !.reason = reason]
    IN  IF s.job /\ fails THEN record_crash_entry(q, "job_object_failure") ELSE q

MayFail(where) == IF where \in FailingIn THEN BOOLEAN ELSE {FALSE}
Alive(w) == w.at \notin {"none", "exited"}
Killed(w) == IF Alive(w) THEN [at |-> "exited", code |-> 1] ELSE w

\* The sandbox after stop(); the slot is opened only when there is a job.
Stopped(s, fails) ==
    LET opened == [s EXCEPT !.taken = FALSE]
        failed == IF s.job
                  THEN IF fails THEN record_crash_entry(opened, "job_object_failure") ELSE opened
                  ELSE s
    IN  [failed EXCEPT !.state = "Stopped", !.reason = "None", !.job = FALSE, !.heartbeat = 0]

\* Quarantine for reason, then record entry ("none" for the paths that do not).
GiveUp(reason, entry) ==
    \E fails \in MayFail("quarantine") :
        LET q == quarantine(sandbox, reason, fails)
        IN  /\ sandbox' = IF entry = "none" THEN q ELSE record_crash_entry(q, entry)
            /\ worker' = IF sandbox.job /\ ~fails THEN Killed(worker) ELSE worker

ClosePipe == pipe' = "none" /\ toWorker' = <<>> /\ toHub' = <<>>
KeepPipe  == UNCHANGED <<pipe, toWorker, toHub>>

\* stop(): closing the job ends a worker that the termination did not.
StopSandbox ==
    /\ \E fails \in MayFail("stop") : sandbox' = Stopped(sandbox, fails)
    /\ worker' = Killed(worker)
    /\ ClosePipe

\* launch() that the configuration or the system refuses: nothing is left but
\* the quarantine.
LaunchFails ==
    /\ \E fails \in MayFail("stop"), reason \in {"InvalidLaunch", "ProcessSetupFailed"} :
           sandbox' = quarantine(Stopped(sandbox, fails), reason, FALSE)
    /\ worker' = Killed(worker)
    /\ ClosePipe

LaunchWorks ==
    /\ \E fails \in MayFail("stop") :
           sandbox' = [Stopped(sandbox, fails) EXCEPT
                         !.state = "Running", !.job = TRUE, !.heartbeat = now, !.reports = <<>>]
    /\ worker' = [at |-> "starting", code |-> 0]
    /\ pipe' = "listening" /\ toWorker' = <<>> /\ toHub' = <<>>

\* mark_heartbeat(): the caller's clock does not run back.
MarkHeartbeat ==
    /\ call.op = "none" /\ sandbox.state = "Running"
    /\ sandbox' = [sandbox EXCEPT !.heartbeat = now]
    /\ UNCHANGED <<pipe, toWorker, toHub, worker, lane, host, call, now, launches>>

poll_watchdog ==
    /\ call.op = "none" /\ sandbox.state = "Running"
    /\ \/ /\ worker.at = "exited"
          /\ GiveUp("WorkerExited", IF worker.code # 0 THEN "worker_exit_nonzero" ELSE "none")
       \/ /\ worker.at # "exited"
          /\ now - sandbox.heartbeat > WatchdogTimeout
          /\ GiveUp("WatchdogTimeout", "worker_timeout")
    /\ KeepPipe /\ UNCHANGED <<lane, host, call, now, launches>>

(***************************************************************************)
(* The worker process.                                                     *)
(***************************************************************************)
WorkerAt(from, to) == worker.at = from /\ worker' = [worker EXCEPT !.at = to]
WorkerOnly == UNCHANGED <<sandbox, lane, host, call, now, launches>>

\* connect_client(): a disconnected instance is not there until it is waited on.
WorkerConnects ==
    /\ WorkerAt("starting", "connected") /\ pipe = "listening"
    /\ pipe' = "accepted" /\ UNCHANGED <<toWorker, toHub>> /\ WorkerOnly

WorkerReceives ==
    /\ WorkerAt("connected", "working") /\ toWorker # <<>> /\ pipe \in {"accepted", "connected"}
    /\ KeepPipe /\ WorkerOnly

RightAnswer(f) ==
    IF f.type = "Hello" THEN Frame("HelloAck", f.id, 0, 0)
    ELSE Frame("ProcessBlockResponse", f.id, f.block, f.frames)
WrongAnswer(f, kind) ==
    CASE kind = "Error"     -> Frame("Error", f.id, 0, 0)
      [] kind = "Heartbeat" -> Frame("Heartbeat", f.id, 0, 0)
      [] kind = "Shape"     -> [RightAnswer(f) EXCEPT !.frames = f.frames + 1]
      [] kind = "Garbage"   -> Frame("Undecodable", f.id, 0, 0)
      [] kind = "NonFinite" -> Frame("NonFinite", f.id, f.block, f.frames)

\* One answer to the request taken; a "Twice" fault repeats it.
WorkerAnswers ==
    LET f == Head(toWorker) IN
    /\ WorkerAt("working", "connected") /\ toWorker # <<>>
    /\ toWorker' = Tail(toWorker)
    /\ \E answer \in {<<RightAnswer(f)>>}
                     \cup {<<WrongAnswer(f, k)>> : k \in Faults \ {"Twice"}}
                     \cup (IF "Twice" \in Faults THEN {<<RightAnswer(f), RightAnswer(f)>>} ELSE {}) :
           toHub' = toHub \o answer
    /\ UNCHANGED pipe /\ WorkerOnly

\* The worker ends: a plug-in that does not open, a crash, or a receive() that
\* saw no request for its timeout; its end of the pipe closes with it.
WorkerExits ==
    /\ Alive(worker)
    /\ \E code \in {0, 5} : /\ code = 0 => worker.at = "connected"
                            /\ worker' = [at |-> "exited", code |-> code]
    /\ KeepPipe /\ WorkerOnly

WorkerNext == WorkerConnects \/ WorkerReceives \/ WorkerAnswers \/ WorkerExits

(***************************************************************************)
(* wait_for_worker(), then the exchanges: one request, one answer.         *)
(***************************************************************************)
HostOnly == UNCHANGED <<sandbox, pipe, toWorker, toHub, worker, call, now, launches>>

host_start(valid) ==
    /\ lane' = Detached
    /\ host' = [state |-> IF valid THEN "Running" ELSE "Quarantined"]
prepare_worker_session == lane' = [Detached EXCEPT !.state = "Prepared"]
report_crash == lane' = Detached /\ host' = [state |-> "Quarantined"]

can_process == host.state = "Running"

\* wait_for_client(): a wait offers the instance again that an earlier one left
\* disconnected. It ends connected, or disconnects the instance, also from a
\* worker that came just after the timeout.
WaitBegins ==
    /\ pipe \in {"listening", "accepted", "disconnected"}
    /\ pipe' = IF pipe = "disconnected" THEN "listening" ELSE pipe
    /\ call' = [NoCall EXCEPT !.op = "wait"]
WaitEnds(connected) ==
    /\ call.op = "wait"
    /\ call' = NoCall
    /\ \/ connected /\ pipe = "accepted" /\ pipe' = "connected"
       \/ ~connected /\ pipe \in {"listening", "accepted"} /\ pipe' = "disconnected"
    /\ UNCHANGED <<sandbox, toWorker, toHub, worker, now, launches>>

Begin(op, id, block, frames) == call' = [op |-> op, id |-> id, block |-> block, frames |-> frames]

\* The write fails when the worker's end is closed.
Send(op, id, block, frames) ==
    \/ /\ Alive(worker) /\ pipe = "connected"
       /\ toWorker' = Append(toWorker, Frame(IF op = "handshake" THEN "Hello" ELSE "ProcessBlock",
                                             id, block, frames))
       /\ Begin(op, id, block, frames)
       /\ UNCHANGED <<sandbox, pipe, toHub, worker, lane, host>>
    \/ /\ ~Alive(worker) /\ pipe = "connected"
       /\ GiveUp("WorkerExchangeFailed", "pipe_failure")
       /\ KeepPipe /\ report_crash /\ UNCHANGED call

\* Whether the answer may be used, and what is recorded when it may not.
\* Mutant: the answer to any request will do.
Verdict_any_id(f) ==
    IF f.type \in {"Undecodable", "Error"} THEN "protocol_error"
    ELSE IF call.op = "handshake" THEN IF f.type = "HelloAck" THEN "ok" ELSE "none"
    ELSE IF f.type = "ProcessBlockResponse" /\ f.frames = call.frames THEN "ok" ELSE "none"
Verdict(f) ==
    IF f.type = "Undecodable" \/ f.id # call.id \/ f.type = "Error" THEN "protocol_error"
    ELSE IF call.op = "handshake" /\ f.frames # 0 THEN "protocol_error"
    ELSE IF call.op = "handshake" THEN IF f.type = "HelloAck" THEN "ok" ELSE "none"
    ELSE IF f.type = "ProcessBlockResponse" /\ f.frames = call.frames THEN "ok" ELSE "none"

Answered == call.op \in {"handshake", "process"} /\ toHub # <<>>

\* The lane is Ready after a handshake and moves on after a block.
AnswerUsed ==
    /\ Answered /\ Verdict(Head(toHub)) = "ok"
    /\ toHub' = Tail(toHub)
    /\ lane' = IF call.op = "handshake" THEN [lane EXCEPT !.state = "Ready"]
               ELSE [lane EXCEPT !.next = (@ + call.frames) % 4, !.processed = TRUE]
    /\ UNCHANGED <<sandbox, pipe, toWorker, worker, host, now, launches>>

\* Mutant: a receive has no timeout and does not see the worker go.
ExchangeFailsOnAnswer ==
    /\ Answered /\ Verdict(Head(toHub)) # "ok"
    /\ toHub' = Tail(toHub)
    /\ GiveUp("WorkerExchangeFailed", Verdict(Head(toHub)))
    /\ report_crash
    /\ call' = NoCall
    /\ UNCHANGED <<pipe, toWorker, now, launches>>

\* The answer is refused, does not come in time, or the worker is gone.
ExchangeFails ==
    /\ call.op \in {"handshake", "process"}
    /\ \/ /\ Answered /\ Verdict(Head(toHub)) # "ok"
          /\ toHub' = Tail(toHub)
          /\ GiveUp("WorkerExchangeFailed", Verdict(Head(toHub)))
       \/ /\ toHub = <<>>
          /\ UNCHANGED toHub
          /\ GiveUp("WorkerExchangeFailed", "pipe_failure")
    /\ report_crash
    /\ call' = NoCall
    /\ UNCHANGED <<pipe, toWorker, now, launches>>
=============================================================================
