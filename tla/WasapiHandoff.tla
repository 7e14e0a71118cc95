---------------------------- MODULE WasapiHandoff ----------------------------
(***************************************************************************)
(* The change of output device: WindowsWasapiSinkHandoffV1 and the two     *)
(* WindowsWasapiSinkWorkerV1 it owns.                                      *)
(*                                                                         *)
(* Each worker is a thread that binds an endpoint, plays the blocks of its *)
(* own bounded queue and, when the device goes away, tries a few times to  *)
(* bind it again.  The owner starts a candidate beside the active worker,  *)
(* feeds both through an equal-power fade, then stops the old one and      *)
(* flips the active slot, or stops the candidate.  Stopping a worker joins *)
(* its thread: the owner's calls block while the threads and the devices   *)
(* go on, so a call here is its first step, one step per join, and its     *)
(* last step.                                                              *)
(***************************************************************************)
EXTENDS Naturals, Sequences

CONSTANTS
  Layouts,      \* formats (channels and rate) of an endpoint or of a block
  QueueSlots,   \* WindowsWasapiSinkWorkerV1::kSlotCount
  Recoveries,     \* kRecoveryAttempts of recover_output
  MaxFade,      \* bound: blocks in the longest fade
  Full,         \* the mark of a block at full gain (any other: its fade step)
  NoLayout      \* channels 0: nothing was ever started

ASSUME WasapiHandoffAssumption ==
  /\ QueueSlots \in Nat \ {0} /\ Recoveries \in Nat /\ MaxFade \in Nat
  /\ Full \notin Nat /\ NoLayout \notin Layouts

VARIABLES
  handoffState, active,      \* state_, active_slot_
  fadeStep, total,        \* fade_frames_, fade_total_frames_, counted in blocks
  call,               \* the owner's call in progress and what it still joins
  result,             \* what the last process() returned
  thread,             \* each worker: where its thread is in run()
  running, ready, degraded, stopping, \* the worker's atomic flags
  layout,             \* channels_, sample_rate_ of the worker
  queue,              \* the worker's queue: the gain mark of each block
  attempt             \* failed attempts of recover_output, 0 outside it

handoff == <<handoffState, active, fadeStep, total>>
worker == <<thread, running, ready, degraded, stopping, layout, queue, attempt>>
handoffVars == <<handoff, call, result, worker>>

Slot == {0, 1}
Other(s) == 1 - s
Candidate == Other(active)
HandoffStates == {"Unbound", "Preparing", "Fading", "ReadyToCommit", "Synced",
           "RolledBack", "Degraded"}
Marks == 0..MaxFade \cup {Full}

Alive(s) == thread[s] \in {"bind", "up", "recover", "ending"}

Idle == [op |-> "idle", joins |-> <<>>, layout |-> NoLayout, total |-> 0]
Calls == [op : {"idle", "start", "begin", "drop", "fall", "fail", "commit",
                "rollback", "stop"},
          joins : {<<>>, <<0>>, <<1>>, <<0, 1>>},
          layout : Layouts \cup {NoLayout}, total : 0..MaxFade]

-----------------------------------------------------------------------------
(* A worker's queue, as submit_scaled and pop see it *)

Room(s) == Len(queue[s]) < QueueSlots
Takes(s, l) == running[s] /\ layout[s] = l /\ Room(s)

-----------------------------------------------------------------------------
(* The thread of a worker: run() and recover_output() *)

\* bind and start of the output succeed ...
BindOk(s) ==
  /\ thread[s] = "bind"
  /\ thread' = [thread EXCEPT ![s] = "up"]
  /\ ready' = [ready EXCEPT ![s] = TRUE]
  /\ UNCHANGED <<handoff, call, result, running, degraded, stopping, layout,
                 queue, attempt>>

\* ... or fail, and the thread has nothing to play on.
BindFails(s) ==
  /\ thread[s] = "bind"
  /\ thread' = [thread EXCEPT ![s] = "ending"]
  /\ degraded' = [degraded EXCEPT ![s] = TRUE]
  /\ UNCHANGED <<handoff, call, result, running, ready, stopping, layout, queue,
                 attempt>>

\* A pass of the loop: the oldest block, or silence, goes to the device.  A
\* block the sink model or the device refuses leaves the mark "degraded".
Play(s, fine) ==
  /\ thread[s] = "up" /\ ~stopping[s]
  /\ queue' = [queue EXCEPT ![s] = IF @ = <<>> THEN @ ELSE Tail(@)]
  /\ degraded' = [degraded EXCEPT ![s] = @ \/ ~fine]
  /\ UNCHANGED <<handoff, call, result, thread, running, ready, stopping,
                 layout, attempt>>

\* The device is invalidated, while the thread waits for it or renders the
\* block it popped.
LoseDevice(s) ==
  /\ thread[s] = "up" /\ ~stopping[s]
  /\ \/ UNCHANGED queue
     \/ queue[s] # <<>> /\ queue' = [queue EXCEPT ![s] = Tail(@)]
  /\ thread' = [thread EXCEPT ![s] = "recover"]
  /\ ready' = [ready EXCEPT ![s] = FALSE]
  /\ UNCHANGED <<handoff, call, result, running, degraded, stopping, layout,
                 attempt>>

RebindDevice(s) ==
  /\ thread[s] = "recover" /\ attempt[s] < Recoveries /\ ~stopping[s]
  /\ \/ /\ thread' = [thread EXCEPT ![s] = "up"]
        /\ ready' = [ready EXCEPT ![s] = TRUE]
        /\ attempt' = [attempt EXCEPT ![s] = 0]
     \/ /\ attempt' = [attempt EXCEPT ![s] = @ + 1]
        /\ UNCHANGED <<thread, ready>>
  /\ UNCHANGED <<handoff, call, result, running, degraded, stopping, layout,
                 queue>>

GiveUpDevice(s) ==
  /\ thread[s] = "recover" /\ (attempt[s] = Recoveries \/ stopping[s])
  /\ thread' = [thread EXCEPT ![s] = "ending"]
  /\ degraded' = [degraded EXCEPT ![s] = TRUE]
  /\ attempt' = [attempt EXCEPT ![s] = 0]
  /\ UNCHANGED <<handoff, call, result, running, ready, stopping, layout, queue>>

\* The loop sees stop_requested ...
LeaveLoop(s) ==
  /\ thread[s] = "up" /\ stopping[s]
  /\ thread' = [thread EXCEPT ![s] = "ending"]
  /\ ready' = [ready EXCEPT ![s] = FALSE]
  /\ UNCHANGED <<handoff, call, result, running, degraded, stopping, layout,
                 queue, attempt>>

\* ... and the thread returns.
Return(s) ==
  /\ thread[s] = "ending"
  /\ thread' = [thread EXCEPT ![s] = "returned"]
  /\ running' = [running EXCEPT ![s] = FALSE]
  /\ UNCHANGED <<handoff, call, result, ready, degraded, stopping, layout,
                 queue, attempt>>

Thread(s) ==
  \/ BindOk(s) \/ BindFails(s)
  \/ \E fine \in BOOLEAN : Play(s, fine)
  \/ LoseDevice(s) \/ RebindDevice(s) \/ GiveUpDevice(s)
  \/ LeaveLoop(s) \/ Return(s)

-----------------------------------------------------------------------------
(* The owner's calls on a worker: stop(), a join in its midst, and start() *)

\* Mutant: stop() joins without asking the thread to return.
EnterUnasked(op, joins, l, n) ==
  /\ call' = [op |-> op, joins |-> joins, layout |-> l, total |-> n]
  /\ UNCHANGED stopping

\* The first store of WindowsWasapiSinkWorkerV1::stop of the first worker.
Enter(op, joins, l, n) ==
  /\ call' = [op |-> op, joins |-> joins, layout |-> l, total |-> n]
  /\ stopping' = [stopping EXCEPT ![Head(joins)] = TRUE]

\* The join returns, and the owner goes on to the next worker it stops.
Join ==
  /\ call.joins # <<>>
  /\ LET s == Head(call.joins)
         rest == Tail(call.joins)
     IN /\ ~Alive(s)
        /\ thread' = [thread EXCEPT ![s] = "none"]
        /\ running' = [running EXCEPT ![s] = FALSE]
        /\ ready' = [ready EXCEPT ![s] = FALSE]
        /\ call' = [call EXCEPT !.joins = rest]
        /\ stopping' = IF rest = <<>> THEN stopping
                       ELSE [stopping EXCEPT ![Head(rest)] = TRUE]
  /\ UNCHANGED <<handoff, result, degraded, layout, queue, attempt>>

\* start() of a joined worker: the thread is launched on an empty queue.
Launch(s, l) ==
  /\ thread' = [thread EXCEPT ![s] = "bind"]
  /\ running' = [running EXCEPT ![s] = TRUE]
  /\ degraded' = [degraded EXCEPT ![s] = FALSE]
  /\ stopping' = [stopping EXCEPT ![s] = FALSE]
  /\ layout' = [layout EXCEPT ![s] = l]
  /\ queue' = [queue EXCEPT ![s] = <<>>]
  /\ UNCHANGED <<ready, attempt>>

\* start() refuses the configuration, or has no memory for the queue, or
\* cannot make the thread.
LaunchFails(s, l) ==
  /\ \/ UNCHANGED <<degraded, layout, queue>>
     \/ degraded' = [degraded EXCEPT ![s] = TRUE] /\ UNCHANGED <<layout, queue>>
     \/ /\ degraded' = [degraded EXCEPT ![s] = FALSE]
        /\ layout' = [layout EXCEPT ![s] = l]
        /\ queue' = [queue EXCEPT ![s] = <<>>]
  /\ UNCHANGED <<thread, running, ready, stopping, attempt>>

Entered == UNCHANGED <<handoff, thread, running, ready, degraded, layout,
                       queue, attempt>>

Finish(op) ==
  /\ call.op = op /\ call.joins = <<>>
  /\ call' = Idle
  /\ UNCHANGED result

-----------------------------------------------------------------------------
(* The owner's calls on the handoff *)

Owner == call.op = "idle"

StartInitial(l) ==
  /\ Owner
  /\ Enter("start", <<0, 1>>, l, 0)
  /\ UNCHANGED result /\ Entered

StartInitialEnds ==
  /\ Finish("start")
  /\ active' = 0 /\ fadeStep' = 0 /\ total' = 0
  /\ \/ Launch(0, call.layout) /\ handoffState' = "Synced"
     \/ LaunchFails(0, call.layout) /\ handoffState' = "Degraded"

Begin(l, n) ==
  /\ Owner
  /\ handoffState \in {"Synced", "RolledBack"} /\ ready[active] /\ l = layout[active]
  /\ Enter("begin", <<Candidate>>, l, n)
  /\ UNCHANGED result /\ Entered

BeginEnds ==
  /\ Finish("begin")
  /\ \/ /\ Launch(Candidate, call.layout)
        /\ total' = call.total /\ fadeStep' = 0 /\ handoffState' = "Preparing"
     \/ /\ LaunchFails(Candidate, call.layout)
        /\ handoffState' = "Degraded" /\ UNCHANGED <<fadeStep, total>>
  /\ UNCHANGED active

\* prepare() with the candidate's endpoint up ...
Prepare ==
  /\ Owner /\ handoffState = "Preparing" /\ ready[Candidate]
  /\ handoffState' = "Fading"
  /\ UNCHANGED <<active, fadeStep, total, call, result, worker>>

\* ... and with its thread gone for want of an endpoint.
DropCandidate ==
  /\ Owner /\ handoffState = "Preparing" /\ ~ready[Candidate]
  /\ ~running[Candidate] /\ degraded[Candidate]
  /\ Enter("drop", <<Candidate>>, NoLayout, 0)
  /\ UNCHANGED result /\ Entered

DropCandidateEnds ==
  /\ Finish("drop")
  /\ handoffState' = "RolledBack"
  /\ UNCHANGED <<active, fadeStep, total, worker>>

\* process() outside a fade: the active worker gets the block when Synced,
\* nobody does in the other states.
Process(l) ==
  /\ Owner /\ handoffState # "Fading"
  /\ LET to == {s \in {active} : handoffState = "Synced" /\ Takes(s, l)}
     IN /\ result' = (to # {})
        /\ queue' = [s \in Slot |-> IF s \in to THEN Append(queue[s], Full)
                                    ELSE queue[s]]
  /\ UNCHANGED <<handoff, call, thread, running, ready, degraded, stopping,
                 layout, attempt>>

\* process() in a fade, both workers taking the block, each at its gain.
FadeBlock(l) ==
  /\ Owner /\ handoffState = "Fading"
  /\ \A s \in Slot : Takes(s, l)
  /\ result' = TRUE
  /\ queue' = [s \in Slot |-> Append(queue[s], fadeStep)]
  /\ fadeStep' = fadeStep + 1
  /\ handoffState' = IF fadeStep' >= total THEN "ReadyToCommit" ELSE handoffState
  /\ UNCHANGED <<active, total, call, thread, running, ready, degraded,
                 stopping, layout, attempt>>

\* The candidate refuses it: the candidate is stopped, and then the active
\* worker is offered the block at full gain.
CandidateRejects(l) ==
  /\ Owner /\ handoffState = "Fading" /\ ~Takes(Candidate, l)
  /\ Enter("fall", <<Candidate>>, l, 0)
  /\ UNCHANGED result /\ Entered

CandidateRejectsEnds ==
  /\ call.op = "fall" /\ call.joins = <<>>
  /\ call' = Idle
  /\ handoffState' = "RolledBack"
  /\ LET to == {s \in {active} : Takes(s, call.layout)}
     IN /\ result' = (to # {})
        /\ queue' = [s \in Slot |-> IF s \in to THEN Append(queue[s], Full)
                                    ELSE queue[s]]
  /\ UNCHANGED <<active, fadeStep, total, thread, running, ready, degraded,
                 stopping, layout, attempt>>

\* Mutant: the candidate plays on in the degraded handoff.
ActiveRejectsAlone(l) ==
  /\ Owner /\ handoffState = "Fading" /\ Takes(Candidate, l) /\ ~Takes(active, l)
  /\ queue' = [queue EXCEPT ![Candidate] = Append(@, fadeStep)]
  /\ handoffState' = "Degraded" /\ result' = FALSE
  /\ UNCHANGED <<active, fadeStep, total, call, thread, running, ready, degraded,
                 stopping, layout, attempt>>

\* The candidate has it and the active worker refuses it.
ActiveRejects(l) ==
  /\ Owner /\ handoffState = "Fading" /\ Takes(Candidate, l) /\ ~Takes(active, l)
  /\ queue' = [queue EXCEPT ![Candidate] = Append(@, fadeStep)]
  /\ Enter("fail", <<Candidate>>, l, 0)
  /\ result' = FALSE
  /\ UNCHANGED <<handoff, thread, running, ready, degraded, layout, attempt>>

ActiveRejectsEnds ==
  /\ Finish("fail")
  /\ handoffState' = "Degraded"
  /\ UNCHANGED <<active, fadeStep, total, worker>>

\* Mutant: a fade in progress may be committed.
CommitEarly ==
  /\ Owner /\ handoffState \in {"Fading", "ReadyToCommit"}
  /\ Enter("commit", <<active>>, NoLayout, 0)
  /\ UNCHANGED result /\ Entered

Commit ==
  /\ Owner /\ handoffState = "ReadyToCommit"
  /\ Enter("commit", <<active>>, NoLayout, 0)
  /\ UNCHANGED result /\ Entered

CommitEnds ==
  /\ Finish("commit")
  /\ active' = Candidate /\ fadeStep' = 0 /\ total' = 0 /\ handoffState' = "Synced"
  /\ UNCHANGED worker

Rollback ==
  /\ Owner /\ handoffState \in {"Preparing", "Fading", "ReadyToCommit"}
  /\ Enter("rollback", <<Candidate>>, NoLayout, 0)
  /\ UNCHANGED result /\ Entered

RollbackEnds ==
  /\ Finish("rollback")
  /\ fadeStep' = 0 /\ total' = 0
  /\ handoffState' = IF running[active] THEN "RolledBack" ELSE "Degraded"
  /\ UNCHANGED <<active, worker>>

Stop ==
  /\ Owner
  /\ Enter("stop", <<0, 1>>, NoLayout, 0)
  /\ UNCHANGED result /\ Entered

StopEnds ==
  /\ Finish("stop")
  /\ active' = 0 /\ fadeStep' = 0 /\ total' = 0 /\ handoffState' = "Unbound"
  /\ UNCHANGED worker

\* The rest of a call, once it has begun.
CallGoesOn ==
  \/ Join
  \/ StartInitialEnds \/ BeginEnds \/ DropCandidateEnds
  \/ CandidateRejectsEnds \/ ActiveRejectsEnds
  \/ CommitEnds \/ RollbackEnds \/ StopEnds

Control ==
  \/ \E l \in Layouts : StartInitial(l)
  \/ \E l \in Layouts, n \in 1..MaxFade : Begin(l, n)
  \/ Prepare \/ DropCandidate \/ Commit \/ Rollback \/ Stop

Audio ==
  \E l \in Layouts :
    \/ Process(l) \/ FadeBlock(l) \/ CandidateRejects(l) \/ ActiveRejects(l)

HandoffInit ==
  /\ handoffState = "Unbound" /\ active = 0 /\ fadeStep = 0 /\ total = 0
  /\ result = FALSE
  /\ layout = [s \in Slot |-> NoLayout]
  /\ call = Idle
  /\ thread = [s \in Slot |-> "none"]
  /\ running = [s \in Slot |-> FALSE] /\ ready = [s \in Slot |-> FALSE]
  /\ degraded = [s \in Slot |-> FALSE] /\ stopping = [s \in Slot |-> FALSE]
  /\ queue = [s \in Slot |-> <<>>] /\ attempt = [s \in Slot |-> 0]

HandoffNext == CallGoesOn \/ Control \/ Audio \/ \E s \in Slot : Thread(s)

HandoffSpec == HandoffInit /\ [][HandoffNext]_handoffVars

\* The operating system runs every thread, bind and the wait for the buffer
\* return, and a blocked call goes on when its join can.  Nothing makes the
\* owner call again.
HandoffFairSpec ==
  /\ HandoffSpec /\ WF_handoffVars(CallGoesOn)
  /\ \A s \in Slot : WF_handoffVars(Thread(s))
-----------------------------------------------------------------------------
(* Properties *)

HandoffTypeOK ==
  /\ handoffState \in HandoffStates /\ active \in Slot
  /\ fadeStep \in 0..MaxFade /\ total \in 0..MaxFade
  /\ call \in Calls /\ result \in BOOLEAN
  /\ thread \in [Slot -> {"none", "bind", "up", "recover", "ending",
                          "returned"}]
  /\ running \in [Slot -> BOOLEAN] /\ ready \in [Slot -> BOOLEAN]
  /\ degraded \in [Slot -> BOOLEAN] /\ stopping \in [Slot -> BOOLEAN]
  /\ layout \in [Slot -> Layouts \cup {NoLayout}]
  /\ queue \in [Slot -> Seq(Marks)]
  /\ attempt \in [Slot -> 0..Recoveries]

Handing == handoffState \in {"Preparing", "Fading", "ReadyToCommit"}

\* The flags other threads go by say where the worker's thread is: "running"
\* from its launch until it returns, "endpoint_ready" exactly while it can
\* play, through every loss, rebind, failure and stop.
FlagsFollowThread ==
  \A s \in Slot : (running[s] <=> Alive(s)) /\ (ready[s] <=> thread[s] = "up")

\* Between two calls the spare worker has a thread (alive, or returned and not
\* joined yet) exactly during a handoff: no way out of a handoff leaves a
\* second device playing, and no handoff goes on without its candidate.
SpareParked ==
  Owner => /\ Handing <=> thread[Candidate] # "none"
           /\ handoffState = "Unbound" => thread[active] = "none"
           /\ handoffState \notin {"Unbound", "Degraded"} => thread[active] # "none"

\* In a fade the newest blocks of both queues are the newest steps of the
\* fade, in order: the two devices get the same blocks at complementary gains,
\* whatever either of them has played, lost or been refused in between, and
\* the candidate holds nothing from before the fade.
FadeInStep ==
  Owner /\ handoffState \in {"Fading", "ReadyToCommit"} =>
    /\ \A s \in Slot : \A i \in 1..Len(queue[s]) :
         i + fadeStep > Len(queue[s]) => queue[s][i] = i + fadeStep - 1 - Len(queue[s])
    /\ Len(queue[Candidate]) <= fadeStep
    /\ handoffState = "ReadyToCommit" <=> fadeStep >= total

\* The active slot moves only once the old worker is joined, and then at the
\* end of a fade that ran its whole length or when no worker is left at all.
SwapAfterFade ==
  [][active' # active =>
       /\ thread[active] = "none"
       /\ \/ total > 0 /\ fadeStep >= total
          \/ thread[Candidate] = "none"]_handoffVars

\* A call on the handoff returns although it joins a thread that may be
\* binding, playing or trying to get a lost device back.
CallsReturn == call.op # "idle" ~> call.op = "idle"

\* After a rollback the old sink carries on: a block handed to process() while
\* the old worker can take it reaches it (SPEC-0007: the candidate stops and
\* the output goes back to the old sink).  TLC refutes it: in "RolledBack"
\* process() hands no block to a sink.
OldSinkCarriesOn ==
  [][\A l \in Layouts :
       /\ Process(l) /\ handoffState = "RolledBack"
       /\ ready[active] /\ Takes(active, l)
       => result']_handoffVars
=============================================================================
