----------------------------- MODULE OutputFanout -----------------------------
(***************************************************************************)
(* OutputFanoutRuntimeV1 as AudioEngineModel::process_output_group_fanout  *)
(* drives it: one rendered block is given to every sink, each with its own *)
(* clock.  The audio thread owns the sinks; the control thread hands clock *)
(* observations over and reads clock snapshots back through the registers  *)
(* of ClockSlots while blocks are being processed.                         *)
(***************************************************************************)
EXTENDS ClockSlots, OutputSink, FiniteSets

CONSTANTS
  Sinks,           \* the enabled sinks of the plan, 1..n
  Bases,           \* source steps a plan is prepared with
  Targets,         \* clock ratios observed, in 1/Grid off 1
  BlockSizes,          \* input frames of a block
  MaxCalls         \* bound: calls of the control thread

ASSUME OutputFanoutAssumption ==
  /\ Sinks = 1..Cardinality(Sinks) /\ 1 \in Sinks /\ Threads = {"audio", "control"}
  /\ Registers = {"request", "clock"} \X Sinks
  /\ Bases \subseteq {b \in Nat : StepAllowed(b)} /\ Targets \subseteq Int /\ BlockSizes \subseteq Nat \ {0}

VARIABLES
  sinks,    \* sinks_
  applied,  \* applied_clock_sequences_
  audio,    \* where the audio thread is in the block, and what it saved
  start,    \* sinks and applied when the block in work or refused began
  lead,     \* source places given out minus places taken in
  left      \* calls of MaxCalls still allowed

fanoutVars == <<sinks, applied, audio, start, lead, left>>
runtimeVars == <<slotVars, fanoutVars>>

Request(s) == <<"request", s>>
Clock(s) == <<"clock", s>>
NoBlockInWork == [at |-> "idle", sink |-> 1, n |-> 1, changed |-> FALSE, ok |-> TRUE, sinks |-> <<>>, applied |-> <<>>]

\* prepare with a source step.
FanoutInit ==
  \E base \in Bases :
    /\ sinks = [s \in Sinks |-> NewSink(base)]
    /\ reg = [r \in Registers |->
                IF r[1] = "request" THEN EmptyRegister
                ELSE [EmptyRegister EXCEPT
                        !.token = [gen |-> 1, slot |-> 0, writing |-> FALSE],
                        !.slots[0] = [first |-> Snapshot(NewSink(base)),
                                      second |-> Snapshot(NewSink(base))]]]
    /\ me = [t \in Threads |-> Free]
    /\ applied = [s \in Sinks |-> NoToken]
    /\ audio = NoBlockInWork /\ start = <<sinks, applied>>
    /\ lead = [s \in Sinks |-> 0]
    /\ left = MaxCalls

-----------------------------------------------------------------------------
(* The control thread *)

ControlFree == me["control"] = Free

\* observe_clock hands one observation over.
observe_clock(s, target) ==
  /\ ControlFree /\ left > 0
  /\ left' = left - 1
  /\ me' = [me EXCEPT !["control"] = WriteBegins("control", Request(s), target, target)]
  /\ UNCHANGED <<reg, sinks, applied, audio, start, lead>>

ControlWrites == WriteStep("control") /\ UNCHANGED fanoutVars

\* snapshot
SnapshotBegins(s) ==
  /\ ControlFree /\ left > 0
  /\ left' = left - 1
  /\ me' = [me EXCEPT !["control"] = ReadBegins("control", Clock(s))]
  /\ UNCHANGED <<reg, sinks, applied, audio, start, lead>>

ControlReads ==
  /\ me["control"].on \in {Clock(s) : s \in Sinks}
  /\ ReadStep("control", NoToken, 2) /\ UNCHANGED fanoutVars

ControlReturns ==
  /\ me["control"].at \in {"written", "read", "missed"}
  /\ me' = [me EXCEPT !["control"] = Free]
  /\ UNCHANGED <<reg, fanoutVars>>

\* prepare and reset touch what process uses, so nobody is inside a call.
Quiet == ControlFree /\ audio.at = "idle" /\ left > 0

Restart(fresh) ==
  /\ sinks' = fresh
  /\ reg' = [r \in Registers |->
       IF r[1] = "request" THEN Invalidated(r)
       ELSE Rewritten(r, Snapshot(fresh[r[2]]), Snapshot(fresh[r[2]]))]
  /\ applied' = [s \in Sinks |-> NoToken]
  /\ lead' = [s \in Sinks |-> 0]
  /\ start' = <<sinks', applied'>>
  /\ audio' = NoBlockInWork
  /\ left' = left - 1
  /\ UNCHANGED me

prepare == Quiet /\ \E base \in Bases : Restart([s \in Sinks |-> NewSink(base)])
reset == Quiet /\ Restart([s \in Sinks |-> ResetSink(sinks[s])])

ControlThread ==
  \/ \E s \in Sinks, target \in Targets : observe_clock(s, target)
  \/ \E s \in Sinks : SnapshotBegins(s)
  \/ ControlWrites \/ ControlReads \/ ControlReturns \/ prepare \/ reset

-----------------------------------------------------------------------------
(* The audio thread *)

AudioAt(place) == audio.at = place /\ ThreadAt("audio", "free")
Over(result) == [NoBlockInWork EXCEPT !.ok = result]

\* process_output_group_fanout takes a snapshot of every sink first.
BlockBegins(n) ==
  /\ AudioAt("idle")
  /\ audio' = [NoBlockInWork EXCEPT !.at = "snapshot", !.n = n]
  /\ start' = <<sinks, applied>>
  /\ me' = [me EXCEPT !["audio"] = ReadBegins("audio", Clock(1))]
  /\ UNCHANGED <<reg, sinks, applied, lead, left>>

AudioReads ==
  /\ me["audio"].at \notin {"read", "missed"}
  /\ \/ audio.at = "snapshot" /\ ReadStep("audio", NoToken, 2)
     \/ audio.at = "apply" /\ ReadStep("audio", applied[audio.sink], 1)
  /\ UNCHANGED fanoutVars

SnapshotTaken ==
  /\ audio.at = "snapshot" /\ me["audio"].at \in {"read", "missed"}
  /\ IF audio.sink + 1 \in Sinks
     THEN /\ audio' = [audio EXCEPT !.sink = @ + 1]
          /\ me' = [me EXCEPT !["audio"] = ReadBegins("audio", Clock(audio.sink + 1))]
     ELSE /\ audio' = [audio EXCEPT !.at = "graph", !.sink = 1]
          /\ me' = [me EXCEPT !["audio"] = Free]
  /\ UNCHANGED <<reg, sinks, applied, start, lead, left>>

\* The graph fails and the runtime is not called.
GraphFails ==
  /\ AudioAt("graph") /\ audio' = Over(FALSE)
  /\ UNCHANGED <<slotVars, sinks, applied, start, lead, left>>

\* process: a block that is not finite is refused before anything is saved.
BlockRefused ==
  /\ AudioAt("graph")
  /\ audio' = Over(FALSE)
  /\ UNCHANGED <<slotVars, sinks, applied, start, lead, left>>

BlockTaken ==
  /\ AudioAt("graph")
  /\ audio' = [audio EXCEPT !.at = "apply", !.sinks = sinks, !.applied = applied]
  /\ me' = [me EXCEPT !["audio"] = ReadBegins("audio", Request(1))]
  /\ UNCHANGED <<reg, sinks, applied, start, lead, left>>

\* apply_pending_clock_observations, one sink.
NextSink ==
  IF audio.sink + 1 \in Sinks
  THEN /\ audio' = [audio EXCEPT !.sink = @ + 1, !.changed = @ \/ me["audio"].at = "read"]
       /\ me' = [me EXCEPT !["audio"] = ReadBegins("audio", Request(audio.sink + 1))]
  ELSE /\ audio' = [audio EXCEPT !.at = "render", !.sink = 1, !.changed = @ \/ me["audio"].at = "read"]
       /\ me' = [me EXCEPT !["audio"] = Free]

ObservationApplied ==
  /\ audio.at = "apply" /\ ThreadAt("audio", "read")
  /\ sinks' = [sinks EXCEPT ![audio.sink] = ObserveClock(@, me["audio"].second)]
  /\ applied' = [applied EXCEPT ![audio.sink] = me["audio"].seen]
  /\ NextSink
  /\ UNCHANGED <<reg, start, lead, left>>

\* Mutant: a sink without an observation ends the loop.
LoopEnds ==
  /\ audio.at = "apply" /\ ThreadAt("audio", "missed")
  /\ audio' = [audio EXCEPT !.at = "render", !.sink = 1]
  /\ me' = [me EXCEPT !["audio"] = Free]
  /\ UNCHANGED <<reg, sinks, applied, start, lead, left>>

NothingToApply ==
  /\ audio.at = "apply" /\ ThreadAt("audio", "missed") /\ NextSink
  /\ UNCHANGED <<reg, sinks, applied, start, lead, left>>

\* An output is missing or too small for what some sink would give.
\* Mutant: only the sinks are put back.
KeepsApplied ==
  /\ AudioAt("render")
  /\ sinks' = audio.sinks
  /\ audio' = Over(FALSE)
  /\ UNCHANGED <<slotVars, applied, start, lead, left>>

NoRoom ==
  /\ AudioAt("render")
  /\ sinks' = audio.sinks /\ applied' = audio.applied
  /\ audio' = Over(FALSE)
  /\ UNCHANGED <<slotVars, start, lead, left>>

Render ==
  /\ AudioAt("render")
  /\ lead' = [s \in Sinks |-> lead[s] + Emitted(sinks[s], audio.n) * sinks[s].step - audio.n * Grid]
  /\ sinks' = [s \in Sinks |-> Processed(sinks[s], audio.n)]
  /\ start' = <<>>
  /\ IF audio.changed
     THEN /\ audio' = [audio EXCEPT !.at = "publish"]
          /\ me' = [me EXCEPT !["audio"] =
                      WriteBegins("audio", Clock(1), Snapshot(sinks[1]), Snapshot(sinks[1]))]
     ELSE audio' = Over(TRUE) /\ me' = me
  /\ UNCHANGED <<reg, applied, left>>

AudioPublishes == audio.at = "publish" /\ WriteStep("audio") /\ UNCHANGED fanoutVars

SnapshotPublished ==
  /\ audio.at = "publish" /\ ThreadAt("audio", "written")
  /\ LET s == audio.sink + 1
     IN  IF s \in Sinks
         THEN /\ audio' = [audio EXCEPT !.sink = s]
              /\ me' = [me EXCEPT !["audio"] =
                          WriteBegins("audio", Clock(s), Snapshot(sinks[s]), Snapshot(sinks[s]))]
         ELSE audio' = Over(TRUE) /\ me' = [me EXCEPT !["audio"] = Free]
  /\ UNCHANGED <<reg, sinks, applied, start, lead, left>>

AudioThread ==
  \/ \E n \in BlockSizes : BlockBegins(n)
  \/ AudioReads \/ SnapshotTaken \/ GraphFails \/ BlockRefused \/ BlockTaken
  \/ ObservationApplied \/ NothingToApply \/ NoRoom \/ Render
  \/ AudioPublishes \/ SnapshotPublished

FanoutNext == ControlThread \/ AudioThread

\* Both threads keep running; blocks come again and again, and a block that
\* could be taken and rendered again and again sometimes is.
FanoutFairness ==
  /\ WF_runtimeVars(AudioThread) /\ WF_runtimeVars(ControlWrites) /\ WF_runtimeVars(ControlReads) /\ WF_runtimeVars(ControlReturns)
  /\ SF_runtimeVars(BlockTaken) /\ SF_runtimeVars(Render)

FanoutSpec == FanoutInit /\ [][FanoutNext]_runtimeVars /\ FanoutFairness
-----------------------------------------------------------------------------
(* Properties *)

\* A clock observation applied by process, or a snapshot returned by
\* read_clock_snapshot, is one that was published, never parts of two.
WholeClocks ==
  \A t \in Threads : ThreadAt(t, "read") => me[t].first = me[t].second

\* After a block that process refused, at whichever sink, every sink and its
\* clock are as before the block, and so an observation the block had
\* already applied is still to be applied.
RejectedBlockChangesNothing ==
  audio.at = "idle" /\ ~audio.ok => start = <<sinks, applied>>

\* Over any blocks and clock changes a sink gives out what it took in, up to
\* the frames of its history, and its block fits the scratch prepared for it.
SinkKeepsPace ==
  \A s \in Sinks :
    /\ lead[s] \in -2 * Grid .. (History + 2) * Grid
    /\ \A n \in BlockSizes : Required(sinks[s], n) <= (n + History) * 4 + 1

\* The last observation that observe_clock accepted is applied sooner or
\* later, however the writer and the blocks interleave.
Pending(s) ==
  LET token == reg[Request(s)].token
  IN  token.gen # 0 /\ ~token.writing /\ token # applied[s]
ObservationHeard == \A s \in Sinks : Pending(s) ~> ~Pending(s)

\* A block goes on after the last frame of the one before it: what is
\* carried over to the next call makes one stream of the blocks
\* (output_sink.hpp:58-60).  TLC refutes it: the first block and one at ratio 1 are
\* played without the filter's history, and the first filtered block after it
\* goes back by that history (output_sink.cpp:216-262).
NeverPlaysTwice ==
  [][\A s \in Sinks :
       audio.at = "render" /\ start' = <<>> /\ Emitted(sinks[s], audio.n) > 0
         => FirstPlace(sinks'[s]) + audio.n * Grid > LastPlace(sinks[s], audio.n)]_runtimeVars
=============================================================================
