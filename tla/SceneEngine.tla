----------------------------- MODULE SceneEngine -----------------------------
(***************************************************************************)
(* The control worker of the hub (EngineControlWorkerV1) applying Scenes   *)
(* to the audio engine (AudioEngineModel), and the engine rendering them.  *)
(*                                                                         *)
(* A Scene is applied by one transaction over four attachments of the      *)
(* engine: the graph, the impulse response (IR), the equal-loudness PEQ    *)
(* and the program-aware controller.  Each is prepared on the control      *)
(* worker into a pending slot; when all are prepared they are committed    *)
(* together, and any failure rolls the pending slots back.  The worker     *)
(* runs the transaction to its end before it takes another command, so pc  *)
(* orders its steps and every other action needs pc = "idle".              *)
(*                                                                         *)
(* Besides Scenes, four other callers of the same host loop change what is *)
(* rendered: the IR and calibration handlers, volume notifications (they   *)
(* recompute the loudness PEQ) and the rebuild of the graph for routed     *)
(* sessions.  Rendering a block advances the loudness crossfade.           *)
(***************************************************************************)
EXTENDS Naturals, FiniteSets

CONSTANTS
  Main,            \* the output group "main", always registered
  Groups,          \* output groups
  Channels,        \* graph channel counts (2, 6 and 8 in the code)
  Stereo,          \* the channel count of the built-in presets
  Rates,           \* sample rates
  DefaultRate,     \* sample_rate_ before anything sets it (48000)
  SinkChannels,    \* channel count of the started WASAPI output
  SinkRate,        \* its sample rate
  Refs, NoRef,     \* IR calibration labels a Scene may carry, and the empty one
  CustomIds,       \* ids of custom Scenes
  CustomScenes,    \* definitions a client may upsert
  DeliveryLanes,   \* output groups of the sessions routed at one time
  CalibGroups,     \* groups a calibration PEQ may be sent for
  CatalogCapacity, \* kMaxCustomScenesV1
  GroupCapacity,   \* kMaxOutputVolumeGroupsV1
  FadeBlocks,      \* render blocks that make up the 120 ms crossfade
  NoGraph, Detached, NoPending, NoScene

Lanes  == (SUBSET Groups) \ {{}}
Graphs == [ch : Channels, strict : BOOLEAN, lanes : Lanes]
Scenes == [group : Groups, ch : Channels, strict : BOOLEAN, lanes : Lanes,
           ref : Refs \cup {NoRef}, mount : BOOLEAN, aware : BOOLEAN]

\* Attachments: the group they process and the geometry they were prepared
\* for.  forRef is a history field: the label of the Scene that was active
\* when the user prepared the IR.
IrAtts       == [group : Groups, ch : Channels \cup {1},
                 forRef : Refs \cup {NoRef}]
LoudnessAtts == [group : Groups, ch : Channels, rate : Rates, live : BOOLEAN]
AwareAtts    == [group : Groups, rate : Rates]
CalibAtts    == [group : Groups, ch : Channels, rate : Rates]

ASSUME SceneEngineAssumption ==
  /\ Main \in Groups /\ IsFiniteSet(Groups)
  /\ Stereo \in Channels /\ SinkChannels \in Channels
  /\ DefaultRate \in Rates /\ SinkRate \in Rates
  /\ NoRef \notin Refs
  /\ CustomScenes \subseteq {s \in Scenes : ~s.aware}
  /\ DeliveryLanes \subseteq Lanes
  /\ CalibGroups \subseteq Groups
  /\ FadeBlocks \in Nat \ {0} /\ GroupCapacity \in Nat \ {0}
  /\ CatalogCapacity \in Nat

\* The tokens for "nothing there" differ from every value they stand beside.
ASSUME SceneEngineSentinels ==
  /\ NoGraph \notin Graphs /\ NoScene \notin Scenes
  /\ Detached \notin IrAtts \cup LoudnessAtts \cup AwareAtts \cup CalibAtts
  /\ NoPending \notin Graphs \cup IrAtts \cup LoudnessAtts \cup AwareAtts
  /\ NoPending # Detached

VARIABLES
  pc,       \* the step of apply_scene the worker is at, or "idle"
  cand,     \* candidate_scene / _graph / _loudness / _program_aware
  keep,     \* keep_referenced_ir
  before,   \* history: what was rendered when the running transaction started
  scene,    \* active_scene_ with active_loudness_ (NoScene: !has_active_scene_)
  catalog,  \* the worker's custom Scene catalog
  graph, pGraph, ir, pIr, lou, pLou, aware, pAware, \* active_*_ / pending_*_
  calib,    \* active_calibration_peq_ (prepared and committed in one handler)
  prev,     \* previous_loudness_peq_
  fade,     \* blocks left of loudness_crossfade_, 0 when it is not active
  bank,     \* groups registered in the volume bank
  rate,     \* sample_rate_
  state     \* EngineTransactionState

pendings == <<pGraph, pIr, pLou, pAware>>
actives  == <<graph, ir, lou, prev, fade, aware, calib>>
vars == <<pc, cand, keep, before, scene, catalog, actives, pendings, bank, rate, state>>

\* What a listener hears: the committed attachments and the Scene they are for.
Config == <<scene, graph, ir, lou, prev, fade, aware, calib>>

-----------------------------------------------------------------------------
(* Scenes and their catalog *)

\* make_easy_scene: one stereo lane into the requested group, no IR label.
\* Studio is Strict Direct and mounts no loudness; Movie is program-aware.
Preset(kind, g) ==
  [group |-> g, ch |-> Stereo, strict |-> kind = "studio", lanes |-> {g},
   ref |-> NoRef, mount |-> kind # "studio", aware |-> kind = "movie"]

PresetScenes == {Preset(k, g) : k \in {"game", "movie", "voice", "studio"}, g \in Groups}

Stored == {id \in CustomIds : catalog[id] # NoScene}

\* SceneCatalogCommand upsert: replaces an entry in place, or takes a free slot.
UpsertScene(id, s) ==
  /\ pc = "idle"
  /\ catalog[id] # NoScene \/ Cardinality(Stored) < CatalogCapacity
  /\ catalog' = [catalog EXCEPT ![id] = s]
  /\ UNCHANGED <<pc, cand, keep, before, scene, actives, pendings, bank, rate, state>>

RemoveScene(id) ==
  /\ pc = "idle" /\ catalog[id] # NoScene
  /\ catalog' = [catalog EXCEPT ![id] = NoScene]
  /\ UNCHANGED <<pc, cand, keep, before, scene, actives, pendings, bank, rate, state>>

ClearScenes ==
  /\ pc = "idle" /\ Stored # {}
  /\ catalog' = [id \in CustomIds |-> NoScene]
  /\ UNCHANGED <<pc, cand, keep, before, scene, actives, pendings, bank, rate, state>>

\* Scenes a SceneApply command can resolve now; an unknown id, or a catalog
\* entry for another output group, is Invalid and changes nothing.
Resolvable == PresetScenes \cup {catalog[id] : id \in Stored}

-----------------------------------------------------------------------------
(* The engine's transactions *)

GraphOf(s) == [ch |-> s.ch, strict |-> s.strict, lanes |-> s.lanes]

\* The volume bank after prepare_graph registers the groups of a graph: all of
\* them, or, when the bank fills up, those that came first.  A registration
\* is never taken back, by rollback or otherwise.
Fits(gs) == Cardinality(bank \cup gs) <= GroupCapacity
Overfull(gs) == {b \in SUBSET (bank \cup gs) :
                   bank \subseteq b /\ Cardinality(b) = GroupCapacity}

\* rollback_graph leaves the engine Ready if something is rendered.
RolledBackState == IF graph # NoGraph THEN "Ready" ELSE "Degraded"

\* The channel count a new attachment is prepared for.
TargetChannels(default) ==
  IF pGraph # NoPending THEN pGraph.ch
  ELSE IF graph # NoGraph THEN graph.ch ELSE default

LoudnessFor(g, live) ==
  [group |-> g, ch |-> TargetChannels(Stereo), rate |-> rate, live |-> live]

\* Mutant: without a crossfade to start, the one in progress is left alone.
KeepOldFade(a) ==
  /\ lou' = a
  /\ IF a # Detached /\ lou # Detached /\ a.group = lou.group
     THEN prev' = lou /\ fade' = FadeBlocks ELSE UNCHANGED <<prev, fade>>

\* commit_loudness_peq with attachment a: replacing an attachment of the same
\* group starts a crossfade from it, anything else drops the one in progress.
CommitLoudness(a) ==
  /\ lou' = a
  /\ IF a # Detached /\ lou # Detached /\ a.group = lou.group
     THEN prev' = lou /\ fade' = FadeBlocks
     ELSE prev' = Detached /\ fade' = 0

-----------------------------------------------------------------------------
(* apply_scene *)

\* Resolve the Scene and pass the preflight gate (which may refuse any Scene
\* without changing anything).
BeginApply(s) ==
  /\ pc = "idle" /\ s \in Resolvable
  /\ pc' = "graph" /\ cand' = s /\ before' = Config
  /\ UNCHANGED <<keep, scene, catalog, actives, pendings, bank, rate, state>>

\* Every failure return: drop what this transaction has prepared.  A kept IR
\* has no pending transaction to drop.
Abandon ==
  /\ pc' = "idle" /\ cand' = NoScene /\ keep' = FALSE /\ before' = NoScene
  /\ pGraph' = NoPending /\ pLou' = NoPending /\ pAware' = NoPending
  /\ pIr' = IF keep THEN pIr ELSE NoPending
  /\ state' = RolledBackState

PrepareGraph ==
  /\ pc = "graph" /\ Fits(cand.lanes)
  /\ bank' = bank \cup cand.lanes
  /\ pGraph' = GraphOf(cand) /\ state' = "Prepared"
  /\ pc' = "ir"
  /\ UNCHANGED <<cand, keep, before, scene, catalog, actives, pIr, pLou, pAware, rate>>

\* prepare_graph refuses: the compiled graph or its delay lines do not fit, or
\* the volume bank is full.  apply_scene then rolls back the graph only.
RejectGraph ==
  /\ pc = "graph"
  /\ bank' \in IF Fits(cand.lanes) THEN {bank} ELSE Overfull(cand.lanes)
  /\ pGraph' = NoPending /\ state' = RolledBackState
  /\ pc' = "idle" /\ cand' = NoScene /\ before' = NoScene
  /\ UNCHANGED <<keep, scene, catalog, actives, pIr, pLou, pAware, rate>>

\* An IR survives a switch between Scenes that carry the same label; any other
\* switch detaches it.
KeepReferencedIr ==
  cand.ref # NoRef /\ scene # NoScene /\ cand.ref = scene.ref /\ pIr = NoPending

\* Mutant: the IR is detached at once instead of by the commit.
DetachEarly ==
  /\ pc = "ir"
  /\ keep' = KeepReferencedIr
  /\ pIr' = IF KeepReferencedIr THEN pIr ELSE Detached
  /\ ir' = IF KeepReferencedIr THEN ir ELSE Detached
  /\ pc' = "loudness"
  /\ UNCHANGED <<cand, before, scene, catalog, graph, lou, prev, fade, aware, calib,
                 pGraph, pLou, pAware, bank, rate, state>>

PrepareIr ==
  /\ pc = "ir"
  /\ keep' = KeepReferencedIr
  /\ pIr' = IF KeepReferencedIr THEN pIr ELSE Detached
  /\ pc' = "loudness"
  /\ UNCHANGED <<cand, before, scene, catalog, actives, pGraph, pLou, pAware, bank, rate, state>>

\* A Scene that opts in to live loudness mounts its PEQ, any other clears it.
PrepareLoudness ==
  /\ pc = "loudness"
  /\ IF cand.mount
     THEN cand.group \in bank /\ pLou' = LoudnessFor(cand.group, FALSE)
     ELSE pLou' = Detached
  /\ pc' = "aware"
  /\ UNCHANGED <<cand, keep, before, scene, catalog, actives, pGraph, pIr, pAware, bank, rate, state>>

\* The Scene's group has no registered lane, or building the curve failed.
RejectLoudness ==
  /\ pc = "loudness" /\ cand.mount
  /\ Abandon
  /\ UNCHANGED <<scene, catalog, actives, bank, rate>>

PrepareAware ==
  /\ pc = "aware"
  /\ cand.aware => cand.group \in bank
  /\ pAware' = IF cand.aware THEN [group |-> cand.group, rate |-> rate] ELSE Detached
  /\ pc' = "commit"
  /\ UNCHANGED <<cand, keep, before, scene, catalog, actives, pGraph, pIr, pLou, bank, rate, state>>

\* The four commits, the swap of the active Scene and the live-update switch.
\* The code rolls back if a commit finds nothing prepared; CommitsReady states
\* that it never does, so those branches are dead.
CommitScene ==
  /\ pc = "commit"
  /\ graph' = pGraph
  /\ ir' = IF keep THEN ir ELSE pIr
  /\ CommitLoudness(IF pLou = Detached THEN Detached ELSE [pLou EXCEPT !.live = cand.mount])
  /\ aware' = pAware
  /\ scene' = cand
  /\ pGraph' = NoPending /\ pLou' = NoPending /\ pAware' = NoPending
  /\ pIr' = IF keep THEN pIr ELSE NoPending
  /\ state' = "Ready"
  /\ pc' = "idle" /\ cand' = NoScene /\ keep' = FALSE /\ before' = NoScene
  /\ UNCHANGED <<catalog, calib, bank, rate>>

-----------------------------------------------------------------------------
(* The other commands and callers *)

\* GraphRollback, a command of its own.  (GraphCommit finds nothing prepared.)
RollbackGraph ==
  /\ pc = "idle"
  /\ pGraph' = NoPending /\ state' = RolledBackState
  /\ UNCHANGED <<pc, cand, keep, before, scene, catalog, actives, pIr, pLou, pAware, bank, rate>>

\* IrPrepareCommand: an IR file of c channels for group "main", prepared for
\* the active graph and committed at once; refused under Strict Direct.
AttachIr(c) ==
  /\ pc = "idle" /\ pIr = NoPending
  /\ graph # NoGraph => ~graph.strict /\ c \in {1, graph.ch}
  /\ ir' = [group |-> Main, ch |-> TargetChannels(c),
             forRef |-> IF scene = NoScene THEN NoRef ELSE scene.ref]
  /\ UNCHANGED <<pc, cand, keep, before, scene, catalog, graph, lou, prev, fade, aware,
                 calib, pendings, bank, rate, state>>

\* CalibrationPeqPrepare: prepare and commit a PEQ for a registered group.
AttachCalibration(g) ==
  /\ pc = "idle" /\ g \in bank
  /\ calib' = [group |-> g, ch |-> TargetChannels(Stereo), rate |-> rate]
  /\ UNCHANGED <<pc, cand, keep, before, scene, catalog, graph, ir, lou, prev, fade, aware,
                 pendings, bank, rate, state>>

\* Mutant: the group asked for need not be the one that is shaped.
UpdateAnyGroup(g) ==
  /\ lou # Detached /\ lou.live /\ pLou = NoPending
  /\ graph # NoGraph => ~graph.strict
  /\ CommitLoudness(LoudnessFor(g, TRUE))

\* update_loudness_phon for group g, past its 250 ms / 3 phon debounce.
LiveUpdate(g) ==
  /\ lou # Detached /\ lou.live /\ lou.group = g /\ pLou = NoPending
  /\ graph # NoGraph => ~graph.strict
  /\ CommitLoudness(LoudnessFor(g, TRUE))

\* An accepted VolumeNotification sets the group's volume (the subject of
\* VolumeLink), then asks for a new loudness curve.  A recompute that is
\* refused or debounced leaves no trace here.
VolumeNotification(g) ==
  /\ pc = "idle" /\ g \in bank
  /\ LiveUpdate(g)
  /\ UNCHANGED <<pc, cand, keep, before, scene, catalog, graph, ir, aware, calib,
                 pendings, bank, rate, state>>

\* rebuild_delivery_graph: the graph of the routed sessions replaces whatever
\* is rendered, at the sink's layout and rate; attachments stay as they are.
RebuildDelivery(gs) ==
  /\ pc = "idle" /\ Fits(gs)
  /\ rate' = SinkRate /\ bank' = bank \cup gs
  /\ graph' = [ch |-> SinkChannels, strict |-> FALSE, lanes |-> gs]
  /\ state' = "Ready"
  /\ UNCHANGED <<pc, cand, keep, before, scene, catalog, ir, lou, prev, fade, aware, calib,
                 pendings>>

RejectDelivery(gs) ==
  /\ pc = "idle"
  /\ rate' = SinkRate
  /\ bank' \in IF Fits(gs) THEN {bank} ELSE Overfull(gs)
  /\ state' = RolledBackState
  /\ UNCHANGED <<pc, cand, keep, before, scene, catalog, actives, pendings>>

-----------------------------------------------------------------------------
(* Rendering *)

Strict == graph # NoGraph /\ graph.strict

Matches(att) == att.ch = graph.ch /\ att.rate = rate

\* process_output_group succeeds for group g: the graph has a lane for it, and
\* the attachments of g, unless Strict Direct bypasses them, were prepared for
\* the graph's geometry.  (The calibration PEQ is not checked.)
Fading(g) == fade > 0 /\ prev.group = g
Shaped(g) == lou # Detached /\ lou.group = g

Renders(g) ==
  /\ graph # NoGraph /\ g \in graph.lanes /\ g \in bank
  /\ Strict \/ /\ ir # Detached /\ ir.group = g => ir.ch = graph.ch
               /\ Shaped(g) => Matches(lou)
               /\ Fading(g) => Matches(prev)

\* Mutant: the last block of a crossfade is never rendered.
FadeStopsShort(g) ==
  /\ pc = "idle" /\ Renders(g) /\ ~Strict
  /\ fade > 1 /\ (Shaped(g) \/ Fading(g))
  /\ fade' = fade - 1 /\ prev' = prev
  /\ UNCHANGED <<pc, cand, keep, before, scene, catalog, graph, ir, lou, aware, calib,
                 pendings, bank, rate, state>>

\* A rendered block of a fading group moves the crossfade on; the last one
\* retires the previous PEQ.
RenderFade(g) ==
  /\ pc = "idle" /\ Renders(g) /\ ~Strict
  /\ fade > 0 /\ (Shaped(g) \/ Fading(g))
  /\ fade' = fade - 1
  /\ prev' = IF fade = 1 THEN Detached ELSE prev
  /\ UNCHANGED <<pc, cand, keep, before, scene, catalog, graph, ir, lou, aware, calib,
                 pendings, bank, rate, state>>

-----------------------------------------------------------------------------
\* The host may have started a source (test tone, WAV file, driver loopback)
\* that committed its own Strict Direct graph to "main" before the loop runs.
SourceGraph == [ch |-> SinkChannels, strict |-> TRUE, lanes |-> {Main}]

Init ==
  /\ pc = "idle" /\ cand = NoScene /\ keep = FALSE
  /\ scene = NoScene
  /\ catalog = [id \in CustomIds |-> NoScene]
  /\ \/ graph = NoGraph /\ rate = DefaultRate
     \/ graph = SourceGraph /\ rate = SinkRate
  /\ ir = Detached /\ lou = Detached /\ prev = Detached /\ aware = Detached
  /\ calib = Detached /\ fade = 0
  /\ pGraph = NoPending /\ pIr = NoPending /\ pLou = NoPending /\ pAware = NoPending
  /\ bank = {Main} /\ state = "Ready"
  /\ before = NoScene

Apply ==
  \/ \E s \in Resolvable : BeginApply(s)
  \/ PrepareGraph    \/ RejectGraph
  \/ PrepareIr
  \/ PrepareLoudness \/ RejectLoudness
  \/ PrepareAware
  \/ CommitScene

Catalog ==
  \/ \E id \in CustomIds, s \in CustomScenes : UpsertScene(id, s)
  \/ \E id \in CustomIds : RemoveScene(id)
  \/ ClearScenes

Others ==
  \/ RollbackGraph
  \/ \E c \in Channels \cup {1} : AttachIr(c)
  \/ \E g \in CalibGroups : AttachCalibration(g)
  \/ \E g \in Groups : VolumeNotification(g)
  \/ \E gs \in DeliveryLanes : RebuildDelivery(gs) \/ RejectDelivery(gs)

Render == \E g \in Groups : RenderFade(g)

Next == Apply \/ Catalog \/ Others \/ Render

Spec == Init /\ [][Next]_vars

\* Every pass of the host loop takes the commands it drained to their end and
\* then renders, so a block is rendered again and again however many commands
\* keep arriving.
FairSpec == Spec /\ WF_vars(pc # "idle" /\ Apply) /\ SF_vars(Render)

-----------------------------------------------------------------------------
(* Properties *)

TypeOK ==
  /\ pc \in {"idle", "graph", "ir", "loudness", "aware", "commit"}
  /\ cand \in Scenes \cup {NoScene} /\ keep \in BOOLEAN
  /\ scene \in Scenes \cup {NoScene}
  /\ catalog \in [CustomIds -> CustomScenes \cup {NoScene}]
  /\ graph \in Graphs \cup {NoGraph} /\ pGraph \in Graphs \cup {NoPending}
  /\ ir \in IrAtts \cup {Detached} /\ pIr \in {Detached, NoPending}
  /\ lou \in LoudnessAtts \cup {Detached}
  /\ pLou \in LoudnessAtts \cup {Detached, NoPending}
  /\ aware \in AwareAtts \cup {Detached}
  /\ pAware \in AwareAtts \cup {Detached, NoPending}
  /\ calib \in CalibAtts \cup {Detached}
  /\ prev \in LoudnessAtts \cup {Detached} /\ fade \in 0..FadeBlocks
  /\ bank \subseteq Groups /\ rate \in Rates
  /\ state \in {"Ready", "Prepared", "Degraded"}

\* No command leaves half a transaction behind: between commands nothing is
\* pending, and the engine reports Prepared exactly while a graph is.  A
\* rollback missing on one error path would hand its leftover to the next
\* command (engine_control.cpp, the failure returns of apply_scene).
NoHalfOpenTransaction ==
  /\ pc = "idle" => pGraph = NoPending /\ pIr = NoPending
                      /\ pLou = NoPending /\ pAware = NoPending
  /\ state = "Prepared" <=> pGraph # NoPending

\* Once every part of a Scene is prepared no commit can find its part missing,
\* so a Scene is never half committed: the rollbacks after a failed commit are
\* unreachable (engine_control.cpp, the four commit branches).  In particular
\* the program-aware step, which has no failure left, finds its group.
CommitsReady ==
  /\ pc = "aware" /\ cand.aware => cand.group \in bank
  /\ pc = "commit" => /\ pGraph # NoPending /\ pLou # NoPending /\ pAware # NoPending
                      /\ keep <=> pIr = NoPending

\* A Scene that fails to apply leaves everything that is rendered, and the
\* active Scene, as it was when the command arrived.
FailedApplyKeepsConfig ==
  [][pc \notin {"idle", "commit"} /\ pc' = "idle" => Config' = before]_vars

\* Whatever volume notifications, rebuilt graphs and failed switches happen in
\* between, the loudness PEQ and the program-aware controller are those of
\* the active Scene: never left over from an earlier one, never lost.
AttachmentsFollowScene ==
  IF scene = NoScene THEN lou = Detached /\ aware = Detached
  ELSE /\ IF scene.mount THEN lou # Detached /\ lou.group = scene.group /\ lou.live
          ELSE lou = Detached
       /\ IF scene.aware THEN aware # Detached /\ aware.group = scene.group
          ELSE aware = Detached

\* An IR calibration outlives a Scene switch only under the label it was
\* prepared for: an unrelated Movie calibration cannot survive into a Game or
\* Studio Scene, through however many failed and successful switches.
IrKeepsItsReference ==
  ir # Detached => ir.forRef = (IF scene = NoScene THEN NoRef ELSE scene.ref)

\* A crossfade runs between two PEQs of one group, and the previous one is
\* held exactly as long as the crossfade runs.
CrossfadePairs ==
  /\ fade > 0 <=> prev # Detached
  /\ fade > 0 => lou # Detached /\ lou.group = prev.group

\* Every group that is rendered, or about to be, has its slot in the volume
\* bank, so the Group Master can be applied to it; the bank stays within its
\* capacity although registrations are never given back.
RenderedGroupsRegistered ==
  /\ graph # NoGraph => graph.lanes \subseteq bank
  /\ pGraph # NoPending => pGraph.lanes \subseteq bank
  /\ Cardinality(bank) <= GroupCapacity

\* The crossfade can be heard: the graph renders its group and does not bypass it,
\* and both PEQs, and the IR of that group, were prepared for this graph.
FadeFits ==
  /\ fade > 0 /\ graph # NoGraph /\ ~graph.strict /\ lou.group \in graph.lanes
  /\ Matches(lou) /\ Matches(prev)
  /\ ir # Detached /\ ir.group = lou.group => ir.ch = graph.ch

\* Nothing but the geometry holds a crossfade up: one that stays at a block for
\* ever is, from some time on, in a graph without its group, under Strict Direct,
\* or between attachments of another layout or rate (audio_engine.cpp:1275-1284,
\* where the code does stall); in a graph that fits it goes on to the next block,
\* or a newer commit restarts or drops it.  The volume may restart it for ever.
CrossfadeAdvances == \A n \in 1..FadeBlocks : <>[](fade = n) => <>[]~FadeFits

-----------------------------------------------------------------------------
(* Statements of the documents, checked against the code *)

\* engine_control.cpp:164-165: an IR survives a switch only if the Scene "targets
\* the same output group".  TLC refutes it: only the labels are compared.
KeptIrSameGroup ==
  [][pc = "commit" /\ ir # Detached /\ ir' # Detached => cand.group = scene.group]_vars

\* SPEC-0002: after a switch between stereo, 5.1 and 7.1 Scenes, which leaves no
\* attachment behind with the old channel count, rendering still succeeds.
SwitchStillRenders ==
  [][\A g \in Groups : pc = "commit" /\ g = cand.group /\ g \in cand.lanes
                           => Renders(g)']_vars

=============================================================================
