---------------------------- MODULE Engine_proofs ----------------------------
(***************************************************************************)
(* Theorems about the engine: the transaction that applies a Scene, and    *)
(* the two parts that face an endpoint of Windows, the link with its       *)
(* volume and the handoff between two of its outputs.                      *)
(*                                                                         *)
(* SceneEngine, for any Scenes, banks and failures.  None of its           *)
(* invariants is inductive alone: what a commit publishes was prepared     *)
(* steps earlier.  IInv adds what is known at each step of the transaction *)
(* (Phase), how the prepared parts relate to the Scene being applied       *)
(* (Prepared), and that nothing rendered has changed since the transaction *)
(* started (Backup).                                                       *)
(*                                                                         *)
(* VolumeLink, for any number of endpoints, callback threads, attempts and *)
(* failures: LinkInv adds to the types what the callbacks keep true of the *)
(* cell, what the poll knows of its copy, and how last_engine_state        *)
(* follows the engine.                                                     *)
(*                                                                         *)
(* WasapiHandoff, for any queue length, number of attempts and length of a *)
(* fade: its properties speak of the moments between two calls; HandoffInv *)
(* adds what holds while the owner joins.                                  *)
(***************************************************************************)
EXTENDS SceneEngine, VolumeLink, WasapiHandoff, FiniteSetTheorems, TLAPS

-----------------------------------------------------------------------------
(* The Scene transaction *)

\* What is pending at each step of a transaction.
Phase ==
  /\ pc # "idle" => cand \in Scenes /\ (cand.aware => cand.mount)
  /\ pc \in {"idle", "graph", "ir"} => ~keep /\ pIr = NoPending
  /\ pc \in {"idle", "graph"} <=> pGraph = NoPending
  /\ pc \in {"idle", "graph", "ir", "loudness"} => pLou = NoPending
  /\ pc # "commit" => pAware = NoPending
  /\ pc \in {"loudness", "aware", "commit"} => (keep <=> pIr = NoPending)
  /\ state = "Prepared" <=> pGraph # NoPending

\* What is prepared is what the Scene being applied asks for.
Prepared ==
  /\ keep => scene # NoScene /\ cand.ref = scene.ref
  /\ pc \in {"aware", "commit"} =>
       IF cand.mount
       THEN pLou \in LoudnessAtts /\ pLou.group = cand.group /\ cand.group \in bank
       ELSE pLou = Detached
  /\ pc = "commit" =>
       IF cand.aware
       THEN pAware \in AwareAtts /\ pAware.group = cand.group
       ELSE pAware = Detached

\* Until it commits, a transaction changes nothing that is rendered.
Backup == pc # "idle" => Config = before

IInv ==
  /\ TypeOK /\ Phase /\ Prepared /\ Backup
  /\ AttachmentsFollowScene /\ IrKeepsItsReference
  /\ CrossfadePairs /\ RenderedGroupsRegistered

-----------------------------------------------------------------------------
(* Operators *)

\* What a SceneApply command resolves is a Scene, and one that is
\* program-aware mounts loudness too (make_easy_scene; custom Scenes carry no
\* program-aware policy).
LEMMA ResolvableScenes ==
  ASSUME TypeOK, NEW s \in Resolvable
  PROVE  s \in Scenes /\ (s.aware => s.mount)
<1>1. CASE s \in PresetScenes
  <2>1. PICK k \in {"game", "movie", "voice", "studio"}, g \in Groups : s = Preset(k, g)
    BY <1>1 DEF PresetScenes
  <2>2. {g} \in Lanes
    BY DEF Lanes
  <2> QED
    BY <2>1, <2>2, SceneEngineAssumption DEF Preset, Scenes
<1>2. CASE s \in {catalog[id] : id \in Stored}
  <2>1. PICK id \in Stored : s = catalog[id]
    BY <1>2
  <2>2. s \in CustomScenes
    BY <2>1 DEF TypeOK, Stored
  <2> QED
    BY <2>2, SceneEngineAssumption
<1> QED
  BY <1>1, <1>2 DEF Resolvable

\* An attachment is prepared for the pending graph's channel count, or the
\* active graph's, or the default (prepare_loudness_peq, prepare_ir).
LEMMA TargetChannelsType ==
  ASSUME TypeOK, NEW S, Channels \subseteq S, NEW d \in S
  PROVE  TargetChannels(d) \in S
BY DEF TypeOK, TargetChannels, Graphs

\* The loudness attachment prepared for a group is one for that group.
LEMMA LoudnessForType ==
  ASSUME TypeOK, NEW g \in Groups, NEW live \in BOOLEAN
  PROVE  /\ LoudnessFor(g, live) \in LoudnessAtts
         /\ LoudnessFor(g, live).group = g
         /\ LoudnessFor(g, live).live = live
         /\ LoudnessFor(g, live) # Detached
<1>1. TargetChannels(Stereo) \in Channels
  BY TargetChannelsType, SceneEngineAssumption
<1> QED
  BY <1>1, SceneEngineSentinels DEF TypeOK, LoudnessFor, LoudnessAtts

\* A committed attachment leaves the crossfade between two PEQs of one group,
\* or none (commit_loudness_peq).
LEMMA CommitLoudnessPairs ==
  ASSUME TypeOK, NEW a \in LoudnessAtts \cup {Detached}, CommitLoudness(a)
  PROVE  /\ lou' = a
         /\ prev' \in LoudnessAtts \cup {Detached} /\ fade' \in 0..FadeBlocks
         /\ CrossfadePairs'
BY SceneEngineAssumption DEF TypeOK, CommitLoudness, CrossfadePairs

\* Registering the groups of a graph keeps the volume bank within its capacity.
LEMMA OverfullBank ==
  ASSUME TypeOK, RenderedGroupsRegistered, NEW gs \in Lanes,
         bank' \in IF Fits(gs) THEN {bank} ELSE Overfull(gs)
  PROVE  /\ bank \subseteq bank' /\ bank' \subseteq Groups
         /\ Cardinality(bank') <= GroupCapacity
BY SceneEngineAssumption DEF TypeOK, RenderedGroupsRegistered, Overfull, Lanes

-----------------------------------------------------------------------------
(* IInv is an inductive invariant *)

LEMMA InitIInv == Init => IInv
<1> SUFFICES ASSUME Init PROVE IInv
  OBVIOUS
<1>1. TypeOK
  <2>1. SourceGraph \in Graphs
    BY SceneEngineAssumption DEF SourceGraph, Graphs, Lanes
  <2>2. graph \in Graphs \cup {NoGraph} /\ rate \in Rates
    BY <2>1, SceneEngineAssumption DEF Init
  <2>3. catalog \in [CustomIds -> CustomScenes \cup {NoScene}]
    BY DEF Init
  <2>4. bank \subseteq Groups /\ fade \in 0..FadeBlocks
    BY SceneEngineAssumption DEF Init
  <2> QED
    BY <2>2, <2>3, <2>4 DEF Init, TypeOK
<1>2. RenderedGroupsRegistered
  <2>1. Cardinality({Main}) = 1
    BY FS_Singleton
  <2>2. SourceGraph \in Graphs
    BY SceneEngineAssumption DEF SourceGraph, Graphs, Lanes
  <2> QED
    BY <2>1, <2>2, SceneEngineAssumption, SceneEngineSentinels
    DEF Init, RenderedGroupsRegistered, SourceGraph
<1>3. Phase /\ Prepared /\ Backup
  BY SceneEngineAssumption DEF Init, Phase, Prepared, Backup
<1>4. AttachmentsFollowScene /\ IrKeepsItsReference /\ CrossfadePairs
  BY SceneEngineAssumption DEF Init, AttachmentsFollowScene, IrKeepsItsReference, CrossfadePairs
<1> QED
  BY <1>1, <1>2, <1>3, <1>4 DEF IInv

LEMMA NextIInv == IInv /\ [Next]_vars => IInv'
<1> SUFFICES ASSUME IInv, [Next]_vars PROVE IInv'
  OBVIOUS
<1> USE DEF IInv
<1> USE SceneEngineAssumption, SceneEngineSentinels
<1>1. ASSUME NEW s \in Resolvable, BeginApply(s) PROVE IInv'
  <2>1. s \in Scenes /\ (s.aware => s.mount)
    BY ResolvableScenes
  <2>2. TypeOK'
    BY <1>1, <2>1 DEF BeginApply, TypeOK, actives, pendings
  <2>3. Phase' /\ Prepared'
    BY <1>1, <2>1 DEF BeginApply, Phase, Prepared, actives, pendings
  <2>4. Backup'
    BY <1>1 DEF BeginApply, Backup, Config, actives
  <2>5. (AttachmentsFollowScene /\ IrKeepsItsReference /\ CrossfadePairs)'
    BY <1>1 DEF BeginApply, AttachmentsFollowScene, IrKeepsItsReference, CrossfadePairs, actives
  <2>6. RenderedGroupsRegistered'
    BY <1>1 DEF BeginApply, RenderedGroupsRegistered, actives, pendings
  <2> QED
    BY <2>2, <2>3, <2>4, <2>5, <2>6
<1>2. ASSUME PrepareGraph PROVE IInv'
  <2>1. cand \in Scenes /\ GraphOf(cand) \in Graphs /\ cand.lanes \in Lanes
    BY <1>2 DEF PrepareGraph, Phase, Scenes, Graphs, GraphOf
  <2>2. TypeOK'
    BY <1>2, <2>1 DEF PrepareGraph, TypeOK, actives, Lanes
  <2>3. Phase' /\ Prepared'
    BY <1>2, <2>1 DEF PrepareGraph, Phase, Prepared, actives
  <2>4. Backup'
    BY <1>2 DEF PrepareGraph, Backup, Config, actives
  <2>5. (AttachmentsFollowScene /\ IrKeepsItsReference /\ CrossfadePairs)'
    BY <1>2 DEF PrepareGraph, AttachmentsFollowScene, IrKeepsItsReference, CrossfadePairs, actives
  <2>6. RenderedGroupsRegistered'
    BY <1>2, <2>1 DEF PrepareGraph, RenderedGroupsRegistered, Fits, GraphOf, actives
  <2> QED
    BY <2>2, <2>3, <2>4, <2>5, <2>6
<1>3. ASSUME RejectGraph PROVE IInv'
  <2>1. cand.lanes \in Lanes
    BY <1>3 DEF RejectGraph, Phase, Scenes
  <2>2. bank \subseteq bank' /\ bank' \subseteq Groups /\ Cardinality(bank') <= GroupCapacity
    BY <1>3, <2>1, OverfullBank DEF RejectGraph
  <2>3. TypeOK'
    BY <1>3, <2>2 DEF RejectGraph, TypeOK, RolledBackState, actives
  <2>4. Phase' /\ Prepared' /\ Backup'
    BY <1>3 DEF RejectGraph, Phase, Prepared, Backup, RolledBackState, actives
  <2>5. (AttachmentsFollowScene /\ IrKeepsItsReference /\ CrossfadePairs)'
    BY <1>3 DEF RejectGraph, AttachmentsFollowScene, IrKeepsItsReference, CrossfadePairs, actives
  <2>6. RenderedGroupsRegistered'
    BY <1>3, <2>2 DEF RejectGraph, RenderedGroupsRegistered, actives
  <2> QED
    BY <2>3, <2>4, <2>5, <2>6
<1>4. ASSUME PrepareIr PROVE IInv'
  <2>1. TypeOK'
    BY <1>4 DEF PrepareIr, KeepReferencedIr, TypeOK, actives
  <2>2. Phase' /\ Prepared'
    BY <1>4 DEF PrepareIr, KeepReferencedIr, Phase, Prepared, actives
  <2>3. Backup'
    BY <1>4 DEF PrepareIr, Backup, Config, actives
  <2>4. (AttachmentsFollowScene /\ IrKeepsItsReference /\ CrossfadePairs)'
    BY <1>4 DEF PrepareIr, AttachmentsFollowScene, IrKeepsItsReference, CrossfadePairs, actives
  <2>5. RenderedGroupsRegistered'
    BY <1>4 DEF PrepareIr, RenderedGroupsRegistered, actives
  <2> QED
    BY <2>1, <2>2, <2>3, <2>4, <2>5
<1>5. ASSUME PrepareLoudness PROVE IInv'
  <2>1. cand \in Scenes
    BY <1>5 DEF PrepareLoudness, Phase
  <2>2. /\ LoudnessFor(cand.group, FALSE) \in LoudnessAtts
        /\ LoudnessFor(cand.group, FALSE).group = cand.group
    BY <2>1, LoudnessForType DEF Scenes
  <2>3. TypeOK'
    <3>1. pLou' \in LoudnessAtts \cup {Detached, NoPending}
      BY <1>5, <2>2 DEF PrepareLoudness
    <3> QED
      BY <1>5, <3>1 DEF PrepareLoudness, TypeOK, actives
  <2>4. Phase' /\ Prepared'
    BY <1>5, <2>1, <2>2 DEF PrepareLoudness, Phase, Prepared, Scenes, actives
  <2>5. Backup'
    BY <1>5 DEF PrepareLoudness, Backup, Config, actives
  <2>6. (AttachmentsFollowScene /\ IrKeepsItsReference /\ CrossfadePairs)'
    BY <1>5 DEF PrepareLoudness, AttachmentsFollowScene, IrKeepsItsReference, CrossfadePairs, actives
  <2>7. RenderedGroupsRegistered'
    BY <1>5 DEF PrepareLoudness, RenderedGroupsRegistered, actives
  <2> QED
    BY <2>3, <2>4, <2>5, <2>6, <2>7
<1>6. ASSUME RejectLoudness PROVE IInv'
  <2>1. TypeOK'
    BY <1>6 DEF RejectLoudness, Abandon, RolledBackState, TypeOK, actives
  <2>2. Phase' /\ Prepared' /\ Backup'
    BY <1>6 DEF RejectLoudness, Abandon, RolledBackState, Phase, Prepared, Backup
  <2>3. (AttachmentsFollowScene /\ IrKeepsItsReference /\ CrossfadePairs)'
    BY <1>6 DEF RejectLoudness, AttachmentsFollowScene, IrKeepsItsReference, CrossfadePairs, actives
  <2>4. RenderedGroupsRegistered'
    BY <1>6 DEF RejectLoudness, Abandon, RenderedGroupsRegistered, actives
  <2> QED
    BY <2>1, <2>2, <2>3, <2>4
<1>7. ASSUME PrepareAware PROVE IInv'
  <2>1. cand \in Scenes
    BY <1>7 DEF PrepareAware, Phase
  <2>2. cand.aware => [group |-> cand.group, rate |-> rate] \in AwareAtts
    BY <2>1 DEF TypeOK, AwareAtts, Scenes
  <2>3. TypeOK'
    BY <1>7, <2>2 DEF PrepareAware, TypeOK, actives
  <2>4. Phase' /\ Prepared'
    BY <1>7, <2>2 DEF PrepareAware, Phase, Prepared, AwareAtts, actives
  <2>5. Backup'
    BY <1>7 DEF PrepareAware, Backup, Config, actives
  <2>6. (AttachmentsFollowScene /\ IrKeepsItsReference /\ CrossfadePairs)'
    BY <1>7 DEF PrepareAware, AttachmentsFollowScene, IrKeepsItsReference, CrossfadePairs, actives
  <2>7. RenderedGroupsRegistered'
    BY <1>7 DEF PrepareAware, RenderedGroupsRegistered, actives
  <2> QED
    BY <2>3, <2>4, <2>5, <2>6, <2>7
<1>8. ASSUME CommitScene PROVE IInv'
  <2> DEFINE a == IF pLou = Detached THEN Detached ELSE [pLou EXCEPT !.live = cand.mount]
  <2>1. /\ cand \in Scenes /\ pGraph \in Graphs /\ pAware \in AwareAtts \cup {Detached}
        /\ pLou \in LoudnessAtts \cup {Detached} /\ (keep \/ pIr = Detached)
    BY <1>8 DEF CommitScene, Phase, Prepared, TypeOK
  <2>2. /\ a \in LoudnessAtts \cup {Detached}
        /\ IF cand.mount THEN a \in LoudnessAtts /\ a.group = cand.group /\ a.live
                         ELSE a = Detached
    BY <1>8, <2>1 DEF CommitScene, Prepared, LoudnessAtts, Scenes
  <2>3. /\ lou' = a /\ prev' \in LoudnessAtts \cup {Detached}
        /\ fade' \in 0..FadeBlocks /\ CrossfadePairs'
    BY <1>8, <2>2, CommitLoudnessPairs DEF CommitScene
  <2>4. TypeOK'
    BY <1>8, <2>1, <2>2, <2>3 DEF CommitScene, TypeOK
  <2>5. Phase' /\ Prepared' /\ Backup'
    BY <1>8 DEF CommitScene, Phase, Prepared, Backup
  <2>6. AttachmentsFollowScene'
    BY <1>8, <2>1, <2>2, <2>3 DEF CommitScene, Prepared, AttachmentsFollowScene
  <2>7. IrKeepsItsReference'
    BY <1>8, <2>1 DEF CommitScene, Prepared, IrKeepsItsReference
  <2>8. RenderedGroupsRegistered'
    BY <1>8 DEF CommitScene, Phase, RenderedGroupsRegistered
  <2> QED
    BY <2>3, <2>4, <2>5, <2>6, <2>7, <2>8
<1>9. ASSUME Catalog PROVE IInv'
  <2>1. /\ catalog' \in [CustomIds -> CustomScenes \cup {NoScene}]
        /\ UNCHANGED <<pc, cand, keep, before, scene, actives, pendings, bank, rate, state>>
    BY <1>9 DEF Catalog, UpsertScene, RemoveScene, ClearScenes, TypeOK
  <2> QED
    BY <2>1 DEF TypeOK, Phase, Prepared, Backup, Config, AttachmentsFollowScene,
      IrKeepsItsReference, CrossfadePairs, RenderedGroupsRegistered, actives, pendings
<1>10. ASSUME RollbackGraph PROVE IInv'
  <2>1. pGraph' = pGraph /\ state' \in {"Ready", "Degraded"}
    BY <1>10 DEF RollbackGraph, RolledBackState, Phase
  <2>2. TypeOK' /\ Phase' /\ Prepared' /\ Backup'
    BY <1>10, <2>1 DEF RollbackGraph, TypeOK, Phase, Prepared, Backup, actives
  <2> QED
    BY <1>10, <2>1, <2>2 DEF RollbackGraph, AttachmentsFollowScene, IrKeepsItsReference,
      CrossfadePairs, RenderedGroupsRegistered, actives
<1>11. ASSUME NEW c \in Channels \cup {1}, AttachIr(c) PROVE IInv'
  <2>1. ir' \in IrAtts
    <3>1. TargetChannels(c) \in Channels \cup {1}
      BY TargetChannelsType
    <3>2. (IF scene = NoScene THEN NoRef ELSE scene.ref) \in Refs \cup {NoRef}
      BY DEF TypeOK, Scenes
    <3> QED
      BY <1>11, <3>1, <3>2 DEF AttachIr, IrAtts
  <2>2. ir'.forRef = IF scene = NoScene THEN NoRef ELSE scene.ref
    BY <1>11 DEF AttachIr
  <2>3. TypeOK' /\ Phase' /\ Prepared' /\ Backup'
    BY <1>11, <2>1 DEF AttachIr, TypeOK, Phase, Prepared, Backup, pendings
  <2> QED
    BY <1>11, <2>2, <2>3 DEF AttachIr, AttachmentsFollowScene, IrKeepsItsReference,
      CrossfadePairs, RenderedGroupsRegistered, pendings
<1>12. ASSUME NEW g \in CalibGroups, AttachCalibration(g) PROVE IInv'
  <2>1. calib' \in CalibAtts
    <3>1. TargetChannels(Stereo) \in Channels
      BY TargetChannelsType
    <3> QED
      BY <1>12, <3>1 DEF AttachCalibration, CalibAtts, TypeOK
  <2>2. TypeOK' /\ Phase' /\ Prepared' /\ Backup'
    BY <1>12, <2>1 DEF AttachCalibration, TypeOK, Phase, Prepared, Backup, pendings
  <2> QED
    BY <1>12, <2>2 DEF AttachCalibration, AttachmentsFollowScene, IrKeepsItsReference,
      CrossfadePairs, RenderedGroupsRegistered, pendings
<1>13. ASSUME NEW g \in Groups, VolumeNotification(g) PROVE IInv'
  <2>1. /\ LoudnessFor(g, TRUE) \in LoudnessAtts /\ LoudnessFor(g, TRUE) # Detached
        /\ LoudnessFor(g, TRUE).group = g /\ LoudnessFor(g, TRUE).live
    BY LoudnessForType
  <2>2. /\ lou' = LoudnessFor(g, TRUE) /\ prev' \in LoudnessAtts \cup {Detached}
        /\ fade' \in 0..FadeBlocks /\ CrossfadePairs'
    BY <1>13, <2>1, CommitLoudnessPairs DEF VolumeNotification, LiveUpdate
  <2>3. TypeOK' /\ Phase' /\ Prepared' /\ Backup'
    BY <1>13, <2>1, <2>2 DEF VolumeNotification, TypeOK, Phase, Prepared, Backup, pendings
  <2>4. AttachmentsFollowScene'
    BY <1>13, <2>1, <2>2 DEF VolumeNotification, LiveUpdate, AttachmentsFollowScene
  <2> QED
    BY <1>13, <2>2, <2>3, <2>4 DEF VolumeNotification, IrKeepsItsReference,
      RenderedGroupsRegistered, pendings
<1>14. ASSUME NEW gs \in DeliveryLanes, RebuildDelivery(gs) PROVE IInv'
  <2>1. gs \in Lanes /\ graph' \in Graphs /\ graph'.lanes = gs
    BY <1>14 DEF RebuildDelivery, Graphs
  <2>2. TypeOK' /\ Phase' /\ Prepared' /\ Backup'
    BY <1>14, <2>1 DEF RebuildDelivery, TypeOK, Phase, Prepared, Backup, Lanes, pendings
  <2>3. RenderedGroupsRegistered'
    BY <1>14, <2>1 DEF RebuildDelivery, RenderedGroupsRegistered, Fits, Phase, pendings
  <2> QED
    BY <1>14, <2>2, <2>3 DEF RebuildDelivery, AttachmentsFollowScene, IrKeepsItsReference,
      CrossfadePairs
<1>15. ASSUME NEW gs \in DeliveryLanes, RejectDelivery(gs) PROVE IInv'
  <2>1. bank \subseteq bank' /\ bank' \subseteq Groups /\ Cardinality(bank') <= GroupCapacity
    BY <1>15, OverfullBank DEF RejectDelivery
  <2>2. TypeOK' /\ Phase' /\ Prepared' /\ Backup'
    BY <1>15, <2>1 DEF RejectDelivery, RolledBackState, TypeOK, Phase, Prepared, Backup,
      actives, pendings
  <2>3. RenderedGroupsRegistered'
    BY <1>15, <2>1 DEF RejectDelivery, RenderedGroupsRegistered, actives, pendings
  <2> QED
    BY <1>15, <2>2, <2>3 DEF RejectDelivery, AttachmentsFollowScene, IrKeepsItsReference,
      CrossfadePairs, actives
<1>16. ASSUME NEW g \in Groups, RenderFade(g) PROVE IInv'
  <2>1. /\ fade' \in 0..FadeBlocks /\ prev' \in LoudnessAtts \cup {Detached}
        /\ CrossfadePairs'
    BY <1>16 DEF RenderFade, TypeOK, CrossfadePairs
  <2>2. TypeOK' /\ Phase' /\ Prepared' /\ Backup'
    BY <1>16, <2>1 DEF RenderFade, TypeOK, Phase, Prepared, Backup, pendings
  <2> QED
    BY <1>16, <2>1, <2>2 DEF RenderFade, AttachmentsFollowScene, IrKeepsItsReference,
      RenderedGroupsRegistered, pendings
<1>17. CASE UNCHANGED vars
  BY <1>17 DEF vars, TypeOK, Phase, Prepared, Backup, Config, AttachmentsFollowScene,
    IrKeepsItsReference, CrossfadePairs, RenderedGroupsRegistered, actives, pendings
<1> QED
  BY <1>1, <1>2, <1>3, <1>4, <1>5, <1>6, <1>7, <1>8, <1>9, <1>10, <1>11, <1>12, <1>13,
     <1>14, <1>15, <1>16, <1>17 DEF Next, Apply, Others, Render

-----------------------------------------------------------------------------
(* Theorems *)

LEMMA InvariantIInv == Spec => []IInv
<1> QED
  BY InitIInv, NextIInv, PTL DEF Spec

\* Every variable keeps the type the code gives it; in particular only a
\* detach is ever left pending for the IR.
THEOREM TypeCorrect == Spec => []TypeOK
<1>1. IInv => TypeOK
  BY DEF IInv
<1> QED
  BY InvariantIInv, <1>1, PTL

\* Between commands no part of a Scene transaction is pending
\* (the failure returns of apply_scene).
THEOREM NoHalfOpen == Spec => []NoHalfOpenTransaction
<1>1. IInv => NoHalfOpenTransaction
  BY DEF IInv, Phase, NoHalfOpenTransaction
<1> QED
  BY InvariantIInv, <1>1, PTL

\* Once all parts are prepared, no commit of the transaction can fail: the
\* rollback branches after the four commits of apply_scene are unreachable.
THEOREM CommitsNeverFail == Spec => []CommitsReady
<1>1. IInv => CommitsReady
  BY SceneEngineSentinels
  DEF IInv, Phase, Prepared, TypeOK, CommitsReady
<1> QED
  BY InvariantIInv, <1>1, PTL

\* The loudness PEQ and the program-aware controller are always those of the
\* active Scene.
THEOREM SceneOwnsAttachments == Spec => []AttachmentsFollowScene
<1>1. IInv => AttachmentsFollowScene
  BY DEF IInv
<1> QED
  BY InvariantIInv, <1>1, PTL

\* An IR survives switches only under the label it was prepared for
\* (keep_referenced_ir).
THEOREM IrReferenceKept == Spec => []IrKeepsItsReference
<1>1. IInv => IrKeepsItsReference
  BY DEF IInv
<1> QED
  BY InvariantIInv, <1>1, PTL

\* A crossfade always runs between two PEQs of one group
\* (commit_loudness_peq, apply_loudness_peq).
THEOREM CrossfadesPaired == Spec => []CrossfadePairs
<1>1. IInv => CrossfadePairs
  BY DEF IInv
<1> QED
  BY InvariantIInv, <1>1, PTL

\* What is rendered or prepared has its groups in the volume bank, which stays
\* within its capacity (prepare_graph, register_group).
THEOREM RenderedRegistered == Spec => []RenderedGroupsRegistered
<1>1. IInv => RenderedGroupsRegistered
  BY DEF IInv
<1> QED
  BY InvariantIInv, <1>1, PTL

\* A Scene that fails to apply leaves what is rendered as it was when the
\* command arrived.
THEOREM FailureIsInvisible == Spec => FailedApplyKeepsConfig
<1>1. /\ IInv /\ [Next]_vars
      => [pc \notin {"idle", "commit"} /\ pc' = "idle" => Config' = before]_vars
  <2> SUFFICES ASSUME IInv, Next, pc \notin {"idle", "commit"}, pc' = "idle"
               PROVE  Config' = before
    OBVIOUS
  <2>1. Config = before
    BY DEF IInv, Backup
  <2>2. RejectGraph \/ RejectLoudness
    BY DEF Next, Apply, Catalog, Others, Render, BeginApply, PrepareGraph, PrepareIr,
      PrepareLoudness, PrepareAware, CommitScene, UpsertScene, RemoveScene, ClearScenes,
      RollbackGraph, AttachIr, AttachCalibration, VolumeNotification, RebuildDelivery,
      RejectDelivery, RenderFade
  <2> QED
    BY <2>1, <2>2 DEF RejectGraph, RejectLoudness, Config, actives
<1> QED
  BY <1>1, InvariantIInv, PTL DEF Spec, FailedApplyKeepsConfig

-----------------------------------------------------------------------------
(* The volume link: the inductive invariant *)

Storing(c) == cb[c].pc \in {"mute", "context", "release"}

\* One caller stores at a time; it stores the note it claimed last, and the
\* sequence number is odd until it is done.
CellLocked ==
  /\ \A c \in Callers : cb[c].pc # "idle" => cb[c].note \in Notes
  /\ \A c, d \in Callers : Storing(c) /\ Storing(d) => c = d
  /\ \A c \in Callers : Storing(c) =>
       /\ Len(claimed) > 0 /\ seq = 2 * Len(claimed) - 1 /\ cb[c].seen = seq - 1
       /\ cb[c].note = claimed[Len(claimed)]
       /\ cb[c].pc # "mute" => cell.mute = cb[c].note.mute
       /\ cb[c].pc = "release" => cell.ctx = cb[c].note.ctx
  /\ (\A c \in Callers : ~Storing(c)) =>
       /\ seq = 2 * Len(claimed)
       /\ Len(claimed) > 0 => /\ cell.mute = claimed[Len(claimed)].mute
                              /\ cell.ctx = claimed[Len(claimed)].ctx

\* The copy of a poll is that of the note it started with, unless the sequence
\* number has moved on in the meantime.
CopySound ==
  /\ lastSeq <= seq /\ seq <= 2 * Len(claimed)
  /\ hpc \in {"copyMute", "copyContext", "recheck", "level"} =>
       lastSeq <= rd.first /\ rd.first <= seq
  /\ \A k \in 1..Len(claimed) : rd.first = 2 * k =>
       /\ hpc \in {"copyContext", "recheck"} /\ seq = rd.first => rd.mute = claimed[k].mute
       /\ hpc = "recheck" /\ seq = rd.first => rd.ctx = claimed[k].ctx
       /\ hpc = "level" => rd.mute = claimed[k].mute /\ rd.ctx = claimed[k].ctx
  /\ hpc = "level" => rd.first > lastSeq

Bindings == {"readLevel", "readMute", "copyMute", "copyContext", "recheck", "level",
             "saveMute", "setLevel", "setMute", "restoreLevel", "restoreMute"}
Writing == {"saveMute", "setLevel", "setMute", "restoreLevel", "restoreMute"}

\* Whatever Windows reported is in last_engine_state already.
Followed ==
  /\ hpc \in Bindings => bound \in Endpoints
  /\ origin = "windows" /\ last # NoState => vol = last
  /\ hpc \in Writing => origin = "ui"

LinkInv == LinkTypeOK /\ CellLocked /\ CopySound /\ Followed

-----------------------------------------------------------------------------
(* TypeOK *)

\* A change of an endpoint and its report are well formed (SetEndpoint).
LEMMA SetEndpointType ==
  ASSUME LinkTypeOK, NEW e \in Endpoints, NEW v \in Volumes,
         NEW ctx \in {"user", "self"}, SetEndpoint(e, v, ctx)
  PROVE  ep' \in [Endpoints -> Volumes] /\ def' \in Endpoints /\ notes' \in Seq(Notes)
<1>1. [mute |-> v.mute, ctx |-> ctx] \in Notes
  BY DEF Notes, Volumes
<1> QED
  BY <1>1 DEF LinkTypeOK, SetEndpoint

\* A bounded event is counted (Spend).
LEMMA SpendType ==
  ASSUME LinkTypeOK, NEW w \in {"user", "ui", "fails", "rebinds"}, Spend(w)
  PROVE  spent' \in [{"user", "ui", "fails", "rebinds"} -> Nat]
BY DEF LinkTypeOK, Spend

\* A callback that goes on to its next store.
LEMMA StepOfCall ==
  ASSUME NEW calls \in [Callers -> [pc : {"idle", "claim", "mute", "context", "release"},
                                  seen : Nat, note : Notes \cup {NoEndpoint}]],
         NEW c \in Callers, NEW at \in {"mute", "context", "release"}
  PROVE  [calls EXCEPT ![c].pc = at]
           \in [Callers -> [pc : {"idle", "claim", "mute", "context", "release"},
                            seen : Nat, note : Notes \cup {NoEndpoint}]]
OBVIOUS

LEMMA InitLinkInv == LinkInit => LinkInv
<1> SUFFICES ASSUME LinkInit PROVE LinkInv
  OBVIOUS
<1> USE VolumeLinkAssumption
<1>1. ep[def] \in Volumes /\ bound \in Endpoints \cup {NoEndpoint}
  BY DEF LinkInit
<1> DEFINE First == [db |-> ep[def].db, mute |-> ep[def].mute, gen |-> 1]
           Fresh == [db |-> DefaultLevel, mute |-> FALSE, gen |-> 0]
<1>a. First \in States /\ Fresh \in States
  BY <1>1 DEF States, Volumes
<1>b. \/ vol = First /\ last = vol /\ gen = 1
      \/ vol = Fresh /\ last = NoState /\ gen = 0
  BY DEF LinkInit
<1>2. vol \in States /\ last \in States \cup {NoState} /\ gen \in Nat
  <2> HIDE DEF First, Fresh
  <2> QED
    BY <1>a, <1>b
<1>c. rd \in [first : Nat, mute : BOOLEAN, ctx : {"user", "self"}, tries : 0..Attempts - 1]
  BY DEF LinkInit, NoRead
<1>d. cb \in [Callers -> [pc : {"idle", "claim", "mute", "context", "release"},
                         seen : Nat, note : Notes \cup {NoEndpoint}]]
  BY DEF LinkInit, NoCall
<1>e. pair \in Volumes
  BY DEF LinkInit, Volumes
<1>f. spent \in [{"user", "ui", "fails", "rebinds"} -> Nat]
  BY DEF LinkInit
<1>g. notes \in Seq(Notes) /\ claimed \in Seq(Notes) /\ commands \in Seq(States)
  BY DEF LinkInit
<1>h. cell \in [mute : BOOLEAN, ctx : {"user", "self"}]
  BY DEF LinkInit
<1>3. LinkTypeOK
  <2>1. /\ ep \in [Endpoints -> Volumes] /\ def \in Endpoints /\ seq = 0 /\ lastSeq = 0
        /\ hpc = "rebind" /\ origin = "windows" /\ waiting = FALSE /\ uiGen = 0
    BY DEF LinkInit
  <2> QED
    BY <1>1, <1>2, <1>c, <1>d, <1>e, <1>f, <1>g, <1>h, <2>1 DEF LinkTypeOK
<1>4. CellLocked
  BY DEF LinkInit, CellLocked, Storing, NoCall
<1>5. CopySound
  BY DEF LinkInit, CopySound, NoRead
<1>6. Followed
  BY DEF LinkInit, Followed, Bindings, Writing
<1> QED
  BY <1>3, <1>4, <1>5, <1>6 DEF LinkInv

\* Windows and the callbacks leave the broker and the host loop alone.
LEMMA CallbackType ==
  ASSUME LinkInv, NEW c \in Callers, OnNotify(c)
  PROVE  LinkTypeOK'
<1> USE DEF LinkInv, LinkTypeOK
<1>1. CASE Deliver(c)
  <2>1. Head(notes) \in Notes /\ Tail(notes) \in Seq(Notes)
    BY <1>1 DEF Deliver
  <2>2. notes' \in Seq(Notes)
    BY <1>1, <2>1 DEF Deliver
  <2>3. cb' \in [Callers -> [pc : {"idle", "claim", "mute", "context", "release"},
                            seen : Nat, note : Notes \cup {NoEndpoint}]]
    BY <1>1, <2>1 DEF Deliver
  <2>4. UNCHANGED <<ep, def, seq, cell, claimed, bound, lastSeq, gen, hpc, rd, pair, vol,
                    origin, last, waiting, commands, uiGen, spent>>
    BY <1>1 DEF Deliver, broker, group, client
  <2> QED
    BY <2>2, <2>3, <2>4
<1>2. CASE Claim(c)
  <2>1. cb[c].note \in Notes
    BY <1>2 DEF Claim, CellLocked
  <2>2. claimed' \in Seq(Notes) /\ seq' \in Nat
    <3>1. claimed \in Seq(Notes) /\ claimed' = Append(claimed, cb[c].note) /\ seq' = seq + 1
      BY <1>2 DEF Claim
    <3> QED
      BY <2>1, <3>1
  <2>3. cb' \in [Callers -> [pc : {"idle", "claim", "mute", "context", "release"},
                            seen : Nat, note : Notes \cup {NoEndpoint}]]
    BY <1>2, StepOfCall DEF Claim
  <2>4. UNCHANGED <<ep, def, notes, cell, bound, lastSeq, gen, hpc, rd, pair, vol, origin,
                    last, waiting, commands, uiGen, spent>>
    BY <1>2 DEF Claim, windows, broker, group, client
  <2> QED
    BY <2>2, <2>3, <2>4
<1>3. CASE DropContended(c)
  BY <1>3 DEF DropContended, NoCall, windows, broker, group, client
<1>4. CASE StoreMute(c)
  <2>1. cb[c].note \in Notes
    BY <1>4 DEF StoreMute, CellLocked
  <2>2. cell' \in [mute : BOOLEAN, ctx : {"user", "self"}]
    BY <1>4, <2>1 DEF StoreMute, Notes
  <2>3. cb' \in [Callers -> [pc : {"idle", "claim", "mute", "context", "release"},
                            seen : Nat, note : Notes \cup {NoEndpoint}]]
    BY <1>4, StepOfCall DEF StoreMute
  <2>4. UNCHANGED <<ep, def, notes, seq, claimed, bound, lastSeq, gen, hpc, rd, pair, vol,
                    origin, last, waiting, commands, uiGen, spent>>
    BY <1>4 DEF StoreMute, windows, broker, group, client
  <2> QED
    BY <2>2, <2>3, <2>4
<1>5. CASE StoreContext(c)
  <2>1. cb[c].note \in Notes
    BY <1>5 DEF StoreContext, CellLocked
  <2>2. cell' \in [mute : BOOLEAN, ctx : {"user", "self"}]
    BY <1>5, <2>1 DEF StoreContext, Notes
  <2>3. cb' \in [Callers -> [pc : {"idle", "claim", "mute", "context", "release"},
                            seen : Nat, note : Notes \cup {NoEndpoint}]]
    BY <1>5, StepOfCall DEF StoreContext
  <2>4. UNCHANGED <<ep, def, notes, seq, claimed, bound, lastSeq, gen, hpc, rd, pair, vol,
                    origin, last, waiting, commands, uiGen, spent>>
    BY <1>5 DEF StoreContext, windows, broker, group, client
  <2> QED
    BY <2>2, <2>3, <2>4
<1>6. CASE ReleaseCell(c)
  BY <1>6 DEF ReleaseCell, NoCall, windows, broker, group, client
<1> QED
  BY <1>1, <1>2, <1>3, <1>4, <1>5, <1>6 DEF OnNotify

LEMMA RebindType ==
  ASSUME LinkInv, Rebind
  PROVE  LinkTypeOK'
<1> USE DEF LinkInv, LinkTypeOK
<1>1. CASE KeepBinding
  BY <1>1 DEF KeepBinding, windows, callback, broker, group, client
<1>2. CASE LoseBinding
  <2>1. spent' \in [{"user", "ui", "fails", "rebinds"} -> Nat]
    BY <1>2, SpendType DEF LoseBinding
  <2> QED
    BY <1>2, <2>1 DEF LoseBinding, Rebound, callback, group, client
<1>3. CASE Bind
  BY <1>3 DEF Bind, Rebound, callback, group, client
<1>4. CASE ReadLevel
  <2>1. ep[bound] \in Volumes
    BY <1>4 DEF ReadLevel, Followed, Bindings
  <2>2. pair' \in Volumes
    BY <1>4, <2>1 DEF ReadLevel, Volumes
  <2> QED
    BY <1>4, <2>2 DEF ReadLevel, windows, callback, broker, group, client
<1>5. CASE ReadMute
  <2> DEFINE n == [db |-> pair.db, mute |-> ep[bound].mute, gen |-> gen + 1]
  <2>1. ep[bound] \in Volumes
    BY <1>5 DEF ReadMute, Followed, Bindings
  <2>2. n \in States
    BY <2>1 DEF States, Volumes
  <2>3. vol' \in States /\ last' \in States \cup {NoState} /\ origin' \in {"windows", "ui"}
    BY <1>5, <2>2 DEF ReadMute
  <2> QED
    BY <1>5, <2>3 DEF ReadMute, windows, callback, client
<1>6. CASE FailRead
  <2>1. spent' \in [{"user", "ui", "fails", "rebinds"} -> Nat]
    BY <1>6, SpendType DEF FailRead, MayFail
  <2> QED
    BY <1>6, <2>1 DEF FailRead, windows, callback, broker, group, client
<1> QED
  BY <1>1, <1>2, <1>3, <1>4, <1>5, <1>6 DEF Rebind

LEMMA PollType ==
  ASSUME LinkInv, Poll
  PROVE  LinkTypeOK'
<1> USE DEF LinkInv, LinkTypeOK
<1> DEFINE Read == [first : Nat, mute : BOOLEAN, ctx : {"user", "self"}, tries : 0..Attempts - 1]
<1>0. NoRead \in Read
  BY VolumeLinkAssumption DEF NoRead
<1>t. TryAgain => rd' \in Read /\ hpc' \in {"load", "drain"}
  <2>1. CASE rd.tries + 1 < Attempts
    <3>1. rd.tries \in 0..Attempts - 1 /\ Attempts \in Nat
      BY VolumeLinkAssumption
    <3>2. rd.tries + 1 \in 0..Attempts - 1
      BY <2>1, <3>1
    <3>3. PICK tries \in 0..Attempts - 1 : tries = rd.tries + 1
      BY <3>2
    <3>4. TryAgain => rd' = [rd EXCEPT !.tries = tries] /\ hpc' = "load"
      BY <2>1, <3>3 DEF TryAgain
    <3>5. rd \in Read /\ [rd EXCEPT !.tries = tries] \in Read
      OBVIOUS
    <3> QED
      BY <3>4, <3>5
  <2>2. CASE ~(rd.tries + 1 < Attempts)
    BY <1>0, <2>2 DEF TryAgain, EndPoll
  <2> QED
    BY <2>1, <2>2
<1>1. CASE SkipPoll
  BY <1>1 DEF SkipPoll, windows, callback, broker, group, client
<1>2. CASE LoadSequence
  <2>1. rd' \in Read /\ hpc' \in {"load", "drain", "copyMute"}
    <3>1. rd \in Read /\ seq \in Nat
      OBVIOUS
    <3>2. [rd EXCEPT !.first = seq] \in Read
      BY <3>1
    <3> HIDE DEF Read, LinkInv, LinkTypeOK
    <3>3. TryAgain \/ (rd' = [rd EXCEPT !.first = seq] /\ hpc' = "copyMute")
      BY <1>2 DEF LoadSequence
    <3> QED
      BY <1>t, <3>2, <3>3
  <2> QED
    BY <1>2, <2>1 DEF LoadSequence, windows, callback, broker, group, client
<1>3. CASE CopyMute
  BY <1>3 DEF CopyMute, windows, callback, broker, group, client
<1>4. CASE CopyContext
  BY <1>4 DEF CopyContext, windows, callback, broker, group, client
<1>5. CASE Recheck
  <2>1. rd' \in Read /\ hpc' \in {"load", "drain", "level"}
    BY <1>0, <1>t, <1>5 DEF Recheck, EndPoll
  <2> QED
    BY <1>5, <2>1 DEF Recheck, windows, callback, broker, group, client
<1>6. CASE PollLevel
  <2> DEFINE n == [db |-> ep[bound].db, mute |-> rd.mute, gen |-> gen + 1]
  <2>1. ep[bound] \in Volumes
    BY <1>6 DEF PollLevel, Followed, Bindings
  <2>2. n \in States
    BY <2>1 DEF States, Volumes
  <2>3. vol' \in States /\ last' \in States \cup {NoState} /\ origin' \in {"windows", "ui"}
    BY <1>6, <2>2 DEF PollLevel
  <2>4. rd' \in Read /\ hpc' = "drain" /\ lastSeq' \in Nat /\ gen' \in Nat
    BY <1>0, <1>6 DEF PollLevel, EndPoll
  <2> QED
    BY <1>6, <2>3, <2>4 DEF PollLevel, windows, callback, client
<1>7. CASE FailLevel
  <2>1. spent' \in [{"user", "ui", "fails", "rebinds"} -> Nat]
    BY <1>7, SpendType DEF FailLevel, MayFail
  <2> QED
    BY <1>0, <1>7, <2>1 DEF FailLevel, EndPoll, windows, callback, broker, group, client
<1> QED
  BY <1>1, <1>2, <1>3, <1>4, <1>5, <1>6, <1>7 DEF Poll

LEMMA WriteType ==
  ASSUME LinkInv, Write
  PROVE  LinkTypeOK'
<1> USE DEF LinkInv, LinkTypeOK
<1>0. hpc \in Writing => bound \in Endpoints /\ ep[bound] \in Volumes
  BY DEF Followed, Bindings, Writing
<1>f. MayFail => spent' \in [{"user", "ui", "fails", "rebinds"} -> Nat]
  BY SpendType DEF MayFail
<1>1. CASE SkipWrite
  BY <1>1 DEF SkipWrite, windows, callback, broker, group, client
<1>2. CASE SaveLevel
  <2>1. bound \in Endpoints
    BY <1>2 DEF SaveLevel, WriteDue
  <2>2. pair' \in Volumes
    BY <1>2, <2>1 DEF SaveLevel, Volumes
  <2> QED
    BY <1>2, <2>2 DEF SaveLevel, windows, callback, broker, group, client
<1>3. CASE SaveMute
  <2>1. pair' \in Volumes
    BY <1>0, <1>3 DEF SaveMute, Volumes, Writing
  <2> QED
    BY <1>3, <2>1 DEF SaveMute, windows, callback, broker, group, client
<1>4. CASE SetLevel
  <2>1. [ep[bound] EXCEPT !.db = Effective(vol.db)] \in Volumes
    BY <1>0, <1>4, VolumeLinkAssumption DEF SetLevel, Writing, Volumes, States, Effective
  <2>2. ep' \in [Endpoints -> Volumes] /\ def' \in Endpoints /\ notes' \in Seq(Notes)
    BY <1>0, <1>4, <2>1, SetEndpointType DEF SetLevel, Writing
  <2> QED
    BY <1>4, <2>2 DEF SetLevel, callback, broker, group, client
<1>5. CASE SetMute
  <2>1. [ep[bound] EXCEPT !.mute = vol.mute] \in Volumes
    BY <1>0, <1>5 DEF SetMute, Writing, Volumes, States
  <2>2. ep' \in [Endpoints -> Volumes] /\ def' \in Endpoints /\ notes' \in Seq(Notes)
    BY <1>0, <1>5, <2>1, SetEndpointType DEF SetMute, Writing
  <2> QED
    BY <1>5, <2>2 DEF SetMute, callback, broker, client
<1>6. CASE FailSave
  <2>1. bound' \in Endpoints \cup {NoEndpoint} /\ lastSeq' \in Nat /\ notes' \in Seq(Notes)
    <3>1. Rebound(NoEndpoint) \/ UNCHANGED <<bound, lastSeq, notes>>
      BY <1>6 DEF FailSave
    <3>2. CASE Rebound(NoEndpoint)
      <4>1. bound' = NoEndpoint /\ lastSeq' = 0 /\ notes' = <<>>
        BY <3>2 DEF Rebound
      <4> QED
        BY <4>1
    <3>3. CASE UNCHANGED <<bound, lastSeq, notes>>
      BY <3>3
    <3> QED
      BY <3>1, <3>2, <3>3
  <2>2. waiting' \in BOOLEAN /\ spent' \in [{"user", "ui", "fails", "rebinds"} -> Nat]
    BY <1>f, <1>6 DEF FailSave
  <2>3. hpc' = "rebind" /\ UNCHANGED <<ep, def, seq, cell, cb, claimed, gen, rd, pair, vol,
                                      origin, last, commands, uiGen>>
    BY <1>6 DEF FailSave, callback, client
  <2> QED
    BY <2>1, <2>2, <2>3
<1>7. CASE FailSet
  BY <1>f, <1>7 DEF FailSet, windows, callback, broker, group, client
<1>8. CASE RestoreLevel
  <2>1. [ep[bound] EXCEPT !.db = pair.db] \in Volumes
    BY <1>0, <1>8 DEF RestoreLevel, Writing, Volumes
  <2>2. ep' \in [Endpoints -> Volumes] /\ def' \in Endpoints /\ notes' \in Seq(Notes)
    BY <1>0, <1>8, <2>1, SetEndpointType DEF RestoreLevel, Writing, windows
  <2>3. spent' \in [{"user", "ui", "fails", "rebinds"} -> Nat]
    BY <1>f, <1>8 DEF RestoreLevel
  <2>4. /\ hpc' = "restoreMute"
        /\ UNCHANGED <<seq, cell, cb, claimed, bound, lastSeq, gen, rd, pair, vol, origin,
                       last, waiting, commands, uiGen>>
    BY <1>8 DEF RestoreLevel, callback, broker, group, client
  <2> QED
    BY <2>2, <2>3, <2>4
<1>9. CASE RestoreMute
  <2>1. [ep[bound] EXCEPT !.mute = pair.mute] \in Volumes
    BY <1>0, <1>9 DEF RestoreMute, Writing, Volumes
  <2>2. ep' \in [Endpoints -> Volumes] /\ def' \in Endpoints /\ notes' \in Seq(Notes)
    BY <1>0, <1>9, <2>1, SetEndpointType DEF RestoreMute, Writing, windows
  <2> QED
    BY <1>f, <1>9, <2>2 DEF RestoreMute, callback, broker, client
<1> QED
  BY <1>1, <1>2, <1>3, <1>4, <1>5, <1>6, <1>7, <1>8, <1>9 DEF Write

LEMMA NextType ==
  ASSUME LinkInv, [LinkNext]_linkVars
  PROVE  LinkTypeOK'
<1> USE DEF LinkInv, LinkTypeOK
<1>1. CASE \E v \in Volumes : UserChange(v)
  <2>1. PICK v \in Volumes : UserChange(v)
    BY <1>1
  <2>2. spent' \in [{"user", "ui", "fails", "rebinds"} -> Nat]
    BY <2>1, SpendType DEF UserChange
  <2>3. ep' \in [Endpoints -> Volumes] /\ def' \in Endpoints /\ notes' \in Seq(Notes)
    BY <2>1, SetEndpointType DEF UserChange
  <2> QED
    BY <2>1, <2>2, <2>3 DEF UserChange, callback, broker, group, client
<1>2. CASE \E v \in Volumes : UiCommand(v)
  <2>1. PICK v \in Volumes : UiCommand(v)
    BY <1>2
  <2>2. spent' \in [{"user", "ui", "fails", "rebinds"} -> Nat]
    BY <2>1, SpendType DEF UiCommand
  <2>3. [db |-> v.db, mute |-> v.mute, gen |-> uiGen + 1] \in States
    BY DEF States, Volumes
  <2>4. commands' \in Seq(States) /\ uiGen' \in Nat
    BY <2>1, <2>3 DEF UiCommand
  <2> QED
    BY <2>1, <2>2, <2>4 DEF UiCommand, windows, callback, broker, group
<1>3. CASE \E e \in Endpoints : SwitchDefault(e)
  <2>1. PICK e \in Endpoints : SwitchDefault(e)
    BY <1>3
  <2>2. spent' \in [{"user", "ui", "fails", "rebinds"} -> Nat]
    BY <2>1, SpendType DEF SwitchDefault
  <2> QED
    BY <2>1, <2>2 DEF SwitchDefault, callback, broker, group, client
<1>4. CASE DrainCommand
  <2>1. Head(commands) \in States /\ Tail(commands) \in Seq(States)
    BY <1>4 DEF DrainCommand
  <2>2. vol' \in States /\ origin' \in {"windows", "ui"} /\ commands' \in Seq(States)
    BY <1>4, <2>1 DEF DrainCommand
  <2> QED
    BY <1>4, <2>2 DEF DrainCommand, windows, callback, broker
<1>5. CASE EndDrain
  BY <1>5 DEF EndDrain, windows, callback, broker, group, client
<1>6. CASE RetryDue
  <2>1. waiting' \in BOOLEAN
    BY <1>6 DEF RetryDue
  <2> QED
    BY <1>6, <2>1 DEF RetryDue, windows, callback, broker, client
<1>7. CASE UiRefresh
  BY <1>7 DEF UiRefresh, windows, callback, broker, group, States
<1>8. CASE UNCHANGED linkVars
  BY <1>8 DEF linkVars, windows, callback, broker, group, client
<1> QED
  BY <1>1, <1>2, <1>3, <1>4, <1>5, <1>6, <1>7, <1>8, CallbackType, RebindType, PollType,
     WriteType DEF LinkNext, Host

-----------------------------------------------------------------------------
(* CellLocked *)

\* While the sequence number is even no callback is storing, and the cell holds
\* the note that was claimed last.
LEMMA CellAtRest ==
  ASSUME LinkTypeOK, CellLocked, seq % 2 = 0
  PROVE  /\ \A c \in Callers : ~Storing(c)
         /\ seq = 2 * Len(claimed)
         /\ \A k \in 1..Len(claimed) : seq = 2 * k =>
              cell.mute = claimed[k].mute /\ cell.ctx = claimed[k].ctx
<1>1. Len(claimed) \in Nat /\ seq \in Nat
  BY DEF LinkTypeOK
<1>2. ASSUME NEW c \in Callers, Storing(c) PROVE FALSE
  <2>1. seq = 2 * Len(claimed) - 1
    BY <1>2 DEF CellLocked
  <2> QED
    BY <1>1, <2>1
<1>3. /\ seq = 2 * Len(claimed)
      /\ Len(claimed) > 0 => /\ cell.mute = claimed[Len(claimed)].mute
                             /\ cell.ctx = claimed[Len(claimed)].ctx
  BY <1>2 DEF CellLocked
<1>4. ASSUME NEW k \in 1..Len(claimed), seq = 2 * k
      PROVE  cell.mute = claimed[k].mute /\ cell.ctx = claimed[k].ctx
  <2>1. k = Len(claimed) /\ Len(claimed) > 0
    BY <1>1, <1>3, <1>4
  <2> QED
    BY <1>3, <2>1
<1> QED
  BY <1>2, <1>3, <1>4

LEMMA CallbackCell ==
  ASSUME LinkInv, NEW c \in Callers, OnNotify(c)
  PROVE  CellLocked'
<1> USE DEF LinkInv
<1>0. cb \in [Callers -> [pc : {"idle", "claim", "mute", "context", "release"},
                          seen : Nat, note : Notes \cup {NoEndpoint}]]
      /\ Len(claimed) \in Nat /\ seq \in Nat
  BY DEF LinkTypeOK
<1>1. CASE Deliver(c)
  <2>1. Head(notes) \in Notes
    BY <1>1 DEF Deliver, LinkTypeOK
  <2>2. UNCHANGED <<seq, cell, claimed>>
    BY <1>1 DEF Deliver
  <2>3. \A d \in Callers : cb'[d] = IF d = c THEN [pc |-> "claim", seen |-> seq, note |-> Head(notes)]
                                    ELSE cb[d]
    BY <1>0, <1>1 DEF Deliver
  <2>4. \A d \in Callers : Storing(d)' <=> Storing(d)
    BY <1>1, <2>3 DEF Storing, Deliver
  <2>5. \A d \in Callers : Storing(d) => cb'[d] = cb[d]
    BY <1>1, <2>3 DEF Storing, Deliver
  <2> QED
    BY <2>1, <2>2, <2>3, <2>4, <2>5 DEF CellLocked
<1>2. CASE Claim(c)
  <2>0. seq % 2 = 0 /\ seq' = seq + 1 /\ cell' = cell /\ cb[c].pc = "claim" /\ cb[c].seen = seq
    BY <1>2 DEF Claim
  <2>1. (\A d \in Callers : ~Storing(d)) /\ seq = 2 * Len(claimed)
    BY <2>0, CellAtRest
  <2>2. cb[c].note \in Notes
    BY <2>0 DEF CellLocked
  <2>3. claimed' = Append(claimed, cb[c].note) /\ claimed \in Seq(Notes)
    BY <1>2 DEF Claim, LinkTypeOK
  <2>4. Len(claimed') = Len(claimed) + 1 /\ claimed'[Len(claimed')] = cb[c].note
    BY <2>2, <2>3
  <2>5. cb'[c] = [cb[c] EXCEPT !.pc = "mute"] /\ \A d \in Callers : d # c => cb'[d] = cb[d]
    BY <1>0, <1>2 DEF Claim
  <2>6. cb'[c].pc = "mute" /\ cb'[c].seen = seq /\ cb'[c].note = cb[c].note
    BY <1>0, <2>0, <2>5
  <2>7. \A d \in Callers : Storing(d)' => d = c
    BY <2>1, <2>5 DEF Storing
  <2>8. Storing(c)'
    BY <2>6 DEF Storing
  <2>9. \A d \in Callers : cb'[d].pc # "idle" => cb'[d].note \in Notes
    BY <2>2, <2>5, <2>6 DEF CellLocked
  <2>10. /\ Len(claimed') > 0 /\ seq' = 2 * Len(claimed') - 1 /\ cb'[c].seen = seq' - 1
    BY <1>0, <2>0, <2>1, <2>4, <2>6
  <2> QED
    BY <2>4, <2>6, <2>7, <2>8, <2>9, <2>10 DEF CellLocked
<1>3. CASE DropContended(c)
  <2>2. UNCHANGED <<seq, cell, claimed>>
    BY <1>3 DEF DropContended
  <2>3. \A d \in Callers : cb'[d] = IF d = c THEN NoCall ELSE cb[d]
    BY <1>0, <1>3 DEF DropContended
  <2>4. \A d \in Callers : Storing(d)' <=> Storing(d)
    BY <1>3, <2>3 DEF Storing, DropContended, NoCall
  <2>5. \A d \in Callers : Storing(d) => cb'[d] = cb[d]
    BY <1>3, <2>3 DEF Storing, DropContended
  <2>6. \A d \in Callers : cb'[d].pc # "idle" => cb'[d].note \in Notes
    BY <2>3 DEF CellLocked, NoCall
  <2> QED
    BY <2>2, <2>4, <2>5, <2>6 DEF CellLocked
<1>4. CASE StoreMute(c) \/ StoreContext(c)
  <2>1. UNCHANGED <<seq, claimed>> /\ Storing(c)
    BY <1>4 DEF StoreMute, StoreContext, Storing
  <2>2. cb'[c].note = cb[c].note /\ cb'[c].seen = cb[c].seen
        /\ \A d \in Callers : d # c => cb'[d] = cb[d]
    BY <1>0, <1>4 DEF StoreMute, StoreContext
  <2>3. cell \in [mute : BOOLEAN, ctx : {"user", "self"}]
    BY DEF LinkTypeOK
  <2>4. \/ cb[c].pc = "mute" /\ cb'[c].pc = "context" /\ cell'.mute = cb[c].note.mute
        \/ cb[c].pc = "context" /\ cb'[c].pc = "release"
           /\ cell'.mute = cell.mute /\ cell'.ctx = cb[c].note.ctx
    BY <1>0, <1>4, <2>3 DEF StoreMute, StoreContext
  <2>5. \A d \in Callers : Storing(d)' <=> Storing(d)
    BY <2>1, <2>2, <2>4 DEF Storing
  <2>6. \A d \in Callers : Storing(d) => d = c
    BY <2>1 DEF CellLocked
  <2>7. \A d \in Callers : cb'[d].pc # "idle" => cb'[d].note \in Notes
    BY <2>1, <2>2 DEF CellLocked, Storing
  <2>8. /\ Len(claimed) > 0 /\ seq = 2 * Len(claimed) - 1 /\ cb[c].seen = seq - 1
        /\ cb[c].note = claimed[Len(claimed)]
        /\ cb[c].pc = "context" => cell.mute = cb[c].note.mute
    BY <2>1 DEF CellLocked
  <2> QED
    BY <2>1, <2>2, <2>4, <2>5, <2>6, <2>7, <2>8 DEF CellLocked
<1>5. CASE ReleaseCell(c)
  <2>1. Storing(c) /\ cb[c].pc = "release" /\ UNCHANGED <<cell, claimed>> /\ seq' = cb[c].seen + 2
    BY <1>5 DEF ReleaseCell, Storing
  <2>2. \A d \in Callers : cb'[d] = IF d = c THEN NoCall ELSE cb[d]
    BY <1>0, <1>5 DEF ReleaseCell
  <2>3. \A d \in Callers : ~Storing(d)'
    BY <2>1, <2>2 DEF CellLocked, Storing, NoCall
  <2>4. /\ seq = 2 * Len(claimed) - 1 /\ cb[c].seen = seq - 1
        /\ cell.mute = claimed[Len(claimed)].mute /\ cell.ctx = claimed[Len(claimed)].ctx
    BY <2>1 DEF CellLocked
  <2>5. seq' = 2 * Len(claimed)
    BY <1>0, <2>1, <2>4
  <2>6. \A d \in Callers : cb'[d].pc # "idle" => cb'[d].note \in Notes
    BY <2>2 DEF CellLocked, NoCall
  <2> QED
    BY <2>1, <2>3, <2>4, <2>5, <2>6 DEF CellLocked
<1> QED
  BY <1>1, <1>2, <1>3, <1>4, <1>5 DEF OnNotify

\* Nothing but a callback touches the cell.
LEMMA CellKept ==
  ASSUME LinkInv, UNCHANGED callback
  PROVE  CellLocked'
BY DEF LinkInv, CellLocked, Storing, callback

-----------------------------------------------------------------------------
(* CopySound *)

Copying == {"copyMute", "copyContext", "recheck", "level"}

LEMMA CallbackCopy ==
  ASSUME LinkInv, NEW c \in Callers, OnNotify(c)
  PROVE  CopySound'
<1> USE DEF LinkInv
<1>0. UNCHANGED <<lastSeq, hpc, rd>> /\ Len(claimed) \in Nat /\ seq \in Nat
      /\ lastSeq \in Nat /\ rd.first \in Nat
  BY DEF LinkTypeOK, OnNotify, Deliver, Claim, DropContended, StoreMute, StoreContext,
         ReleaseCell, broker
<1>1. CASE UNCHANGED <<seq, claimed>>
  BY <1>0, <1>1 DEF CopySound
<1>2. CASE Claim(c)
  <2>1. seq % 2 = 0 /\ seq' = seq + 1 /\ cb[c].note \in Notes
        /\ claimed' = Append(claimed, cb[c].note) /\ claimed \in Seq(Notes)
    BY <1>2 DEF Claim, CellLocked, LinkTypeOK
  <2>2. seq = 2 * Len(claimed)
    BY <2>1, CellAtRest
  <2>3. Len(claimed') = Len(claimed) + 1 /\ \A k \in 1..Len(claimed) : claimed'[k] = claimed[k]
    BY <2>1
  <2>4. lastSeq <= seq' /\ seq' <= 2 * Len(claimed')
    BY <1>0, <2>1, <2>2, <2>3 DEF CopySound
  <2>5. hpc \in Copying => lastSeq <= rd.first /\ rd.first <= seq' /\ seq' # rd.first
                           /\ rd.first # 2 * Len(claimed')
    BY <1>0, <2>1, <2>2, <2>3 DEF CopySound, Copying
  <2>6. \A k \in 1..Len(claimed') : rd.first = 2 * k /\ hpc = "level" =>
          rd.mute = claimed'[k].mute /\ rd.ctx = claimed'[k].ctx
    BY <1>0, <2>3, <2>5 DEF CopySound, Copying
  <2>7. hpc = "level" => rd.first > lastSeq
    BY DEF CopySound
  <2> QED
    BY <1>0, <2>4, <2>5, <2>6, <2>7 DEF CopySound, Copying
<1>3. CASE ReleaseCell(c)
  <2>1. seq' = seq + 1 /\ seq = 2 * Len(claimed) - 1 /\ claimed' = claimed
    BY <1>0, <1>3 DEF ReleaseCell, CellLocked, Storing
  <2> QED
    BY <1>0, <2>1 DEF CopySound
<1> QED
  BY <1>1, <1>2, <1>3 DEF OnNotify, Deliver, DropContended, StoreMute, StoreContext

\* Outside a poll only the binding matters.
LEMMA CopyOutside ==
  ASSUME LinkInv, UNCHANGED <<seq, claimed>>, lastSeq' \in {lastSeq, 0}, hpc' \notin Copying
  PROVE  CopySound'
BY DEF LinkInv, LinkTypeOK, CopySound, Copying

LEMMA PollCopy ==
  ASSUME LinkInv, Poll
  PROVE  CopySound'
<1> USE DEF LinkInv
<1>0. UNCHANGED <<seq, cell, claimed>> /\ Len(claimed) \in Nat /\ seq \in Nat
      /\ lastSeq \in Nat
      /\ rd \in [first : Nat, mute : BOOLEAN, ctx : {"user", "self"}, tries : 0..Attempts - 1]
  BY DEF LinkTypeOK, Poll, SkipPoll, LoadSequence, CopyMute, CopyContext, Recheck, PollLevel,
         FailLevel, callback
<1>1. CASE hpc' \notin Copying /\ lastSeq' = lastSeq
  BY <1>0, <1>1, CopyOutside
<1>2. CASE LoadSequence /\ hpc' \in Copying
  <2>1. rd'.first = seq /\ hpc' = "copyMute" /\ lastSeq' = lastSeq
    BY <1>0, <1>2 DEF LoadSequence, TryAgain, EndPoll, Copying, broker
  <2> QED
    BY <1>0, <2>1 DEF CopySound
<1>3. CASE CopyMute
  <2>1. rd'.first = rd.first /\ rd'.mute = cell.mute /\ hpc = "copyMute" /\ hpc' = "copyContext"
        /\ lastSeq' = lastSeq
    BY <1>0, <1>3 DEF CopyMute, broker
  <2>2. \A k \in 1..Len(claimed) : rd.first = 2 * k /\ seq = rd.first =>
          cell.mute = claimed[k].mute
    BY <1>0, CellAtRest
  <2> QED
    BY <1>0, <2>1, <2>2 DEF CopySound
<1>4. CASE CopyContext
  <2>1. rd'.first = rd.first /\ rd'.mute = rd.mute /\ rd'.ctx = cell.ctx
        /\ hpc = "copyContext" /\ hpc' = "recheck" /\ lastSeq' = lastSeq
    BY <1>0, <1>4 DEF CopyContext, broker
  <2>2. \A k \in 1..Len(claimed) : rd.first = 2 * k /\ seq = rd.first =>
          cell.ctx = claimed[k].ctx
    BY <1>0, CellAtRest
  <2> QED
    BY <1>0, <2>1, <2>2 DEF CopySound
<1>5. CASE Recheck /\ hpc' \in Copying
  <2>1. hpc = "recheck" /\ hpc' = "level" /\ rd' = rd /\ lastSeq' = lastSeq
        /\ seq = rd.first /\ rd.first # lastSeq
    BY <1>5 DEF Recheck, TryAgain, EndPoll, Copying, broker
  <2>2. rd.first > lastSeq
    BY <1>0, <2>1 DEF CopySound
  <2> QED
    BY <1>0, <2>1, <2>2 DEF CopySound
<1>6. CASE PollLevel
  <2>1. hpc = "level" /\ lastSeq' = rd.first /\ hpc' = "drain"
    BY <1>6 DEF PollLevel, EndPoll
  <2> QED
    BY <1>0, <2>1 DEF CopySound
<1> QED
  BY <1>1, <1>2, <1>3, <1>4, <1>5, <1>6
     DEF Poll, SkipPoll, LoadSequence, Recheck, FailLevel, EndPoll, Copying, broker

LEMMA NextCopy ==
  ASSUME LinkInv, [LinkNext]_linkVars
  PROVE  CopySound'
<1>1. CASE UNCHANGED <<seq, claimed, lastSeq, hpc, rd>>
  BY <1>1 DEF LinkInv, CopySound
<1>2. CASE Rebind
  <2>1. UNCHANGED <<seq, claimed>> /\ lastSeq' \in {lastSeq, 0} /\ hpc' \notin Copying
    BY <1>2 DEF Rebind, KeepBinding, LoseBinding, Bind, ReadLevel, ReadMute, FailRead,
                Rebound, callback, broker, Copying
  <2> QED
    BY <2>1, CopyOutside
<1>3. CASE Write
  <2>1. UNCHANGED <<seq, claimed>> /\ lastSeq' \in {lastSeq, 0} /\ hpc' \notin Copying
    BY <1>3 DEF Write, SkipWrite, SaveLevel, SaveMute, SetLevel, SetMute, FailSave, FailSet,
                RestoreLevel, RestoreMute, Rebound, callback, broker, Copying
  <2> QED
    BY <2>1, CopyOutside
<1>4. CASE EndDrain
  BY <1>4, CopyOutside DEF EndDrain, callback, broker, Copying
<1>5. CASE UNCHANGED linkVars
  BY <1>1, <1>5 DEF linkVars, callback, broker
<1>6. CASE \/ \E v \in Volumes : UserChange(v) \/ UiCommand(v)
           \/ \E e \in Endpoints : SwitchDefault(e)
           \/ DrainCommand \/ RetryDue \/ UiRefresh
  BY <1>1, <1>6 DEF UserChange, UiCommand, SwitchDefault, DrainCommand, RetryDue, UiRefresh,
                    callback, broker
<1> QED
  BY <1>2, <1>3, <1>4, <1>5, <1>6, CallbackCopy, PollCopy DEF LinkNext, Host

-----------------------------------------------------------------------------
(* Followed *)

LEMMA RebindFollowed ==
  ASSUME LinkInv, Rebind
  PROVE  Followed'
<1> USE DEF LinkInv, Followed, Bindings, Writing
<1>1. CASE KeepBinding \/ LoseBinding \/ FailRead
  BY <1>1 DEF KeepBinding, LoseBinding, FailRead, broker, group
<1>2. CASE Bind
  BY <1>2 DEF Bind, Rebound, LinkTypeOK, group
<1>3. CASE ReadLevel
  BY <1>3 DEF ReadLevel, broker, group
<1>4. CASE ReadMute
  BY <1>4 DEF ReadMute
<1> QED
  BY <1>1, <1>2, <1>3, <1>4 DEF Rebind

LEMMA PollFollowed ==
  ASSUME LinkInv, Poll
  PROVE  Followed'
<1> USE DEF LinkInv, Followed, Bindings, Writing
<1>1. CASE SkipPoll \/ CopyMute \/ CopyContext \/ FailLevel
  BY <1>1 DEF SkipPoll, CopyMute, CopyContext, FailLevel, EndPoll, broker, group
<1>2. CASE LoadSequence
  BY <1>2 DEF LoadSequence, TryAgain, EndPoll, LinkTypeOK, broker, group
<1>3. CASE Recheck
  BY <1>3 DEF Recheck, TryAgain, EndPoll, broker, group
<1>4. CASE PollLevel
  BY <1>4 DEF PollLevel, EndPoll
<1> QED
  BY <1>1, <1>2, <1>3, <1>4 DEF Poll

LEMMA WriteFollowed ==
  ASSUME LinkInv, Write
  PROVE  Followed'
<1> USE DEF LinkInv, Followed, Bindings, Writing
<1>1. CASE SkipWrite
  BY <1>1 DEF SkipWrite, broker, group
<1>2. CASE SaveLevel
  \* The volume and last_engine_state differ, so Windows did not set it.
  BY <1>2 DEF SaveLevel, WriteDue, LinkTypeOK, broker, group
<1>3. CASE SaveMute \/ SetLevel \/ FailSet \/ RestoreLevel
  BY <1>3 DEF SaveMute, SetLevel, FailSet, RestoreLevel, broker, group
<1>4. CASE SetMute
  BY <1>4 DEF SetMute
<1>5. CASE FailSave \/ RestoreMute
  BY <1>5 DEF FailSave, RestoreMute, broker
<1> QED
  BY <1>1, <1>2, <1>3, <1>4, <1>5 DEF Write

LEMMA NextFollowed ==
  ASSUME LinkInv, [LinkNext]_linkVars
  PROVE  Followed'
<1>1. CASE UNCHANGED <<hpc, bound, origin, last, vol>>
  BY <1>1 DEF LinkInv, Followed
<1>2. CASE DrainCommand
  BY <1>2 DEF DrainCommand, LinkInv, Followed, Bindings, Writing, broker
<1>3. CASE EndDrain
  BY <1>3 DEF EndDrain, LinkInv, Followed, Bindings, Writing, broker, group
<1>4. CASE \/ \E v \in Volumes : UserChange(v) \/ UiCommand(v)
           \/ \E e \in Endpoints : SwitchDefault(e)
           \/ \E c \in Callers : OnNotify(c)
           \/ RetryDue \/ UiRefresh \/ UNCHANGED linkVars
  BY <1>1, <1>4 DEF UserChange, UiCommand, SwitchDefault, RetryDue, UiRefresh, linkVars, OnNotify,
       Deliver, Claim, DropContended, StoreMute, StoreContext, ReleaseCell, broker, group
<1> QED
  BY <1>2, <1>3, <1>4, RebindFollowed, PollFollowed, WriteFollowed DEF LinkNext, Host

-----------------------------------------------------------------------------
(* The volume link: the theorems *)

LEMMA LinkInvKept == LinkInv /\ [LinkNext]_linkVars => LinkInv'
<1> SUFFICES ASSUME LinkInv, [LinkNext]_linkVars PROVE LinkInv'
  OBVIOUS
<1>1. (\E c \in Callers : OnNotify(c)) \/ UNCHANGED callback
  BY DEF LinkNext, Host, Rebind, Poll, Write, UserChange, UiCommand, SwitchDefault,
       KeepBinding, LoseBinding, Bind, ReadLevel, ReadMute, FailRead, SkipPoll, LoadSequence,
       CopyMute, CopyContext, Recheck, PollLevel, FailLevel, DrainCommand, EndDrain,
       SkipWrite, SaveLevel, SaveMute, SetLevel, SetMute, FailSave, FailSet, RestoreLevel,
       RestoreMute, RetryDue, UiRefresh, linkVars
<1>2. CellLocked'
  BY <1>1, CallbackCell, CellKept
<1> QED
  BY <1>2, NextType, NextCopy, NextFollowed DEF LinkInv

LEMMA LinkInvariant == LinkSpec => []LinkInv
<1>1. LinkInit => LinkInv
  BY InitLinkInv
<1>2. LinkInv /\ [LinkNext]_linkVars => LinkInv'
  BY LinkInvKept
<1> QED
  BY <1>1, <1>2, PTL DEF LinkSpec

\* Every variable of the link keeps its type, whatever Windows, the callbacks and
\* the client do.
THEOREM LinkTypeCorrect == LinkSpec => []LinkTypeOK
<1>1. LinkInv => LinkTypeOK
  BY DEF LinkInv
<1> QED
  BY <1>1, LinkInvariant, PTL

\* WindowsVolumeCallback::read returns whole notifications, with any number of
\* threads in OnNotify and any number of attempts.
THEOREM SnapshotIsWhole == LinkSpec => []SnapshotWhole
<1>1. LinkInv => SnapshotWhole
  BY DEF LinkInv, CopySound, SnapshotWhole
<1> QED
  BY <1>1, LinkInvariant, PTL

\* WindowsVolumeBroker::poll takes each stored notification at most once and in
\* the order they were stored.
THEOREM PollInOrder == LinkSpec => []PolledInOrder
<1>1. LinkInv => PolledInOrder
  BY DEF LinkInv, LinkTypeOK, CopySound, PolledInOrder
<1> QED
  BY <1>1, LinkInvariant, PTL

\* The host loop writes a volume to Windows only if the client set it.
THEOREM NoFeedback == LinkSpec => []OnlyUiIsWritten
<1>1. LinkInv => OnlyUiIsWritten
  BY DEF LinkInv, Followed, Writing, OnlyUiIsWritten
<1> QED
  BY <1>1, LinkInvariant, PTL

\* The generation of the group's volume never goes back.
THEOREM GenerationGrows == LinkSpec => GenerationNeverBack
<1>1. LinkInv /\ [LinkNext]_linkVars => [vol'.gen >= vol.gen]_linkVars
  <2> SUFFICES ASSUME LinkInv, [LinkNext]_linkVars PROVE vol'.gen >= vol.gen
    OBVIOUS
  <2>0. vol.gen \in Nat
    BY DEF LinkInv, LinkTypeOK, States
  <2>1. CASE vol' = vol
    BY <2>0, <2>1
  <2>2. CASE ReadMute
    BY <2>0, <2>2 DEF ReadMute, Accepts
  <2>3. CASE PollLevel
    BY <2>0, <2>3 DEF PollLevel, Accepts
  <2>4. CASE DrainCommand
    BY <2>0, <2>4 DEF DrainCommand, Accepts
  <2> QED
    BY <2>1, <2>2, <2>3, <2>4 DEF LinkNext, Host, OnNotify, Rebind, Poll, Write, UserChange,
       UiCommand, SwitchDefault, Deliver, Claim, DropContended, StoreMute, StoreContext,
       ReleaseCell, KeepBinding, LoseBinding, Bind, ReadLevel, FailRead, SkipPoll,
       LoadSequence, CopyMute, CopyContext, Recheck, FailLevel, EndDrain, SkipWrite,
       SaveLevel, SaveMute, SetLevel, SetMute, FailSave, FailSet, RestoreLevel, RestoreMute,
       RetryDue, UiRefresh, group, linkVars
<1> QED
  BY <1>1, LinkInvariant, PTL DEF LinkSpec, GenerationNeverBack

-----------------------------------------------------------------------------
(* The handoff: the inductive invariant *)

\* The calls that stop the candidate of a handoff.
Dropping == {"drop", "fall", "fail", "rollback"}

\* What a call has in front of it when it begins, and behind it when it ends.
InCall ==
  /\ call.op = "idle" <=> call = Idle
  /\ call.op \in {"begin", "start"} => call.layout \in Layouts
  /\ call.op \in {"start", "stop"} =>
       /\ call.joins \in {<<0, 1>>, <<1>>, <<>>}
       /\ call.joins # <<0, 1>> => thread[0] = "none"
       /\ call.joins = <<>> => thread[1] = "none"
  /\ call.op = "begin" =>
       /\ call.joins \in {<<Candidate>>, <<>>} /\ call.total > 0
       /\ handoffState \in {"Synced", "RolledBack"}
       /\ thread[active] # "none" /\ thread[Candidate] = "none"
  /\ call.op \in Dropping =>
       /\ call.joins \in {<<Candidate>>, <<>>}
       /\ Handing /\ thread[active] # "none"
       /\ call.joins = <<>> => thread[Candidate] = "none"
  /\ call.op = "commit" =>
       /\ call.joins \in {<<active>>, <<>>}
       /\ handoffState = "ReadyToCommit" /\ total > 0 /\ fadeStep >= total
       /\ thread[Candidate] # "none"
       /\ call.joins = <<>> => thread[active] = "none"

\* The fade starts from an empty candidate and has a length.
FadePrepared ==
  Owner =>
    /\ handoffState = "Preparing" => fadeStep = 0 /\ queue[Candidate] = <<>>
    /\ Handing => total > 0

HandoffInv ==
  /\ HandoffTypeOK /\ FlagsFollowThread /\ InCall
  /\ SpareParked /\ FadePrepared /\ FadeInStep

-----------------------------------------------------------------------------
(* The handoff: the start *)

LEMMA InitHandoffInv == HandoffInit => HandoffInv
<1> SUFFICES ASSUME HandoffInit PROVE HandoffInv
  OBVIOUS
<1> USE WasapiHandoffAssumption
<1>1. call = Idle /\ Idle \in Calls
  BY DEF HandoffInit, Idle, Calls
<1>2. HandoffTypeOK
  BY SMTT(30), <1>1 DEF HandoffInit, HandoffTypeOK, Slot, HandoffStates
<1>3. FlagsFollowThread
  BY DEF HandoffInit, FlagsFollowThread, Alive, Slot
<1>4. InCall /\ SpareParked
  BY <1>1 DEF HandoffInit, InCall, SpareParked, Idle, Handing, Candidate, Other, Slot,
              Dropping, Owner
<1>5. FadePrepared /\ FadeInStep
  BY DEF HandoffInit, FadePrepared, FadeInStep, Handing
<1> QED
  BY <1>2, <1>3, <1>4, <1>5 DEF HandoffInv

-----------------------------------------------------------------------------
(* The threads *)

\* A step of a thread leaves the owner's side alone, moves the thread between
\* places other than "none", and takes at most the oldest block of its queue.
LEMMA ThreadStep ==
  ASSUME HandoffInv, NEW s \in Slot, Thread(s)
  PROVE  /\ HandoffTypeOK' /\ FlagsFollowThread'
         /\ UNCHANGED <<handoff, call, result, layout, stopping>>
         /\ \A r \in Slot : thread'[r] = "none" <=> thread[r] = "none"
         /\ \A r \in Slot : \/ queue'[r] = queue[r]
                            \/ queue[r] # <<>> /\ queue'[r] = Tail(queue[r])
<1> USE WasapiHandoffAssumption
<1> DEFINE Same == UNCHANGED <<handoff, call, result, layout, stopping>>
           Threads == \A r \in Slot : thread'[r] = "none" <=> thread[r] = "none"
           Queues == \A r \in Slot :
                       \/ queue'[r] = queue[r]
                       \/ queue[r] # <<>> /\ queue'[r] = Tail(queue[r])
<1>q. queue \in [Slot -> Seq(Marks)]
  BY DEF HandoffInv, HandoffTypeOK
<1>t. \A q \in Seq(Marks) : q # <<>> => Tail(q) \in Seq(Marks)
  OBVIOUS
<1> USE DEF HandoffInv, HandoffTypeOK, FlagsFollowThread, Alive, handoff
<1>1. CASE BindOk(s)
  BY <1>1 DEF BindOk
<1>2. CASE BindFails(s)
  BY <1>2 DEF BindFails
<1>3. ASSUME NEW fine \in BOOLEAN, Play(s, fine)
      PROVE  HandoffTypeOK' /\ FlagsFollowThread' /\ Same /\ Threads /\ Queues
  <2>1. queue' \in [Slot -> Seq(Marks)] /\ Queues
    BY <1>3, <1>q, <1>t DEF Play
  <2>2. degraded' \in [Slot -> BOOLEAN]
    BY <1>3 DEF Play
  <2> QED
    BY <1>3, <2>1, <2>2 DEF Play
<1>4. CASE LoseDevice(s)
  <2>1. queue' \in [Slot -> Seq(Marks)] /\ Queues
    <3>1. CASE UNCHANGED queue
      BY <1>q, <3>1
    <3>2. CASE queue[s] # <<>> /\ queue' = [queue EXCEPT ![s] = Tail(@)]
      BY <1>q, <1>t, <3>2
    <3> QED
      BY <1>4, <3>1, <3>2 DEF LoseDevice
  <2> QED
    BY <1>4, <2>1 DEF LoseDevice
<1>5. CASE RebindDevice(s)
  <2>1. attempt' \in [Slot -> 0..Recoveries]
    <3>1. attempt \in [Slot -> 0..Recoveries] /\ attempt[s] < Recoveries
      BY <1>5 DEF RebindDevice
    <3>2. \/ attempt' = [attempt EXCEPT ![s] = 0]
          \/ attempt' = [attempt EXCEPT ![s] = @ + 1]
      BY <1>5 DEF RebindDevice
    <3>3. 0 \in 0..Recoveries /\ attempt[s] + 1 \in 0..Recoveries
      BY <3>1
    <3> HIDE DEF HandoffInv, HandoffTypeOK
    <3> QED
      BY <3>1, <3>2, <3>3
  <2>2. CASE /\ thread' = [thread EXCEPT ![s] = "up"]
             /\ ready' = [ready EXCEPT ![s] = TRUE]
    BY <1>5, <2>1, <2>2 DEF RebindDevice
  <2>3. CASE UNCHANGED <<thread, ready>>
    BY <1>5, <2>1, <2>3 DEF RebindDevice
  <2> QED
    BY <1>5, <2>2, <2>3 DEF RebindDevice
<1>6. CASE GiveUpDevice(s)
  BY <1>6 DEF GiveUpDevice
<1>7. CASE LeaveLoop(s)
  BY <1>7 DEF LeaveLoop
<1>8. CASE Return(s)
  BY <1>8 DEF Return
<1> HIDE DEF HandoffInv, HandoffTypeOK, FlagsFollowThread, Alive, handoff
<1>9. CASE \E fine \in BOOLEAN : Play(s, fine)
  BY <1>3, <1>9
<1> QED
  BY <1>1, <1>2, <1>4, <1>5, <1>6, <1>7, <1>8, <1>9 DEF Thread

LEMMA ThreadKeeps ==
  ASSUME HandoffInv, NEW s \in Slot, Thread(s)
  PROVE  HandoffInv'
<1>1. /\ HandoffTypeOK' /\ FlagsFollowThread'
      /\ UNCHANGED <<handoff, call>>
      /\ \A r \in Slot : thread'[r] = "none" <=> thread[r] = "none"
  BY ThreadStep
<1>2. active \in Slot /\ Candidate \in Slot
  BY DEF HandoffInv, HandoffTypeOK, Slot, Candidate, Other
<1>3. InCall'
  <2>1. InCall /\ 0 \in Slot /\ 1 \in Slot
    BY DEF HandoffInv, Slot
  <2> QED
    BY <1>1, <1>2, <2>1 DEF InCall, handoff, Handing, Candidate, Other, Idle
<1>4. SpareParked'
  BY <1>1, <1>2 DEF HandoffInv, SpareParked, handoff, Handing, Candidate, Other, Owner
<1>q. \A r \in Slot : \/ queue'[r] = queue[r]
                      \/ queue[r] # <<>> /\ queue'[r] = Tail(queue[r])
  BY ThreadStep
<1>5. FadePrepared'
  BY <1>1, <1>2, <1>q DEF HandoffInv, FadePrepared, handoff, Handing, Candidate,
                          Other, Owner
<1>6. FadeInStep'
  <2> SUFFICES ASSUME Owner, handoffState \in {"Fading", "ReadyToCommit"}
               PROVE  FadeInStep'
    BY <1>1 DEF FadeInStep, Owner, handoff
  <2>1. fadeStep \in Nat /\ queue \in [Slot -> Seq(Marks)]
    BY WasapiHandoffAssumption DEF HandoffInv, HandoffTypeOK
  <2>2. ASSUME NEW r \in Slot, NEW i \in 1..Len(queue'[r]),
               i + fadeStep > Len(queue'[r])
        PROVE  queue'[r][i] = i + fadeStep - 1 - Len(queue'[r])
    <3>1. \A j \in 1..Len(queue[r]) :
            j + fadeStep > Len(queue[r]) => queue[r][j] = j + fadeStep - 1 - Len(queue[r])
      BY DEF HandoffInv, FadeInStep
    <3>2. CASE queue'[r] = queue[r]
      BY <2>2, <3>1, <3>2
    <3>3. CASE queue[r] # <<>> /\ queue'[r] = Tail(queue[r])
      <4>1. /\ Len(queue'[r]) = Len(queue[r]) - 1
            /\ queue'[r][i] = queue[r][i + 1] /\ i + 1 \in 1..Len(queue[r])
        BY <2>1, <2>2, <3>3
      <4>2. Len(queue[r]) \in Nat
        BY <2>1
      <4>3. queue[r][i + 1] = i + 1 + fadeStep - 1 - Len(queue[r])
        BY SMTT(30), <2>1, <2>2, <3>1, <4>1, <4>2
      <4> QED
        BY <2>1, <4>1, <4>2, <4>3
    <3> QED
      BY <1>q, <3>2, <3>3
  <2>3. Len(queue'[Candidate]) <= fadeStep
    <3>1. Len(queue[Candidate]) <= fadeStep
      BY DEF HandoffInv, FadeInStep
    <3>2. queue[Candidate] \in Seq(Marks)
      BY <1>2, <2>1
    <3>3. CASE queue'[Candidate] = queue[Candidate]
      BY <3>1, <3>3
    <3>4. CASE queue[Candidate] # <<>> /\ queue'[Candidate] = Tail(queue[Candidate])
      BY <2>1, <3>1, <3>2, <3>4
    <3> QED
      BY <1>2, <1>q, <3>3, <3>4
  <2>4. handoffState = "ReadyToCommit" <=> fadeStep >= total
    BY DEF HandoffInv, FadeInStep
  <2> QED
    BY <1>1, <2>2, <2>3, <2>4 DEF FadeInStep, handoff, Candidate, Other
<1> QED
  BY <1>1, <1>3, <1>4, <1>5, <1>6 DEF HandoffInv

-----------------------------------------------------------------------------
(* The calls of the owner *)

\* The sequences of workers a call joins, and the slots they are.
LEMMA Joins ==
  /\ Head(<<0>>) = 0 /\ Tail(<<0>>) = <<>> /\ Head(<<1>>) = 1 /\ Tail(<<1>>) = <<>>
  /\ Head(<<0, 1>>) = 0 /\ Tail(<<0, 1>>) = <<1>>
  /\ <<0>> # <<>> /\ <<1>> # <<>> /\ <<0, 1>> # <<>>
  /\ <<0>> # <<0, 1>> /\ <<1>> # <<0, 1>> /\ <<0>> # <<1>>
OBVIOUS

LEMMA JoinKeeps ==
  ASSUME HandoffInv, Join
  PROVE  HandoffInv'
<1> DEFINE s == Head(call.joins)
           rest == Tail(call.joins)
<1>1. /\ call \in Calls /\ call.joins # <<>> /\ active \in Slot
      /\ ~Alive(s)
      /\ thread' = [thread EXCEPT ![s] = "none"]
      /\ running' = [running EXCEPT ![s] = FALSE]
      /\ ready' = [ready EXCEPT ![s] = FALSE]
      /\ call' = [call EXCEPT !.joins = rest]
      /\ stopping' = IF rest = <<>> THEN stopping
                     ELSE [stopping EXCEPT ![Head(rest)] = TRUE]
      /\ UNCHANGED <<handoff, result, degraded, layout, queue, attempt>>
  BY DEF HandoffInv, HandoffTypeOK, Join
<1>2. /\ call.op # "idle" /\ call.joins \in {<<0>>, <<1>>, <<0, 1>>}
      /\ s \in Slot
  BY <1>1, Joins DEF HandoffInv, InCall, Idle, Calls, Slot
<1>3. /\ rest \in {<<>>, <<1>>} /\ (rest # <<>> => Head(rest) \in Slot)
      /\ (s = 0 /\ call.joins = <<0, 1>>) \/ rest = <<>>
  BY <1>2, Joins DEF Slot
<1>4. call' \in Calls /\ call'.op = call.op /\ call'.joins = rest
      /\ call'.layout = call.layout /\ call'.total = call.total
  BY <1>1, <1>3 DEF Calls
<1> HIDE DEF s, rest
<1>5. HandoffTypeOK'
  BY <1>1, <1>2, <1>3, <1>4 DEF HandoffInv, HandoffTypeOK, handoff
<1>6. FlagsFollowThread'
  BY <1>1, <1>2 DEF HandoffInv, HandoffTypeOK, FlagsFollowThread, Alive
<1>7. InCall'
  <2>1. /\ (call'.op = "idle" <=> call' = Idle')
        /\ call'.op \in {"begin", "start"} => call'.layout \in Layouts
    BY <1>2, <1>4 DEF HandoffInv, InCall, Idle
  <2>2. ASSUME call.op \in {"start", "stop"}
        PROVE  /\ rest \in {<<0, 1>>, <<1>>, <<>>}
               /\ rest # <<0, 1>> => thread'[0] = "none"
               /\ rest = <<>> => thread'[1] = "none"
    BY <1>1, <1>3, <2>2, Joins DEF HandoffInv, HandoffTypeOK, InCall, s, rest, Slot
  <2>3. ASSUME call.op \in {"begin", "commit"} \cup Dropping
        PROVE  rest = <<>> /\ s = (IF call.op = "commit" THEN active ELSE Candidate)
    BY <1>1, <2>3, Joins DEF HandoffInv, InCall, s, rest, Slot, Candidate, Other, Dropping
  <2>4. Candidate \in Slot /\ Candidate # active /\ Candidate' = Candidate
    BY <1>1 DEF Candidate, Other, Slot, handoff
  <2> QED
    BY <1>1, <1>4, <2>1, <2>2, <2>3, <2>4
    DEF HandoffInv, HandoffTypeOK, InCall, Dropping, handoff, Handing
<1>8. SpareParked' /\ FadePrepared' /\ FadeInStep'
  BY <1>2, <1>4 DEF SpareParked, FadePrepared, FadeInStep, Owner
<1> QED
  BY <1>5, <1>6, <1>7, <1>8 DEF HandoffInv

\* A call that has joined what it had to, and leaves the workers as they are.
LEMMA EndKeeps ==
  ASSUME HandoffInv, UNCHANGED worker, call' = Idle,
         handoffState' \in HandoffStates, active' \in Slot, fadeStep' \in 0..MaxFade,
         total' \in 0..MaxFade, result' \in BOOLEAN,
         SpareParked', ~Handing'
  PROVE  HandoffInv'
<1>0. Idle \in Calls
  BY WasapiHandoffAssumption DEF Idle, Calls
<1>1. HandoffTypeOK'
  BY <1>0 DEF HandoffInv, HandoffTypeOK, worker
<1>2. FlagsFollowThread'
  BY DEF HandoffInv, FlagsFollowThread, Alive, worker
<1>3. InCall'
  BY DEF InCall, Idle, Dropping
<1>4. FadePrepared' /\ FadeInStep'
  BY DEF FadePrepared, FadeInStep, Handing
<1> QED
  BY <1>1, <1>2, <1>3, <1>4 DEF HandoffInv

\* The first step of a call that only tells a worker to stop.
LEMMA EnterKeeps ==
  ASSUME HandoffInv, Owner, Entered, UNCHANGED result,
         NEW op \in {"start", "begin", "drop", "fall", "commit", "rollback", "stop"},
         NEW joins \in {<< 0 >>, << 1 >>, <<0, 1>>},
         NEW l \in Layouts \cup {NoLayout}, NEW n \in 0..MaxFade,
         Enter(op, joins, l, n),
         op \in {"start", "stop"} => joins = <<0, 1>>,
         op \in {"start", "begin"} => l \in Layouts,
         op = "begin" => n > 0 /\ handoffState \in {"Synced", "RolledBack"},
         op \in {"begin", "drop", "fall", "rollback"} => joins = <<Candidate>>,
         op \in {"drop", "fall", "rollback"} => Handing,
         op = "commit" => joins = <<active>> /\ handoffState = "ReadyToCommit"
  PROVE  HandoffInv'
<1>1. /\ call' = [op |-> op, joins |-> joins, layout |-> l, total |-> n]
      /\ stopping' = [stopping EXCEPT ![Head(joins)] = TRUE]
      /\ UNCHANGED <<handoff, thread, running, ready, degraded, layout, queue,
                     attempt>>
  BY DEF Enter, Entered
<1>2. call' \in Calls /\ Head(joins) \in Slot
  BY <1>1, Joins DEF Calls, Slot
<1>3. HandoffTypeOK'
  BY <1>1, <1>2 DEF HandoffInv, HandoffTypeOK, handoff
<1>4. FlagsFollowThread'
  BY <1>1 DEF HandoffInv, FlagsFollowThread, Alive
<1>5. SpareParked' /\ FadePrepared' /\ FadeInStep'
  BY <1>1 DEF SpareParked, FadePrepared, FadeInStep, Owner
<1>6. InCall'
  <2>1. call'.op = op /\ call'.joins = joins /\ call'.layout = l /\ call'.total = n
        /\ call' # Idle'
    BY <1>1 DEF Idle
  <2>2. UNCHANGED <<handoffState, active, fadeStep, total, thread>>
    BY <1>1 DEF handoff
  <2>3. SpareParked /\ FadePrepared /\ FadeInStep
    BY DEF HandoffInv
  <2>4. op \in {"start", "stop"} => joins = <<0, 1>> /\ <<0, 1>> # <<>>
    BY Joins
  <2>5. joins # <<>>
    BY Joins
  <2>6. op = "commit" => total > 0 /\ fadeStep >= total /\ thread[Candidate] # "none"
    BY <2>3 DEF SpareParked, FadePrepared, FadeInStep, Handing
  <2>7. op = "begin" => thread[active] # "none" /\ thread[Candidate] = "none"
    BY <2>3 DEF SpareParked, Handing
  <2>8. op \in Dropping => Handing /\ thread[active] # "none" /\ joins = <<Candidate>>
    BY <2>3 DEF SpareParked, Handing, Dropping
  <2> QED
    BY <2>1, <2>2, <2>4, <2>5, <2>6, <2>7, <2>8
    DEF InCall, Handing, Candidate, Other, Dropping
<1> QED
  BY <1>3, <1>4, <1>5, <1>6 DEF HandoffInv

\* The calls begin where the code lets them.
LEMMA BeginningsKeep ==
  ASSUME HandoffInv,
         \/ \E l \in Layouts : StartInitial(l)
         \/ \E l \in Layouts, n \in 1..MaxFade : Begin(l, n)
         \/ DropCandidate \/ Commit \/ Rollback \/ Stop
         \/ \E l \in Layouts : CandidateRejects(l)
  PROVE  HandoffInv'
<1> USE WasapiHandoffAssumption
<1>0. active \in Slot /\ <<active>> \in {<<0>>, <<1>>, <<0, 1>>}
      /\ <<Candidate>> \in {<<0>>, <<1>>, <<0, 1>>} /\ 0 \in 0..MaxFade
  BY DEF HandoffInv, HandoffTypeOK, Slot, Candidate, Other
<1>1. ASSUME NEW l \in Layouts, StartInitial(l)
      PROVE  HandoffInv'
  BY <1>0, <1>1, EnterKeeps DEF StartInitial
<1>2. ASSUME NEW l \in Layouts, NEW n \in 1..MaxFade, Begin(l, n)
      PROVE  HandoffInv'
  <2>1. n \in 0..MaxFade /\ n > 0
    OBVIOUS
  <2> QED
    BY <1>0, <1>2, <2>1, EnterKeeps DEF Begin
<1>3. CASE DropCandidate
  BY <1>0, <1>3, EnterKeeps DEF DropCandidate, Handing
<1>4. CASE Commit
  BY <1>0, <1>4, EnterKeeps DEF Commit
<1>5. CASE Rollback
  BY <1>0, <1>5, EnterKeeps DEF Rollback, Handing
<1>6. CASE Stop
  BY <1>0, <1>6, EnterKeeps DEF Stop
<1>7. ASSUME NEW l \in Layouts, CandidateRejects(l)
      PROVE  HandoffInv'
  BY <1>0, <1>7, EnterKeeps DEF CandidateRejects, Handing
<1> QED
  BY <1>1, <1>2, <1>3, <1>4, <1>5, <1>6, <1>7

LEMMA ActiveRejectsKeeps ==
  ASSUME HandoffInv, NEW l \in Layouts, ActiveRejects(l)
  PROVE  HandoffInv'
<1> USE WasapiHandoffAssumption
<1>1. /\ Owner /\ handoffState = "Fading"
      /\ call' = [op |-> "fail", joins |-> <<Candidate>>, layout |-> l, total |-> 0]
      /\ queue' = [queue EXCEPT ![Candidate] = Append(@, fadeStep)]
      /\ stopping' = [stopping EXCEPT ![Head(<<Candidate>>)] = TRUE]
      /\ result' = FALSE
      /\ UNCHANGED <<handoff, thread, running, ready, degraded, layout, attempt>>
  BY DEF ActiveRejects, Enter
<1>2. Candidate \in Slot /\ Candidate \in {0, 1}
  BY DEF HandoffInv, HandoffTypeOK, Slot, Candidate, Other
<1>3. call' \in Calls /\ call'.op = "fail" /\ call'.joins = <<Candidate>>
      /\ call' # Idle' /\ <<Candidate>> # <<>>
  BY <1>1, <1>2, Joins DEF Calls, Idle
<1>4. queue' \in [Slot -> Seq(Marks)]
  <2>1. fadeStep \in Marks /\ queue[Candidate] \in Seq(Marks)
    BY <1>2 DEF HandoffInv, HandoffTypeOK, Marks
  <2>2. Append(queue[Candidate], fadeStep) \in Seq(Marks)
    BY <2>1
  <2> QED
    BY <1>1, <1>2, <2>2 DEF HandoffInv, HandoffTypeOK
<1>5. HandoffTypeOK'
  BY <1>1, <1>3, <1>4 DEF HandoffInv, HandoffTypeOK, handoff
<1>6. FlagsFollowThread'
  BY <1>1 DEF HandoffInv, FlagsFollowThread, Alive
<1>7. InCall'
  BY <1>1, <1>3 DEF HandoffInv, InCall, SpareParked, Handing, handoff, Candidate, Other,
                    Dropping
<1>8. SpareParked' /\ FadePrepared' /\ FadeInStep'
  BY <1>3 DEF SpareParked, FadePrepared, FadeInStep, Owner
<1> QED
  BY <1>5, <1>6, <1>7, <1>8 DEF HandoffInv

\* What the audio side does to the queues: a block at the end of some.
LEMMA AppendType ==
  ASSUME NEW q \in [Slot -> Seq(Marks)], NEW to \in SUBSET Slot, NEW m \in Marks
  PROVE  [s \in Slot |-> IF s \in to THEN Append(q[s], m) ELSE q[s]]
           \in [Slot -> Seq(Marks)]
<1>1. \A s \in Slot : q[s] \in Seq(Marks) /\ Append(q[s], m) \in Seq(Marks)
  OBVIOUS
<1> QED
  BY <1>1

LEMMA ProcessKeeps ==
  ASSUME HandoffInv, NEW l \in Layouts, Process(l)
  PROVE  HandoffInv'
<1> DEFINE to == {s \in {active} : handoffState = "Synced" /\ Takes(s, l)}
<1>1. /\ Owner /\ handoffState # "Fading"
      /\ result' = (to # {})
      /\ queue' = [s \in Slot |-> IF s \in to THEN Append(queue[s], Full) ELSE queue[s]]
      /\ UNCHANGED <<handoff, call, thread, running, ready, degraded, stopping,
                     layout, attempt>>
  BY DEF Process
<1>2. to \in SUBSET Slot /\ Full \in Marks /\ (handoffState # "Synced" => to = {})
  BY DEF HandoffInv, HandoffTypeOK, Marks
<1>3. queue' \in [Slot -> Seq(Marks)]
  <2> HIDE DEF to
  <2> QED
    BY <1>1, <1>2, AppendType DEF HandoffInv, HandoffTypeOK
<1>4. handoffState # "Synced" => queue' = queue
  BY <1>1, <1>2 DEF HandoffInv, HandoffTypeOK
<1>5. HandoffTypeOK'
  <2>1. result' \in BOOLEAN
    BY <1>1
  <2> QED
    BY <1>1, <1>3, <2>1 DEF HandoffInv, HandoffTypeOK, handoff
<1>6. FlagsFollowThread'
  BY <1>1 DEF HandoffInv, FlagsFollowThread, Alive
<1>7. InCall' /\ SpareParked'
  BY <1>1 DEF HandoffInv, InCall, SpareParked, Owner, Handing, handoff, Candidate, Other,
              Idle
<1>8. FadePrepared' /\ FadeInStep'
  BY <1>1, <1>4 DEF HandoffInv, FadePrepared, FadeInStep, Owner, Handing, handoff,
                    Candidate, Other
<1> QED
  BY <1>5, <1>6, <1>7, <1>8 DEF HandoffInv

LEMMA PrepareKeeps ==
  ASSUME HandoffInv, Prepare
  PROVE  HandoffInv'
<1> USE WasapiHandoffAssumption
<1>1. /\ Owner /\ handoffState = "Preparing" /\ handoffState' = "Fading" /\ call = Idle
      /\ UNCHANGED <<active, fadeStep, total, call, result, worker>>
  BY DEF Prepare, HandoffInv, InCall, Owner
<1>2. HandoffTypeOK' /\ FlagsFollowThread'
  BY <1>1 DEF HandoffInv, HandoffTypeOK, FlagsFollowThread, Alive, worker, HandoffStates
<1>3. InCall'
  BY <1>1 DEF InCall, Idle, Dropping
<1>4. SpareParked' /\ FadePrepared'
  BY <1>1 DEF HandoffInv, SpareParked, FadePrepared, Owner, Handing, worker, Candidate,
              Other
<1>5. FadeInStep'
  <2>1. /\ fadeStep' = 0 /\ queue' = queue /\ queue[Candidate] = <<>> /\ total' > 0
        /\ Candidate' = Candidate
    BY <1>1 DEF HandoffInv, FadePrepared, Handing, worker, Candidate, Other
  <2>2. \A s \in Slot : Len(queue[s]) \in Nat
    BY DEF HandoffInv, HandoffTypeOK
  <2>3. Len(queue[Candidate]) = 0
    BY <2>1
  <2> QED
    BY <1>1, <2>1, <2>2, <2>3 DEF FadeInStep, HandoffInv, HandoffTypeOK
<1> QED
  BY <1>2, <1>3, <1>4, <1>5 DEF HandoffInv

LEMMA FadeBlockKeeps ==
  ASSUME HandoffInv, NEW l \in Layouts, FadeBlock(l)
  PROVE  HandoffInv'
<1> USE WasapiHandoffAssumption
<1>1. /\ Owner /\ handoffState = "Fading"
      /\ result' = TRUE
      /\ queue' = [s \in Slot |-> Append(queue[s], fadeStep)]
      /\ fadeStep' = fadeStep + 1
      /\ handoffState' = IF fadeStep' >= total THEN "ReadyToCommit" ELSE handoffState
      /\ UNCHANGED <<active, total, call, thread, running, ready, degraded,
                     stopping, layout, attempt>>
  BY DEF FadeBlock
<1>2. /\ fadeStep \in 0..MaxFade /\ total \in 0..MaxFade /\ fadeStep < total
      /\ queue \in [Slot -> Seq(Marks)] /\ Candidate \in Slot /\ Candidate' = Candidate
  BY <1>1 DEF HandoffInv, HandoffTypeOK, FadeInStep, Candidate, Other, Slot
<1>3. \A s \in Slot : /\ queue[s] \in Seq(Marks)
                      /\ queue'[s] = Append(queue[s], fadeStep)
                      /\ queue'[s] \in Seq(Marks)
  <2>1. fadeStep \in Marks
    BY <1>2 DEF Marks
  <2> QED
    BY <1>1, <1>2, <2>1
<1>4. HandoffTypeOK'
  <2>1. queue' \in [Slot -> Seq(Marks)]
    BY <1>1, <1>3
  <2> QED
    BY <1>1, <1>2, <2>1 DEF HandoffInv, HandoffTypeOK, HandoffStates
<1>5. FlagsFollowThread'
  BY <1>1 DEF HandoffInv, FlagsFollowThread, Alive
<1>6. InCall' /\ SpareParked' /\ FadePrepared'
  BY <1>1 DEF HandoffInv, InCall, SpareParked, FadePrepared, Owner, Handing, Candidate,
              Other, Idle, Dropping
<1>7. FadeInStep'
  <2>1. ASSUME NEW s \in Slot, NEW i \in 1..Len(queue'[s]),
               i + fadeStep' > Len(queue'[s])
        PROVE  queue'[s][i] = i + fadeStep' - 1 - Len(queue'[s])
    <3>1. Len(queue[s]) \in Nat /\ Len(queue'[s]) = Len(queue[s]) + 1
      BY <1>3
    <3>2. CASE i = Len(queue[s]) + 1
      BY <1>1, <1>2, <1>3, <3>1, <3>2
    <3>3. CASE i \in 1..Len(queue[s])
      <4>1. queue'[s][i] = queue[s][i]
        BY <1>3, <3>3
      <4>2. queue[s][i] = i + fadeStep - 1 - Len(queue[s])
        BY <1>1, <1>2, <2>1, <3>1, <3>3 DEF HandoffInv, FadeInStep
      <4> QED
        BY <1>1, <1>2, <3>1, <4>1, <4>2
    <3> QED
      BY <3>1, <3>2, <3>3
  <2>2. Len(queue'[Candidate]) <= fadeStep'
    <3>1. Len(queue[Candidate]) <= fadeStep
      BY <1>1 DEF HandoffInv, FadeInStep
    <3>2. Len(queue'[Candidate]) = Len(queue[Candidate]) + 1
          /\ Len(queue[Candidate]) \in Nat
      BY <1>2, <1>3
    <3> QED
      BY <1>1, <1>2, <3>1, <3>2
  <2> QED
    BY <1>1, <1>2, <2>1, <2>2 DEF FadeInStep
<1> QED
  BY <1>4, <1>5, <1>6, <1>7 DEF HandoffInv

\* The calls that only joined: drop, fail, commit, rollback and stop.
LEMMA QuietEndsKeep ==
  ASSUME HandoffInv,
         DropCandidateEnds \/ ActiveRejectsEnds \/ CommitEnds \/ RollbackEnds
         \/ StopEnds
  PROVE  HandoffInv'
<1> USE WasapiHandoffAssumption
<1>1. HandoffTypeOK /\ InCall /\ active \in Slot /\ 0 \in 0..MaxFade /\ 0 \in Slot /\ 1 \in Slot
  BY DEF HandoffInv, HandoffTypeOK, Slot
<1>2. CASE DropCandidateEnds \/ ActiveRejectsEnds \/ RollbackEnds
  <2>1. /\ call.op \in Dropping /\ call.joins = <<>> /\ call' = Idle
        /\ handoffState' \in {"RolledBack", "Degraded"}
        /\ UNCHANGED <<active, worker, result>>
        /\ fadeStep' \in 0..MaxFade /\ total' \in 0..MaxFade
    BY <1>1, <1>2 DEF DropCandidateEnds, ActiveRejectsEnds, RollbackEnds, Finish,
                      Dropping, HandoffTypeOK
  <2>2. thread[active] # "none" /\ thread[Candidate] = "none"
    BY <1>1, <2>1 DEF InCall
  <2>3. SpareParked' /\ ~Handing' /\ handoffState' \in HandoffStates
    BY <2>1, <2>2 DEF SpareParked, Handing, HandoffStates, worker, Candidate, Other
  <2> QED
    BY <1>1, <2>1, <2>3, EndKeeps DEF HandoffTypeOK
<1>3. CASE CommitEnds
  <2>1. /\ call.op = "commit" /\ call.joins = <<>> /\ call' = Idle
        /\ handoffState' = "Synced" /\ active' = Candidate /\ fadeStep' = 0 /\ total' = 0
        /\ UNCHANGED <<worker, result>>
    BY <1>3 DEF CommitEnds, Finish
  <2>2. /\ thread[active] = "none" /\ thread[Candidate] # "none"
        /\ Candidate' = active /\ Candidate \in Slot
    BY <1>1, <2>1 DEF InCall, Candidate, Other, Slot
  <2>3. SpareParked' /\ ~Handing' /\ handoffState' \in HandoffStates
    BY <2>1, <2>2 DEF SpareParked, Handing, HandoffStates, worker
  <2> QED
    BY <1>1, <2>1, <2>2, <2>3, EndKeeps DEF HandoffTypeOK
<1>4. CASE StopEnds
  <2>1. /\ call.op = "stop" /\ call.joins = <<>> /\ call' = Idle
        /\ handoffState' = "Unbound" /\ active' = 0 /\ fadeStep' = 0 /\ total' = 0
        /\ UNCHANGED <<worker, result>>
    BY <1>4 DEF StopEnds, Finish
  <2>2. thread[0] = "none" /\ thread[1] = "none" /\ Candidate' = 1
    BY <1>1, <2>1, Joins DEF InCall, Candidate, Other
  <2>3. SpareParked' /\ ~Handing' /\ handoffState' \in HandoffStates
    BY <2>1, <2>2 DEF SpareParked, Handing, HandoffStates, worker
  <2> QED
    BY <1>1, <2>1, <2>3, EndKeeps DEF HandoffTypeOK
<1> QED
  BY <1>2, <1>3, <1>4

LEMMA FallBackKeeps ==
  ASSUME HandoffInv, CandidateRejectsEnds
  PROVE  HandoffInv'
<1> USE WasapiHandoffAssumption
<1> DEFINE to == {s \in {active} : Takes(s, call.layout)}
<1>1. /\ call.op = "fall" /\ call.joins = <<>> /\ call' = Idle
      /\ handoffState' = "RolledBack"
      /\ result' = (to # {})
      /\ queue' = [s \in Slot |-> IF s \in to THEN Append(queue[s], Full) ELSE queue[s]]
      /\ UNCHANGED <<active, fadeStep, total, thread, running, ready, degraded,
                     stopping, layout, attempt>>
  BY DEF CandidateRejectsEnds
<1>2. to \in SUBSET Slot /\ Full \in Marks
  BY DEF HandoffInv, HandoffTypeOK, Marks
<1>3. queue' \in [Slot -> Seq(Marks)] /\ result' \in BOOLEAN
  <2> HIDE DEF to
  <2> QED
    BY <1>1, <1>2, AppendType DEF HandoffInv, HandoffTypeOK
<1>4. HandoffTypeOK'
  <2>1. call' \in Calls
    BY <1>1 DEF Idle, Calls
  <2> QED
    BY <1>1, <1>3, <2>1 DEF HandoffInv, HandoffTypeOK, HandoffStates
<1>5. FlagsFollowThread'
  BY <1>1 DEF HandoffInv, FlagsFollowThread, Alive
<1>6. InCall'
  BY <1>1 DEF InCall, Idle, Dropping
<1>7. SpareParked'
  BY <1>1 DEF HandoffInv, InCall, SpareParked, Handing, Dropping, Candidate, Other
<1>8. FadePrepared' /\ FadeInStep'
  BY <1>1 DEF FadePrepared, FadeInStep, Handing
<1> QED
  BY <1>4, <1>5, <1>6, <1>7, <1>8 DEF HandoffInv

\* start() of a joined worker, whether it launches the thread or not.
LEMMA LaunchTypes ==
  ASSUME HandoffInv, NEW s \in Slot, NEW l \in Layouts, thread[s] = "none",
         Launch(s, l) \/ LaunchFails(s, l)
  PROVE  /\ thread' \in [Slot -> {"none", "bind", "up", "recover", "ending",
                                  "returned"}]
         /\ running' \in [Slot -> BOOLEAN] /\ ready' \in [Slot -> BOOLEAN]
         /\ degraded' \in [Slot -> BOOLEAN] /\ stopping' \in [Slot -> BOOLEAN]
         /\ layout' \in [Slot -> Layouts \cup {NoLayout}]
         /\ queue' \in [Slot -> Seq(Marks)]
         /\ attempt' \in [Slot -> 0..Recoveries]
         /\ FlagsFollowThread'
         /\ \A r \in Slot \ {s} : thread'[r] = thread[r]
<1> USE DEF HandoffInv, HandoffTypeOK, FlagsFollowThread, Alive
<1>1. CASE Launch(s, l)
  BY <1>1 DEF Launch
<1>2. CASE LaunchFails(s, l)
  <2>1. UNCHANGED <<thread, running, ready, stopping, attempt>>
    BY <1>2 DEF LaunchFails
  <2>2. CASE UNCHANGED <<degraded, layout, queue>>
    BY <2>1, <2>2
  <2>3. CASE degraded' = [degraded EXCEPT ![s] = TRUE] /\ UNCHANGED <<layout, queue>>
    BY <2>1, <2>3
  <2>4. CASE /\ degraded' = [degraded EXCEPT ![s] = FALSE]
             /\ layout' = [layout EXCEPT ![s] = l]
             /\ queue' = [queue EXCEPT ![s] = <<>>]
    BY <2>1, <2>4
  <2> QED
    BY <1>2, <2>2, <2>3, <2>4 DEF LaunchFails
<1> QED
  BY <1>1, <1>2

LEMMA StartInitialEndsKeeps ==
  ASSUME HandoffInv, StartInitialEnds
  PROVE  HandoffInv'
<1> USE WasapiHandoffAssumption
<1>1. /\ call.op = "start" /\ call.joins = <<>> /\ call' = Idle
      /\ active' = 0 /\ fadeStep' = 0 /\ total' = 0 /\ UNCHANGED result
      /\ \/ Launch(0, call.layout) /\ handoffState' = "Synced"
         \/ LaunchFails(0, call.layout) /\ handoffState' = "Degraded"
  BY DEF StartInitialEnds, Finish
<1>2. /\ thread[0] = "none" /\ thread[1] = "none" /\ call.layout \in Layouts
      /\ 0 \in Slot /\ 1 \in Slot \ {0} /\ Candidate' = 1
  BY <1>1, Joins DEF HandoffInv, InCall, Slot, Candidate, Other
<1>3. /\ thread'[1] = "none" /\ FlagsFollowThread'
      /\ handoffState' = "Synced" => thread'[0] # "none"
      /\ handoffState' \in {"Synced", "Degraded"}
  BY <1>1, <1>2, LaunchTypes DEF Launch, HandoffInv, HandoffTypeOK
<1>4. HandoffTypeOK'
  <2>1. Idle \in Calls
    BY DEF Idle, Calls
  <2>2. Launch(0, call.layout) \/ LaunchFails(0, call.layout)
    BY <1>1
  <2>3. /\ thread' \in [Slot -> {"none", "bind", "up", "recover", "ending", "returned"}]
        /\ running' \in [Slot -> BOOLEAN] /\ ready' \in [Slot -> BOOLEAN]
        /\ degraded' \in [Slot -> BOOLEAN] /\ stopping' \in [Slot -> BOOLEAN]
        /\ layout' \in [Slot -> Layouts \cup {NoLayout}]
        /\ queue' \in [Slot -> Seq(Marks)] /\ attempt' \in [Slot -> 0..Recoveries]
    BY <1>2, <2>2, LaunchTypes
  <2>4. handoffState' \in HandoffStates /\ active' \in Slot /\ result' \in BOOLEAN
    BY <1>1, <1>2, <1>3 DEF HandoffInv, HandoffTypeOK, HandoffStates
  <2>5. call' \in Calls /\ fadeStep' \in 0..MaxFade /\ total' \in 0..MaxFade
    BY <1>1, <2>1
  <2> QED
    BY <2>3, <2>4, <2>5 DEF HandoffTypeOK
<1>5. InCall'
  BY <1>1 DEF InCall, Idle, Dropping
<1>6. SpareParked' /\ FadePrepared' /\ FadeInStep'
  BY <1>1, <1>2, <1>3 DEF SpareParked, FadePrepared, FadeInStep, Handing
<1> QED
  BY <1>3, <1>4, <1>5, <1>6 DEF HandoffInv

LEMMA BeginEndsKeeps ==
  ASSUME HandoffInv, BeginEnds
  PROVE  HandoffInv'
<1> USE WasapiHandoffAssumption
<1>1. /\ call.op = "begin" /\ call.joins = <<>> /\ call' = Idle
      /\ UNCHANGED <<active, result>>
      /\ \/ /\ Launch(Candidate, call.layout)
            /\ total' = call.total /\ fadeStep' = 0 /\ handoffState' = "Preparing"
         \/ /\ LaunchFails(Candidate, call.layout)
            /\ handoffState' = "Degraded" /\ UNCHANGED <<fadeStep, total>>
  BY DEF BeginEnds, Finish
<1>2. /\ thread[Candidate] = "none" /\ thread[active] # "none"
      /\ call.layout \in Layouts /\ call.total \in 0..MaxFade /\ call.total > 0
      /\ Candidate \in Slot /\ active \in Slot \ {Candidate} /\ Candidate' = Candidate
  BY <1>1 DEF HandoffInv, HandoffTypeOK, InCall, Calls, Slot, Candidate, Other
<1>3. /\ thread'[active] # "none" /\ FlagsFollowThread'
      /\ handoffState' = "Preparing" => thread'[Candidate] # "none" /\ queue'[Candidate] = <<>>
      /\ handoffState' = "Degraded" => thread'[Candidate] = "none"
      /\ handoffState' \in {"Preparing", "Degraded"}
  <2>1. FlagsFollowThread'
    BY <1>1, <1>2, LaunchTypes DEF HandoffInv, HandoffTypeOK
  <2>2. /\ thread \in [Slot -> {"none", "bind", "up", "recover", "ending",
                               "returned"}]
        /\ queue \in [Slot -> Seq(Marks)]
    BY DEF HandoffInv, HandoffTypeOK
  <2>3. CASE Launch(Candidate, call.layout) /\ handoffState' = "Preparing"
    <3>1. /\ thread' = [thread EXCEPT ![Candidate] = "bind"]
          /\ queue' = [queue EXCEPT ![Candidate] = <<>>]
      BY <2>3 DEF Launch
    <3> QED
      BY <1>2, <2>1, <2>2, <2>3, <3>1
  <2>4. CASE LaunchFails(Candidate, call.layout) /\ handoffState' = "Degraded"
    <3>1. thread' = thread
      BY <2>4 DEF LaunchFails
    <3> QED
      BY <1>2, <2>1, <2>4, <3>1
  <2> QED
    BY <1>1, <2>3, <2>4
<1>4. HandoffTypeOK'
  <2>1. Idle \in Calls
    BY DEF Idle, Calls
  <2>2. fadeStep' \in 0..MaxFade /\ total' \in 0..MaxFade
    BY <1>1, <1>2 DEF HandoffInv, HandoffTypeOK
  <2> QED
    BY <1>1, <1>2, <1>3, <2>1, <2>2, LaunchTypes DEF HandoffInv, HandoffTypeOK, HandoffStates
<1>5. InCall'
  BY <1>1 DEF InCall, Idle, Dropping
<1>6. SpareParked' /\ FadeInStep'
  BY <1>1, <1>2, <1>3 DEF SpareParked, FadeInStep, Handing
<1>7. FadePrepared'
  BY <1>1, <1>2, <1>3 DEF FadePrepared, Handing
<1> QED
  BY <1>3, <1>4, <1>5, <1>6, <1>7 DEF HandoffInv

-----------------------------------------------------------------------------
(* The handoff: the theorems *)

LEMMA HandoffInvKept == HandoffInv /\ [HandoffNext]_handoffVars => HandoffInv'
<1> SUFFICES ASSUME HandoffInv, [HandoffNext]_handoffVars PROVE HandoffInv'
  OBVIOUS
<1>1. CASE CallGoesOn
  BY <1>1, JoinKeeps, QuietEndsKeep, FallBackKeeps, StartInitialEndsKeeps,
     BeginEndsKeeps DEF CallGoesOn
<1>2. CASE Control
  BY <1>2, BeginningsKeep, PrepareKeeps DEF Control
<1>3. CASE Audio
  BY <1>3, BeginningsKeep, ProcessKeeps, FadeBlockKeeps, ActiveRejectsKeeps DEF Audio
<1>4. CASE \E s \in Slot : Thread(s)
  BY <1>4, ThreadKeeps
<1>5. CASE UNCHANGED handoffVars
  BY <1>5 DEF handoffVars, handoff, worker, HandoffInv, HandoffTypeOK, FlagsFollowThread, Alive, InCall,
              SpareParked, FadePrepared, FadeInStep, Owner, Handing, Candidate,
              Other, Idle
<1> QED
  BY <1>1, <1>2, <1>3, <1>4, <1>5 DEF HandoffNext

LEMMA HandoffInvariant == HandoffSpec => []HandoffInv
<1> QED
  BY InitHandoffInv, HandoffInvKept, PTL DEF HandoffSpec

\* Every variable of the handoff and of its workers keeps its type; the fade
\* never counts past its length.
THEOREM HandoffTypeCorrect == HandoffSpec => []HandoffTypeOK
<1>1. HandoffInv => HandoffTypeOK
  BY DEF HandoffInv
<1> QED
  BY <1>1, HandoffInvariant, PTL

\* "running" and "endpoint_ready" say where the thread of a worker is, for any
\* number of attempts to get a lost device back.
THEOREM FlagsTrue == HandoffSpec => []FlagsFollowThread
<1>1. HandoffInv => FlagsFollowThread
  BY DEF HandoffInv
<1> QED
  BY <1>1, HandoffInvariant, PTL

\* Between two calls the second worker exists exactly during a handoff.
THEOREM SpareStopped == HandoffSpec => []SpareParked
<1>1. HandoffInv => SpareParked
  BY DEF HandoffInv
<1> QED
  BY <1>1, HandoffInvariant, PTL

\* The two queues of a fade end in the same steps of the fade, for a fade and a
\* queue of any length.
THEOREM FadeTogether == HandoffSpec => []FadeInStep
<1>1. HandoffInv => FadeInStep
  BY DEF HandoffInv
<1> QED
  BY <1>1, HandoffInvariant, PTL

\* The slot flips after a complete fade and after the join of the old worker.
THEOREM SwapSafe == HandoffSpec => SwapAfterFade
<1> DEFINE Safe == active' # active =>
                     /\ thread[active] = "none"
                     /\ \/ total > 0 /\ fadeStep >= total
                        \/ thread[Candidate] = "none"
<1>1. HandoffInv /\ [HandoffNext]_handoffVars => [Safe]_handoffVars
  <2> SUFFICES ASSUME HandoffInv, HandoffNext, active' # active PROVE Safe
    OBVIOUS
  <2>1. CASE \E s \in Slot : Thread(s)
    BY <2>1, ThreadStep DEF handoff
  <2>2. CASE Control
    BY <2>2 DEF Control, StartInitial, Begin, Prepare, DropCandidate, Commit,
                Rollback, Stop, Entered, handoff
  <2>3. CASE Audio
    BY <2>3 DEF Audio, Process, FadeBlock, CandidateRejects, ActiveRejects,
                Entered, handoff
  <2>4. CASE CallGoesOn
    <3>1. CASE CommitEnds
      BY <3>1 DEF CommitEnds, Finish, HandoffInv, InCall
    <3>2. CASE StartInitialEnds \/ StopEnds
      <4>1. thread[0] = "none" /\ thread[1] = "none"
        BY <3>2, Joins DEF StartInitialEnds, StopEnds, Finish, HandoffInv, InCall
      <4>2. active \in {0, 1} /\ Candidate \in {0, 1}
        BY DEF HandoffInv, HandoffTypeOK, Slot, Candidate, Other
      <4> QED
        BY <4>1, <4>2
    <3>3. CASE \/ Join \/ BeginEnds \/ DropCandidateEnds \/ CandidateRejectsEnds
               \/ ActiveRejectsEnds \/ RollbackEnds
      BY <3>3 DEF Join, BeginEnds, DropCandidateEnds, CandidateRejectsEnds,
                  ActiveRejectsEnds, RollbackEnds, handoff
    <3> QED
      BY <2>4, <3>1, <3>2, <3>3 DEF CallGoesOn
  <2> QED
    BY <2>1, <2>2, <2>3, <2>4 DEF HandoffNext
<1> QED
  BY <1>1, HandoffInvariant, PTL DEF HandoffSpec, SwapAfterFade

===============================================================================
