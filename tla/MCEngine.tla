------------------------------- MODULE MCEngine -------------------------------
(***************************************************************************)
(* The core of the engine, one part after the other in one run: the Scene  *)
(* transaction, the link to the system volume, and the handoff between two *)
(* outputs.  part says which of them a behaviour is about; the others keep *)
(* their initial states.                                                   *)
(***************************************************************************)
EXTENDS SceneEngine, VolumeLink, WasapiHandoff, TLC

CONSTANTS main, aux, spare, labelA, labelB, idA, idB,   \* Scenes
          speakers, headset, t1, t2,                    \* the volume link
          stereo, surround                              \* outputs

-------------------------------------------------------------------------------
MCGroups == {main, aux}
ThreeGroups == {main, aux, spare}

Scn(g, c, strict, ls, r, mnt) ==
  [group |-> g, ch |-> c, strict |-> strict, lanes |-> ls, ref |-> r,
   mount |-> mnt, aware |-> FALSE]

\* Every shape a switch can take with one layout: labels kept and changed,
\* another group, a Scene without a lane for its own group, Strict Direct, and a
\* Scene over more groups than the volume bank may have room for.
StereoScenes ==
  {Scn(main, 2, FALSE, {main}, labelA, TRUE),
   Scn(main, 2, FALSE, {main, aux}, labelB, FALSE),
   Scn(aux, 2, FALSE, {main}, labelA, TRUE),
   Scn(main, 2, TRUE, {main}, labelA, FALSE),
   Scn(main, 2, FALSE, {aux, spare}, NoRef, TRUE)}

\* Scenes that mount loudness for "main" and so fade into each other: in two
\* layouts under one label, under Strict Direct, and with no lane for "main".
FadingScenes == {Scn(main, 2, FALSE, {main}, labelA, TRUE),
                 Scn(main, 6, FALSE, {main}, labelA, TRUE),
                 Scn(main, 2, TRUE, {main}, labelA, TRUE),
                 Scn(main, 2, FALSE, {aux}, labelA, TRUE)}

\* Stereo and 5.1 Scenes for one group.
MixedScenes == {Scn(main, 6, FALSE, {main}, NoRef, TRUE),
                Scn(main, 2, FALSE, {main}, labelA, FALSE),
                Scn(main, 6, FALSE, {main}, labelA, FALSE)}

OneLane == {{main}}
NoLanes == {}

-------------------------------------------------------------------------------
OneEndpoint == {speakers}
TwoEndpoints == {speakers, headset}
OneCaller == {t1}
TwoCallers == {t1, t2}

Budget(user, ui, fails, rebinds) ==
  [user |-> user, ui |-> ui, fails |-> fails, rebinds |-> rebinds]

\* Some of everything, and more of Windows' own changes around a rebind.
Mixed == {Budget(1, 1, 2, 1), Budget(3, 0, 0, 1)}

\* Only one side changes the volume.
OneSided == {Budget(2, 0, 1, 0), Budget(0, 2, 0, 0)}

\* A change in Windows that comes after two commands of the client.
LateChange == {Budget(1, 2, 0, 0)}

TwoLayouts == {stereo, surround}

\* Endpoints of the volume link are alike, and so are its Windows threads.
Symmetry == Permutations(TwoEndpoints) \cup Permutations(TwoCallers)

-------------------------------------------------------------------------------
VARIABLE part

sceneVars == vars
engineVars == <<part, sceneVars, linkVars, handoffVars>>

EngineInit ==
  /\ part \in {"scene", "volume", "handoff"}
  /\ Init /\ LinkInit /\ HandoffInit
  /\ part # "scene" => graph = NoGraph
  /\ part # "volume" =>
       /\ bound = NoEndpoint
       /\ ep = [e \in Endpoints |-> [db |-> DefaultLevel, mute |-> FALSE]]

EngineNext ==
  /\ \/ part = "scene" /\ Next /\ UNCHANGED <<linkVars, handoffVars>>
     \/ part = "volume" /\ LinkNext /\ UNCHANGED <<sceneVars, handoffVars>>
     \/ part = "handoff" /\ HandoffNext /\ UNCHANGED <<sceneVars, linkVars>>
  /\ UNCHANGED part

EngineSpec == EngineInit /\ [][EngineNext]_engineVars

\* The fairness each part's own specification states.
EngineFairSpec ==
  /\ EngineSpec
  /\ WF_sceneVars(part = "scene" /\ pc # "idle" /\ Apply)
  /\ SF_sceneVars(part = "scene" /\ Render)
  /\ WF_linkVars(part = "volume" /\ Host) /\ SF_linkVars(part = "volume" /\ Bind)
  /\ WF_linkVars(part = "volume" /\ RetryDue)
  /\ \A c \in Callers : WF_linkVars(part = "volume" /\ OnNotify(c))
  /\ WF_handoffVars(part = "handoff" /\ CallGoesOn)
  /\ \A s \in Slot : WF_handoffVars(part = "handoff" /\ Thread(s))
===============================================================================
