-------------------------------- MODULE MCVst3 --------------------------------
(***************************************************************************)
(* The parts of the VST3 path, one after the other in one run: the tap     *)
(* register, the worker lane with its sandbox, and the plug-in states.     *)
(* part says which of them a behaviour is about; the others keep their     *)
(* initial states.                                                         *)
(***************************************************************************)
EXTENDS Vst3Tap, Vst3Lane, PluginStates

VARIABLE part

\* Two groups share the tap.
MCGroups == {"main", "chat"}

\* Every wrong answer of the worker.
MCFaults == {"Error", "Heartbeat", "Shape", "Garbage", "NonFinite", "Twice"}

tapVars == vars
allVars == <<part, tapVars, laneVars, pluginVars>>

Vst3Init ==
  /\ part \in {"tap", "lane", "states"}
  /\ Init /\ LaneInit /\ PluginInit
  /\ part # "lane" => owner = "preview"

Vst3Next ==
  /\ \/ part = "tap" /\ Next /\ UNCHANGED <<laneVars, pluginVars>>
     \/ part = "lane" /\ LaneNext /\ UNCHANGED <<tapVars, pluginVars>>
     \/ part = "states" /\ PluginNext /\ UNCHANGED <<tapVars, laneVars>>
  /\ UNCHANGED part

\* The fairness of each part, for the behaviours that are about it.
Vst3Spec ==
  /\ Vst3Init /\ [][Vst3Next]_allVars
  /\ WF_tapVars(part = "tap" /\ ReaderNext)
  /\ WF_laneVars(part = "lane" /\ (TurnNext \/ LaunchLane))
  /\ SF_laneVars(part = "lane" /\ RenderBlock)
=============================================================================
