------------------------------- MODULE MCDevices -------------------------------
(***************************************************************************)
(* The devices below the engine, one after the other in one run: the       *)
(* catalog of the physical endpoints, and of the virtual driver its WaveRT *)
(* stream, the ring of a pin and its endpoint volume.  part says which of  *)
(* them a behaviour is about; the others keep their initial states.        *)
(***************************************************************************)
EXTENDS DeviceCatalog, WaveRtStream, PinRing, DriverVolume

CONSTANTS speakers, headset, mic

MCDeviceSet == {speakers, headset, mic}
MCFlowOf == [d \in Devices |-> IF d = mic THEN "capture" ELSE "render"]

VARIABLE part

DevicesInit ==
  /\ part \in {"catalog", "stream", "pin", "volume"}
  /\ DeviceInit /\ StreamInit /\ PinInit /\ DriverVolumeInit
  /\ part # "catalog" => default["render"] = speakers

DevicesNext ==
  /\ \/ part = "catalog" /\ DeviceNext /\ UNCHANGED <<streamVars, pinVars, driverVolumeVars>>
     \/ part = "stream" /\ StreamNext /\ UNCHANGED <<deviceVars, pinVars, driverVolumeVars>>
     \/ part = "pin" /\ PinNext /\ UNCHANGED <<deviceVars, streamVars, driverVolumeVars>>
     \/ part = "volume" /\ DriverVolumeNext /\ UNCHANGED <<deviceVars, streamVars, pinVars>>
  /\ UNCHANGED part

\* The fairness of each part, for the behaviours that are about it.
DevicesSpec ==
  /\ DevicesInit /\ [][DevicesNext]_<<part, deviceVars, streamVars, pinVars, driverVolumeVars>>
  /\ \A t \in Threads : WF_deviceVars(part = "catalog" /\ publish(t))
  /\ WF_deviceVars(part = "catalog" /\ refresh_now)
  /\ WF_deviceVars(part = "catalog" /\ poll_and_refresh)
  /\ WF_deviceVars(part = "catalog" /\ Refreshing)
  /\ WF_streamVars(part = "stream" /\ Dpc)
  /\ WF_streamVars(part = "stream" /\ Proceed)

\* In a behaviour about the catalog, clients end up reading what Windows has
\* (CatalogFollowsDevices of DeviceCatalog: watcher, enumeration and publication).
CatalogCatchesUp == part = "catalog" => CatalogFollowsDevices
===============================================================================
