------------------------------- MODULE MCStreams -------------------------------
(***************************************************************************)
(* The ways of audio into the engine and out of it, one after the other in *)
(* one run: the ASIO transport, the tab bridge, the driver's packet ring,  *)
(* on its own and under the loopback of the preview, and the fan-out to    *)
(* two sinks, of which one has a fast clock and one a slow clock.  part    *)
(* says which of them a behaviour is about; the others keep their initial  *)
(* states.                                                                 *)
(***************************************************************************)
EXTENDS AsioTransport, TabBridge, DriverRing, OutputFanout

CONSTANTS daw, b1, b2

OneHost == {daw}
TwoBlocks == {b1, b2}
MCRegisters == {"request", "clock"} \X {1, 2}
MCTargets == {-2, 2}

VARIABLE part

asioVars == vars

StreamsInit ==
  /\ part \in {"asio", "tab", "ring", "loopback", "fanout"}
  /\ Init /\ TabInit /\ DriverInit /\ FanoutInit
  /\ part # "loopback" => sink = InputChannels
  /\ sinks[1] = NewSink(Grid)

StreamsNext ==
  /\ \/ part = "asio" /\ Next /\ UNCHANGED <<tabVars, driverVars, runtimeVars>>
     \/ part = "tab" /\ TabNext /\ UNCHANGED <<asioVars, driverVars, runtimeVars>>
     \/ part = "ring" /\ RingNext /\ UNCHANGED <<asioVars, tabVars, runtimeVars>>
     \/ part = "loopback" /\ LoopbackNext /\ UNCHANGED <<asioVars, tabVars, runtimeVars>>
     \/ part = "fanout" /\ FanoutNext /\ UNCHANGED <<asioVars, tabVars, driverVars>>
  /\ UNCHANGED part

\* The fairness of each part, for the behaviours that are about it.
StreamsSpec ==
  /\ StreamsInit /\ [][StreamsNext]_<<part, asioVars, tabVars, driverVars, runtimeVars>>
  /\ WF_asioVars(part = "asio" /\ Pop)
  /\ WF_tabVars(part = "tab" /\ Receiver)
  /\ WF_tabVars(part = "tab" /\ HostTurn)
  /\ WF_tabVars(part = "tab" /\ HostStop)
  /\ WF_tabVars(part = "tab" /\ RetryTimer)
  /\ \A s \in Sockets : WF_tabVars(part = "tab" /\ OnOpen(s)) /\ WF_tabVars(part = "tab" /\ OnClose(s))
  /\ WF_runtimeVars(part = "fanout" /\ AudioThread)
  /\ WF_runtimeVars(part = "fanout" /\ (ControlWrites \/ ControlReads \/ ControlReturns))
  /\ SF_runtimeVars(part = "fanout" /\ BlockTaken)
  /\ SF_runtimeVars(part = "fanout" /\ Render)

\* The two rings of packets are FIFOs that drop nothing they accepted, and every
\* round of the loopback leaves its ring empty (tab_bridge.cpp:109-163,
\* driver_stream_ring_v1.c:105-181, engine_preview.cpp:357-430).
PacketRingsAreFifos == RingIsFifo /\ PacketsInOrder /\ []LoopbackKeepsRingEmpty
===============================================================================
