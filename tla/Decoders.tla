------------------------------ MODULE Decoders ------------------------------
(***************************************************************************)
(* What the samples and bits of the digital services become: Mode S frames *)
(* (ModeS), the aircraft table (Aircraft), AIS messages (AisChannel), the  *)
(* vessel table (Vessels), and the bytes of a voice call (MuLaw).  They    *)
(* hand values on and share nothing: a behaviour exercises one stage, and  *)
(* the others rest.                                                        *)
(***************************************************************************)
EXTENDS ModeS, Aircraft, AisChannel, Vessels, MuLaw

VARIABLE stage

vars == <<stage, modeSVars, aircraftVars, channelVars, vesselVars, mulawVars>>

\* The input of a stage that rests is arbitrary and fixed.
Init ==
    /\ stage \in {"demod", "aircraft", "channel", "vessels", "mulaw"}
    /\ ModeSInit /\ (stage # "demod" => sent = {})
    /\ AircraftInit /\ (stage # "aircraft" => flight = CHOOSE f \in Starts : TRUE)
    /\ ChannelInit /\ (stage # "channel" => sending = CHOOSE t \in Transmissions : TRUE)
    /\ VesselsInit /\ MuLawInit

DemodStage == stage = "demod" /\ ModeSNext /\ UNCHANGED <<stage, aircraftVars, channelVars, vesselVars, mulawVars>>
AircraftStage == stage = "aircraft" /\ AircraftNext /\ UNCHANGED <<stage, modeSVars, channelVars, vesselVars, mulawVars>>
ChannelStage == stage = "channel" /\ ChannelNext /\ UNCHANGED <<stage, modeSVars, aircraftVars, vesselVars, mulawVars>>
VesselStage == stage = "vessels" /\ VesselsNext /\ UNCHANGED <<stage, modeSVars, aircraftVars, channelVars, mulawVars>>
MuLawStage == stage = "mulaw" /\ Pcm48ToMulaw8k /\ UNCHANGED <<stage, modeSVars, aircraftVars, channelVars, vesselVars>>

Next == DemodStage \/ AircraftStage \/ ChannelStage \/ VesselStage \/ MuLawStage

Spec == Init /\ [][Next]_vars
=============================================================================
