---------------------------- MODULE TuningProofs ----------------------------
(***************************************************************************)
(* Proofs about Tuning, for any clients, messages, frequencies, satellites *)
(* and bands: type correctness; the inductive invariant IInv, of which     *)
(* DigitalNeverDirect and ReportCoversSweep are parts; where the dongle is *)
(* once everything has settled, and while a full scan takes its records.   *)
(***************************************************************************)
EXTENDS Tuning, TLAPS

USE InputsAssumption, BandsAssumption
USE DEF radioVars, hardware, scanVars, listenVars, streamVars, clientVars,
        clientRest, rest

-----------------------------------------------------------------------------
(* The direct sampling mode                                                *)

\* Tuning for a digital service leaves the normal tuner mode behind.
LEMMA DigitalMode ==
  ASSUME ModeInv, UNCHANGED sdr, NEW t, NEW s, DigitalTune(t, s)
  PROVE  ModeInv'
  BY DEF ModeInv, DigitalNeverDirect, DigitalTune, NormalMode

LEMMA RadioMode ==
  ASSUME ModeInv, UNCHANGED sdr, NEW prev, RadioTune(prev)
  PROVE  ModeInv'
  <1> DEFINE cfg  == IF prev = "radio" THEN config ELSE Homed(config)
             mode == IF cfg.service = "radio" /\ cfg.direct # "off"
                     THEN cfg.direct ELSE appliedDirectMode
  <1>1. CASE sdr
    <2>1. /\ tunedBy' = "radio" /\ appliedDirectMode' = mode
          /\ directMode' = IF mode = appliedDirectMode THEN directMode ELSE mode
      BY <1>1 DEF RadioTune
    <2>2. appliedDirectMode = directMode
      BY <1>1 DEF ModeInv
    <2> HIDE DEF mode
    <2> QED  BY <2>1, <2>2 DEF ModeInv, DigitalNeverDirect
  <1>2. CASE ~sdr
    BY <1>2 DEF ModeInv, DigitalNeverDirect, RadioTune
  <1> QED  BY <1>1, <1>2

LEMMA ModeFrame ==
  ASSUME ModeInv, UNCHANGED <<sdr, tunedBy, directMode, appliedDirectMode>>
  PROVE  ModeInv'
  BY DEF ModeInv, DigitalNeverDirect

\* Whatever closure runs, on either goroutine.
LEMMA ExecuteMode ==
  ASSUME ModeInv, UNCHANGED sdr, NEW cmd, Execute(cmd)
  PROVE  ModeInv'
  <1>1. ASSUME NEW s, NEW prev, RunService(s, prev) PROVE ModeInv'
    <2>1. CASE s = "radio"
      BY <1>1, <2>1, RadioMode DEF RunService, applyServiceHardware
    <2>2. CASE s # "radio"
      BY <1>1, <2>2, DigitalMode DEF RunService, applyServiceHardware
    <2> QED  BY <2>1, <2>2
  <1>2. ASSUME NEW prev, RunLeave(prev) PROVE ModeInv'
    BY <1>2, RadioMode DEF RunLeave
  <1>3. ASSUME NEW full, RunScan(full) PROVE ModeInv'
    BY <1>3 DEF RunScan, BeginScan, ModeInv, DigitalNeverDirect, NormalMode
  <1>4. ASSUME RunStop PROVE ModeInv'
    BY <1>4, ModeFrame DEF RunStop
  <1>5. ASSUME NEW center, RunTune(center) PROVE ModeInv'
    BY <1>5 DEF RunTune, ModeInv, DigitalNeverDirect
  <1>6. ASSUME NEW rate, RunRate(rate) PROVE ModeInv'
    BY <1>6, ModeFrame DEF RunRate
  <1>7. ASSUME NEW s, NEW t, RunListen(s, t) PROVE ModeInv'
    BY <1>7, DigitalMode DEF RunListen
  <1>8. ASSUME NEW s, RunUnlisten(s) PROVE ModeInv'
    BY <1>8, ModeFrame DEF RunUnlisten
  <1>9. ASSUME RunTrack PROVE ModeInv'
    BY <1>9, DigitalMode, ModeFrame DEF RunTrack
  <1> QED  BY <1>1, <1>2, <1>3, <1>4, <1>5, <1>6, <1>7, <1>8, <1>9 DEF Execute

LEMMA ModeNext == ModeInv /\ [Next]_vars => ModeInv'
  <1> SUFFICES ASSUME ModeInv, [Next]_vars PROVE ModeInv'
    OBVIOUS
  <1>1. ASSUME NEW c \in Clients, Client(c) PROVE ModeInv'
    <2>1. CASE enqueue(c)
      <3>1. CASE running
        BY <2>1, <3>1, ModeFrame DEF enqueue
      <3>2. CASE ~running
        BY <2>1, <3>2, ExecuteMode DEF enqueue
      <3> QED  BY <3>1, <3>2
    <2>2. CASE ~enqueue(c)
      BY <1>1, <2>2, ModeFrame
         DEF Client, Tune, SampleRate, Service, StartScan, StopScan, Listen,
             Unlisten, Track, Power, SecondSetter
    <2> QED  BY <2>1, <2>2
  <1>2. ASSUME NEW c \in Clients, Stream(c) PROVE ModeInv'
    <2>1. CASE openDevice(c)
      BY <2>1 DEF openDevice, ModeInv, DigitalNeverDirect, desiredDirectMode
    <2>2. CASE CloseDevice(c)
      BY <2>2 DEF CloseDevice, ModeInv, DigitalNeverDirect
    <2>3. CASE ~openDevice(c) /\ ~CloseDevice(c)
      BY <1>2, <2>3, ModeFrame
         DEF Stream, LockStream, StopLoop, ReadConfig, AlreadyOpen, startRun,
             StartFails
    <2> QED  BY <2>1, <2>2, <2>3
  <1>3. ASSUME ReadLoop PROVE ModeInv'
    <2>1. CASE drainCommands
      BY <2>1, ExecuteMode DEF drainCommands
    <2>2. CASE BandDone
      BY <2>2 DEF BandDone, Retunes, ModeInv, DigitalNeverDirect, NormalMode
    <2>3. CASE processBlock \/ BlockDone \/ LastBandDone
      BY <2>3, ModeFrame DEF processBlock, BlockDone, LastBandDone
    <2> QED  BY <1>3, <2>1, <2>2, <2>3 DEF ReadLoop
  <1>4. CASE UNCHANGED vars
    BY <1>4, ModeFrame DEF vars
  <1> QED  BY <1>1, <1>2, <1>3, <1>4 DEF Next

\* The dongle is never in direct sampling after a digital service tuned it,
\* whatever setters, closures, scan steps and reopens come in which order.
THEOREM NormalModeForDigital == Spec => []DigitalNeverDirect
  <1>1. Init => ModeInv
    BY DEF Init, ModeInv, DigitalNeverDirect
  <1>2. ModeInv => DigitalNeverDirect
    BY DEF ModeInv
  <1> QED  BY <1>1, <1>2, ModeNext, PTL DEF Spec

-----------------------------------------------------------------------------
(* Types: the pure functions                                               *)

LEMMA AtType ==
  ASSUME NEW m \in Nat, NEW n \in Nat PROVE At(m, n) \in Tunings
  BY DEF At, Tunings

LEMMA FixedType ==
  ASSUME NEW s \in {"adsb", "ais", "apt", "lrpt", "meteor"}
  PROVE  FixedTuning[s] \in Tunings
  BY AtType DEF FixedTuning

LEMMA SyncType ==
  ASSUME NEW cfg \in Configs PROVE syncDirectSampling(cfg) \in Configs
  <1> DEFINE want == directSamplingForFreq(cfg.tune)
             rate == IF want = "Q"
                     THEN IF cfg.rate > 1024 THEN 1024 ELSE cfg.rate
                     ELSE IF cfg.rate < 1500 THEN 2048 ELSE cfg.rate
  <1>1. want \in Modes
    BY DEF directSamplingForFreq, Modes
  <1>2. rate \in Nat
    BY DEF Configs
  <1>3. syncDirectSampling(cfg) =
          IF cfg.direct = want THEN cfg
          ELSE [cfg EXCEPT !.direct = want, !.rate = rate]
    BY DEF syncDirectSampling
  <1> HIDE DEF want, rate
  <1> QED  BY <1>1, <1>2, <1>3 DEF Configs

LEMMA HomedType ==
  ASSUME NEW cfg \in Configs PROVE Homed(cfg) \in Configs
  <1>1. [cfg EXCEPT !.center = cfg.tune] \in Configs
    BY DEF Configs
  <1> QED  BY <1>1, SyncType DEF Homed

LEMMA ConfiguredType ==
  ASSUME NEW cfg \in Configs PROVE Configured(cfg) \in Tunings
  BY AtType DEF Configs, Configured

LEMMA SnapType ==
  ASSUME NEW f \in Nat, NEW cfg PROVE snapFreqForMode(f, cfg) \in Nat
  BY DEF snapFreqForMode, normalMin, normalMax, hfMin, hfMax

LEMMA EffectiveType ==
  ASSUME NEW cfg \in Configs PROVE effectiveTuning(cfg) \in Tunings
  <1>1. Bands[1] \in Tunings
    OBVIOUS
  <1>2. cfg.service \in AllServices
    BY DEF Configs
  <1> QED  BY <1>1, <1>2, FixedType, ConfiguredType
           DEF effectiveTuning, AllServices, Digital

LEMMA DirectType ==
  ASSUME NEW cfg \in Configs PROVE desiredDirectMode(cfg) \in Modes
  BY DEF desiredDirectMode, Configs, Modes

LEMMA PlanType ==
  ASSUME NEW full
  PROVE  /\ BandsOf(full) \in {Bands, SweepBands}
         /\ BandsOf(full) \in Seq(Tunings) /\ Len(BandsOf(full)) \in Nat \ {0}
         /\ \A i \in DOMAIN BandsOf(full) : BandsOf(full)[i] \in Tunings
         /\ DOMAIN BandsOf(full) \subseteq DOMAIN Bands \cup DOMAIN SweepBands
         /\ 1 \in DOMAIN BandsOf(full)
  BY DEF BandsOf

LEMMA BandTuningType == bandTuning \in Tunings
  <1>1. 1 \in DOMAIN bands /\ \A i \in DOMAIN bands : bands[i] \in Tunings
    BY PlanType DEF bands
  <1> QED  BY <1>1 DEF bandTuning

LEMMA NextIdxType ==
  ASSUME ScanType
  PROVE  NextIdx \in DOMAIN Bands \cup DOMAIN SweepBands /\ NextIdx \in DOMAIN bands
  <1> DEFINE p == BandsOf(fullScan /\ sweep)
  <1>1. p \in Seq(Tunings) /\ Len(p) \in Nat \ {0} /\ DOMAIN p = 1 .. Len(p)
        /\ DOMAIN p \subseteq DOMAIN Bands \cup DOMAIN SweepBands
    BY PlanType
  <1>2. bandIdx \in Nat \ {0}
    BY DEF ScanType
  <1>3. NextIdx = IF bandIdx + 1 > Len(p) THEN 1 ELSE bandIdx + 1
    BY DEF NextIdx, bands
  <1> HIDE DEF p
  <1>4. NextIdx \in DOMAIN p
    BY <1>1, <1>2, <1>3
  <1> QED  BY <1>1, <1>4 DEF p, bands

-----------------------------------------------------------------------------
(* Types: the closures                                                     *)

Kinds == {"overlap", "early", "foreign", "scan", "restart", "astray"}
OddType == odd \subseteq Kinds

LEMMA DigitalTuneType ==
  ASSUME RadioType, NEW t \in Tunings, NEW s \in AllServices, DigitalTune(t, s)
  PROVE  /\ dongle' \in Tunings /\ tunedBy' \in AllServices
         /\ directMode' \in Modes /\ appliedDirectMode' \in Modes
  BY DEF RadioType, DigitalTune, NormalMode, Modes

LEMMA RadioTuneType ==
  ASSUME RadioType, NEW prev, RadioTune(prev)
  PROVE  /\ config' \in Configs /\ dongle' \in Tunings /\ tunedBy' \in AllServices
         /\ directMode' \in Modes /\ appliedDirectMode' \in Modes
  <1> DEFINE cfg  == IF prev = "radio" THEN config ELSE Homed(config)
             mode == IF cfg.service = "radio" /\ cfg.direct # "off"
                     THEN cfg.direct ELSE appliedDirectMode
  <1>1. cfg \in Configs
    BY HomedType DEF RadioType
  <1>2. cfg.direct \in Modes /\ Configured(cfg) \in Tunings
    BY <1>1, ConfiguredType DEF Configs
  <1>3. mode \in Modes
    BY <1>2 DEF RadioType
  <1>4. CASE sdr
    <2>1. /\ config' = cfg /\ dongle' = Configured(cfg) /\ tunedBy' = "radio"
          /\ appliedDirectMode' = mode
          /\ directMode' = IF mode = appliedDirectMode THEN directMode ELSE mode
      BY <1>4 DEF RadioTune
    <2> HIDE DEF mode, cfg
    <2> QED  BY <2>1, <1>1, <1>2, <1>3 DEF RadioType, AllServices
  <1>5. CASE ~sdr
    BY <1>5 DEF RadioTune, RadioType
  <1> QED  BY <1>4, <1>5

\* A retuned band, of either plan.
LEMMA TuneBandType ==
  ASSUME config \in Configs, NEW d \in Tunings, NEW full, NEW i,
         TuneProtocolBand(d, BandsOf(full), i)
  PROVE  config' \in Configs /\ dongle' \in Tunings
  <1> DEFINE plan == BandsOf(full)
  <1>1. CASE Retunes(plan, i)
    <2>1. plan[i] \in Tunings
      BY <1>1, PlanType DEF Retunes
    <2>2. /\ config' = [config EXCEPT !.center = plan[i].center,
                                      !.rate = plan[i].rate]
          /\ dongle' = BandTuned(d, plan[i])
      BY <1>1 DEF TuneProtocolBand
    <2> HIDE DEF plan
    <2> QED  BY <2>1, <2>2 DEF BandTuned, At, Tunings, Configs
  <1>2. CASE ~Retunes(plan, i)
    BY <1>2 DEF TuneProtocolBand
  <1> QED  BY <1>1, <1>2

LEMMA ExecuteType ==
  ASSUME RadioType, ScanType, OddType, NEW cmd \in Commands, Execute(cmd),
         UNCHANGED <<opening, block, report>>
  PROVE  RadioType' /\ ScanType' /\ OddType'
  <1> USE DEF OddType, Kinds
  <1>1. CASE cmd.op = "service" /\ RunService(cmd.s, cmd.prev)
    <2>1. cmd.s \in AllServices
      BY <1>1 DEF Commands
    <2>2. ScanType' /\ OddType'
      BY <1>1 DEF RunService, ScanType
    <2>3. active' \subseteq Listeners /\ UNCHANGED satellite
      BY <1>1 DEF RunService, RadioType
    <2>4. CASE cmd.s = "radio"
      BY <1>1, <2>2, <2>3, <2>4, RadioTuneType
         DEF RunService, applyServiceHardware, RadioType
    <2>5. CASE cmd.s # "radio"
      <3> DEFINE t == IF cmd.s = "protocol" THEN bandTuning
                                            ELSE effectiveTuning(config)
      <3>1. t \in Tunings
        BY BandTuningType, EffectiveType DEF RadioType
      <3>2. DigitalTune(t, cmd.s) /\ UNCHANGED config
        BY <1>1, <2>5 DEF RunService, applyServiceHardware
      <3> HIDE DEF t
      <3> QED  BY <2>1, <2>2, <2>3, <3>1, <3>2, DigitalTuneType DEF RadioType
    <2> QED  BY <2>4, <2>5
  <1>2. CASE cmd.op = "leave" /\ RunLeave(cmd.prev)
    BY <1>2, RadioTuneType DEF RunLeave, RadioType, ScanType
  <1>3. CASE cmd.op = "scan" /\ RunScan(cmd.full)
    <2> DEFINE d == IF sdr THEN bandTuning ELSE dongle
    <2>1. cmd.full \in BOOLEAN
      BY <1>3 DEF Commands
    <2>2. d \in Tunings
      BY BandTuningType DEF RadioType
    <2>3. TuneProtocolBand(d, BandsOf(cmd.full), 1)
      BY <1>3 DEF RunScan, BeginScan
    <2> HIDE DEF d
    <2>4. config' \in Configs /\ dongle' \in Tunings
      BY <2>2, <2>3, TuneBandType DEF RadioType
    <2>5. RadioType'
      BY <1>3, <2>4 DEF RunScan, BeginScan, RadioType, NormalMode, Modes,
                        AllServices, Digital
    <2>6. 1 \in DOMAIN Bands
      OBVIOUS
    <2>7. ScanType'
      BY <1>3, <2>1, <2>6 DEF RunScan, BeginScan, ScanType
    <2>8. OddType'
      BY <1>3 DEF RunScan, BeginScan, Begun
    <2> QED  BY <2>5, <2>7, <2>8
  <1>4. CASE cmd.op = "stop" /\ RunStop
    BY <1>4 DEF RunStop, RadioType, ScanType
  <1>5. CASE cmd.op = "tune" /\ RunTune(cmd.center)
    <2>1. cmd.center \in Nat
      BY <1>5 DEF Commands
    <2>2. snapFreqForMode(cmd.center, config) \in Nat
      BY <2>1, SnapType
    <2> QED  BY <1>5, <2>2 DEF RunTune, RadioType, ScanType, Tunings, AllServices
  <1>6. CASE cmd.op = "rate" /\ RunRate(cmd.rate)
    <2>1. cmd.rate \in Nat
      BY <1>6 DEF Commands
    <2> QED  BY <1>6, <2>1 DEF RunRate, RadioType, ScanType, Tunings
  <1>7. CASE cmd.op = "listen" /\ RunListen(cmd.s, cmd.at)
    <2>1. cmd.s \in Listeners /\ cmd.s \in AllServices /\ cmd.at \in Tunings
      BY <1>7 DEF Commands, Listeners, AllServices, Digital
    <2> QED  BY <1>7, <2>1, DigitalTuneType
             DEF RunListen, RadioType, ScanType, Foreign
  <1>8. CASE cmd.op = "unlisten" /\ RunUnlisten(cmd.s)
    BY <1>8 DEF RunUnlisten, RadioType, ScanType
  <1>9. CASE cmd.op = "track" /\ RunTrack
    <2>1. "meteor" \in AllServices
      BY DEF AllServices, Digital
    <2> QED  BY <1>9, <2>1, DigitalTuneType
             DEF RunTrack, RadioType, ScanType, Foreign
  <1> QED  BY <1>1, <1>2, <1>3, <1>4, <1>5, <1>6, <1>7, <1>8, <1>9 DEF Execute

-----------------------------------------------------------------------------
(* Types: the setters                                                      *)

LEMMA CommandTypes ==
  /\ \A s \in AllServices, prev \in AllServices : ServiceCmd(s, prev) \in Commands
  /\ \A prev \in AllServices : LeaveCmd(prev) \in Commands
  /\ \A full \in BOOLEAN : ScanCmd(full) \in Commands
  /\ StopCmd \in Commands /\ TrackCmd \in Commands
  /\ \A f \in Nat : TuneCmd(f) \in Commands /\ RateCmd(f) \in Commands
  /\ \A s \in Listeners, t \in Tunings : ListenCmd(s, t) \in Commands
  /\ \A s \in Listeners : UnlistenCmd(s) \in Commands
  BY DEF Commands, ServiceCmd, LeaveCmd, ScanCmd, StopCmd, TrackCmd, TuneCmd,
         RateCmd, ListenCmd, UnlistenCmd

LEMMA OdditiesType == ASSUME NEW c PROVE Oddities(c) \subseteq Kinds
  BY DEF Oddities, Overlap, Kinds

\* What a setter leaves of the types of config, out, stage and odd.
SetterType == /\ config' \in Configs
              /\ out' \in [Clients -> Commands \cup {NoCmd}]
              /\ stage' \in [Clients -> Stages]
              /\ OddType'

LEMMA ConfigureType ==
  ASSUME TypeOK, NEW c \in Clients, NEW cfg \in Configs,
         NEW cmd \in Commands \cup {NoCmd}, NEW kinds \in SUBSET Kinds,
         Configure(c, cfg, cmd, kinds), UNCHANGED stage
  PROVE  SetterType
  BY OdditiesType DEF Configure, SetterType, TypeOK, ClientType, StreamType,
                      OddType, Kinds

LEMMA ReconfigureType ==
  ASSUME TypeOK, NEW c \in Clients, NEW cfg \in Configs, Reconfigure(c, cfg),
         UNCHANGED out
  PROVE  SetterType
  BY OdditiesType DEF Reconfigure, SetterType, TypeOK, ClientType, StreamType,
                      OddType, Kinds, Stages

LEMMA QueueOnlyType ==
  ASSUME TypeOK, NEW c \in Clients, NEW cmd \in Commands \cup {NoCmd},
         EnqueueOnly(c, cmd), UNCHANGED stage
  PROVE  SetterType
  BY DEF EnqueueOnly, SetterType, TypeOK, RadioType, ClientType, StreamType,
         OddType, Kinds

LEMMA TuneFreqType ==
  ASSUME TypeOK, NEW c \in Clients, NEW freq \in Nat, SetTuneFreq(c, freq)
  PROVE  SetterType
  <1> DEFINE cfg == syncDirectSampling([config EXCEPT !.tune = freq])
             far == \/ (freq - cfg.center) * 100 > cfg.rate * 45
                    \/ (cfg.center - freq) * 100 > cfg.rate * 45
             new == IF far THEN [cfg EXCEPT !.center = freq] ELSE cfg
             cmd == IF far THEN TuneCmd(freq) ELSE NoCmd
  <1>1. [config EXCEPT !.tune = freq] \in Configs
    BY DEF TypeOK, RadioType, Configs
  <1>2. cfg \in Configs
    BY <1>1, SyncType
  <1>3. \/ Reconfigure(c, new) /\ UNCHANGED out
        \/ Configure(c, new, cmd, {}) /\ UNCHANGED stage
    BY DEF SetTuneFreq
  <1>4. cmd \in Commands \cup {NoCmd}
    BY CommandTypes
  <1> HIDE DEF cfg, far, cmd
  <1>5. new \in Configs
    BY <1>2 DEF Configs
  <1> HIDE DEF new
  <1> QED  BY <1>3, <1>4, <1>5, ReconfigureType, ConfigureType

LEMMA CenterFreqType ==
  ASSUME TypeOK, NEW c \in Clients, NEW freq \in Nat, SetCenterFreq(c, freq)
  PROVE  SetterType
  <1> DEFINE cfg == [syncDirectSampling(config) EXCEPT !.center = freq]
  <1>1. cfg \in Configs
    BY SyncType DEF TypeOK, RadioType, Configs
  <1>2. \/ Reconfigure(c, cfg) /\ UNCHANGED out
        \/ Configure(c, cfg, TuneCmd(freq), {}) /\ UNCHANGED stage
    BY DEF SetCenterFreq
  <1> HIDE DEF cfg
  <1> QED  BY <1>1, <1>2, CommandTypes, ReconfigureType, ConfigureType

LEMMA ServiceSetterType ==
  ASSUME TypeOK, NEW c \in Clients, NEW s \in AllServices, SetService(c, s),
         UNCHANGED stage
  PROVE  SetterType
  <1> DEFINE cfg == [config EXCEPT !.service = s]
             new == IF s = "radio" /\ config.service # "radio"
                    THEN Homed(cfg) ELSE cfg
  <1>1. config \in Configs /\ cfg \in Configs /\ config.service \in AllServices
    BY DEF TypeOK, RadioType, Configs
  <1>2. new \in Configs
    BY <1>1, HomedType
  <1>3. Configure(c, new, ServiceCmd(s, config.service), {"scan"})
    BY DEF SetService
  <1> HIDE DEF cfg, new
  <1> QED  BY <1>1, <1>2, <1>3, CommandTypes, ConfigureType DEF Kinds

LEMMA LeaveSetterType ==
  ASSUME TypeOK, NEW c \in Clients, switchToRadioFromProtocol(c), UNCHANGED stage
  PROVE  SetterType
  <1> DEFINE cfg == [config EXCEPT !.service = "radio"]
  <1>1. CASE config.service = "radio"
    BY <1>1 DEF switchToRadioFromProtocol, SetterType, TypeOK, RadioType,
                ClientType, StreamType, OddType, Kinds
  <1>2. CASE config.service # "radio"
    <2>1. cfg \in Configs /\ config.service \in AllServices
      BY DEF TypeOK, RadioType, Configs, AllServices
    <2>2. Configure(c, Homed(cfg), LeaveCmd(config.service), {"scan"})
      BY <1>2 DEF switchToRadioFromProtocol
    <2> HIDE DEF cfg
    <2> QED  BY <2>1, <2>2, HomedType, CommandTypes, ConfigureType DEF Kinds
  <1> QED  BY <1>1, <1>2

\* A message that is one or two setters and touches nothing else.
LEMMA MessageType ==
  ASSUME TypeOK, SetterType, UNCHANGED rest,
         UNCHANGED <<sweep, bandIdx>> \/
           (sweep' \in BOOLEAN /\ bandIdx' = 1),
         msgs' \in 0 .. MaxMsgs,
         then' \in [Clients -> [call : {"leave"}]
                               \cup [call : {"listen"}, cmd : Commands] \cup {NoCall}]
  PROVE  TypeOK'
  <1>1. RadioType'
    BY DEF TypeOK, SetterType, RadioType
  <1>2. ScanType'
    <2>1. 1 \in DOMAIN Bands
      OBVIOUS
    <2> QED  BY <2>1 DEF TypeOK, ScanType
  <1>3. StreamType' /\ ClientType'
    BY DEF TypeOK, SetterType, StreamType, ClientType, OddType, Kinds
  <1> QED  BY <1>1, <1>2, <1>3 DEF TypeOK

LEMMA ClientTypes ==
  ASSUME TypeOK, NEW c \in Clients, Client(c)
  PROVE  TypeOK'
  <1>1. ASSUME Message(c) PROVE msgs' \in 0 .. MaxMsgs
    BY <1>1 DEF Message, TypeOK, ClientType
  <1>2. Services \subseteq AllServices /\ Listeners \subseteq AllServices
        /\ Digital \subseteq AllServices
    BY DEF AllServices, Listeners, Digital
  <1> DEFINE T == [Clients -> [call : {"leave"}]
                              \cup [call : {"listen"}, cmd : Commands] \cup {NoCall}]
  <1>3. then \in T
    BY DEF TypeOK, ClientType
  <1>4. CASE Tune(c)
    BY <1>1, <1>3, <1>4, TuneFreqType, CenterFreqType, MessageType DEF Tune
  <1>5. CASE SampleRate(c)
    <2>1. PICK rate \in Rates : SetSampleRate(c, rate)
      BY <1>5 DEF SampleRate
    <2>2. [config EXCEPT !.rate = rate] \in Configs
      BY DEF TypeOK, RadioType, Configs
    <2>3. SetterType
      BY <1>5, <2>1, <2>2, CommandTypes, ConfigureType
         DEF SampleRate, SetSampleRate, Kinds
    <2> QED  BY <1>1, <1>3, <1>5, <2>3, MessageType DEF SampleRate
  <1>6. CASE Service(c)
    BY <1>1, <1>2, <1>3, <1>6, ServiceSetterType, MessageType DEF Service
  <1>7. CASE StartScan(c)
    <2>1. PICK full \in ScanKinds : switchToProtocolService(c, full)
      BY <1>7 DEF StartScan
    <2>2. [config EXCEPT !.service = "protocol"] \in Configs
      BY DEF TypeOK, RadioType, Configs, AllServices, Digital
    <2>3. SetterType
      BY <1>7, <2>1, <2>2, CommandTypes, ConfigureType
         DEF StartScan, switchToProtocolService, Kinds
    <2> QED  BY <1>1, <1>3, <1>7, <2>1, <2>3, MessageType
             DEF StartScan, switchToProtocolService
  <1>8. CASE StopScan(c)
    <2>1. SetterType
      BY <1>8, CommandTypes, QueueOnlyType DEF StopScan
    <2>2. then' \in T
      BY <1>3, <1>8 DEF StopScan
    <2> QED  BY <1>1, <1>8, <2>1, <2>2, MessageType DEF StopScan
  <1>9. CASE Listen(c)
    <2>1. PICK s \in Services \cap Listeners :
            \E t \in IF s = "meteor" THEN Satellites ELSE {FixedTuning[s]} :
               /\ SetService(c, s)
               /\ then' = [then EXCEPT ![c] = [call |-> "listen",
                                               cmd |-> ListenCmd(s, t)]]
      BY <1>9 DEF Listen
    <2>2. PICK t \in IF s = "meteor" THEN Satellites ELSE {FixedTuning[s]} :
               /\ SetService(c, s)
               /\ then' = [then EXCEPT ![c] = [call |-> "listen",
                                               cmd |-> ListenCmd(s, t)]]
      BY <2>1
    <2>3. t \in Tunings
      BY FixedType DEF Listeners
    <2>4. ListenCmd(s, t) \in Commands
      BY <2>3, CommandTypes
    <2>5. then' \in T
      BY <1>3, <2>2, <2>4
    <2>6. SetterType
      BY <1>2, <1>9, <2>2, ServiceSetterType DEF Listen
    <2> QED  BY <1>1, <1>9, <2>5, <2>6, MessageType DEF Listen
  <1>10. CASE Unlisten(c)
    BY <1>1, <1>3, <1>10, CommandTypes, QueueOnlyType, MessageType DEF Unlisten
  <1>11. CASE Track(c)
    BY <1>1, <1>3, <1>11, CommandTypes, QueueOnlyType, MessageType DEF Track
  <1>12. CASE Power(c)
    <2>1. SetterType
      BY <1>12 DEF Power, SetterType, TypeOK, RadioType, ClientType, StreamType,
                   OddType, Kinds, Stages
    <2> QED  BY <1>1, <1>3, <1>12, <2>1, MessageType DEF Power
  <1>13. CASE SecondSetter(c)
    <2>1. then' \in T /\ msgs' \in 0 .. MaxMsgs
      BY <1>3, <1>13 DEF SecondSetter, TypeOK, ClientType
    <2>2. then[c] \in [call : {"leave"}] \cup [call : {"listen"}, cmd : Commands]
      BY <1>3, <1>13 DEF SecondSetter
    <2>3. SetterType
      <3>1. CASE then[c].call = "leave"
        BY <1>13, <3>1, LeaveSetterType DEF SecondSetter
      <3>2. CASE then[c].call # "leave"
        BY <1>13, <2>2, <3>2, QueueOnlyType DEF SecondSetter
      <3> QED  BY <3>1, <3>2
    <2> QED  BY <1>13, <2>1, <2>3, MessageType DEF SecondSetter
  <1>14. CASE enqueue(c)
    <2>1. out[c] \in Commands
      BY <1>14 DEF enqueue, TypeOK, ClientType
    <2>2. out' \in [Clients -> Commands \cup {NoCmd}]
      BY <1>14 DEF enqueue, TypeOK, ClientType
    <2>3. StreamType' /\ UNCHANGED <<opening, block, report, then, msgs>>
      BY <1>14 DEF enqueue, TypeOK, StreamType
    <2>4. CASE running
      <3>1. cmdCh' \in Seq(Commands)
        <4>1. cmdCh \in Seq(Commands)
          BY DEF TypeOK, ClientType
        <4>2. cmdCh' = Append(cmdCh, out[c])
          BY <1>14, <2>4 DEF enqueue
        <4> QED  BY <2>1, <4>1, <4>2
      <3>2. RadioType' /\ ScanType'
        BY <1>14, <2>4 DEF enqueue, TypeOK, RadioType, ScanType
      <3> QED  BY <1>14, <2>2, <2>3, <2>4, <3>1, <3>2
               DEF enqueue, TypeOK, ClientType
    <2>5. CASE ~running
      <3>1. Execute(out[c]) /\ UNCHANGED cmdCh
        BY <1>14, <2>5 DEF enqueue
      <3>2. RadioType' /\ ScanType' /\ OddType'
        BY <2>1, <2>3, <3>1, ExecuteType DEF TypeOK, ClientType, OddType, Kinds
      <3> QED  BY <2>2, <2>3, <3>1, <3>2 DEF TypeOK, ClientType, OddType, Kinds
    <2> QED  BY <2>4, <2>5
  <1> QED  BY <1>4, <1>5, <1>6, <1>7, <1>8, <1>9, <1>10, <1>11, <1>12, <1>13,
              <1>14 DEF Client

-----------------------------------------------------------------------------
(* Types: the streams and the read goroutine                               *)

LEMMA GotoType ==
  ASSUME TypeOK, NEW c \in Clients, NEW s \in Stages, Goto(c, s)
  PROVE  stage' \in [Clients -> Stages]
  BY DEF Goto, TypeOK, StreamType

LEMMA FinishType ==
  ASSUME TypeOK, NEW c \in Clients, Finish(c)
  PROVE  stage' \in [Clients -> Stages] /\ streamMu' = NoOne
  BY GotoType DEF Finish, Stages

LEMMA OpenTuningType ==
  ASSUME NEW cfg \in Configs PROVE OpenTuning(cfg) \in Tunings
  BY BandTuningType, EffectiveType DEF OpenTuning

\* The band of a scan, and nothing else, is written into the configuration.
LEMMA BandWrittenIs ==
  ASSUME TypeOK
  PROVE  /\ BandWritten \in Configs
         /\ BandWritten.service = config.service /\ BandWritten.tune = config.tune
         /\ BandWritten.direct = config.direct
         /\ opening.service # "protocol" => BandWritten = config
         /\ opening.service = "protocol" => Configured(BandWritten) = bandTuning
  <1>1. config \in Configs
    BY DEF TypeOK, RadioType
  <1>2. bandTuning.center \in Nat /\ bandTuning.rate \in Nat
    BY BandTuningType DEF Tunings
  <1>3. CASE opening.service = "protocol"
    <2>1. BandWritten = [config EXCEPT !.center = bandTuning.center, !.rate = bandTuning.rate]
      BY <1>3 DEF BandWritten
    <2>2. /\ BandWritten \in Configs
          /\ BandWritten.center = bandTuning.center /\ BandWritten.rate = bandTuning.rate
          /\ BandWritten.service = config.service /\ BandWritten.tune = config.tune
          /\ BandWritten.direct = config.direct
      BY <1>1, <1>2, <2>1 DEF Configs
    <2>3. At(bandTuning.center, bandTuning.rate) = bandTuning
      BY BandTuningType DEF At, Tunings
    <2> QED  BY <1>3, <2>2, <2>3 DEF Configured
  <1>4. CASE opening.service # "protocol"
    BY <1>1, <1>4 DEF BandWritten
  <1> QED  BY <1>3, <1>4

LEMMA StreamTypes ==
  ASSUME TypeOK, NEW c \in Clients, Stream(c)
  PROVE  TypeOK'
  <1>1. CASE LockStream(c)
    <2>1. stage' \in [Clients -> Stages]
      BY <1>1, GotoType DEF LockStream, Stages
    <2>2. enabled' \in BOOLEAN
      BY <1>1 DEF LockStream, TypeOK, StreamType
    <2>3. cmdCh' \in Seq(Commands)
      BY <1>1 DEF LockStream, TypeOK, ClientType
    <2>4. odd' \subseteq Kinds
      BY <1>1 DEF LockStream, Overlap, TypeOK, ClientType, Kinds
    <2> QED  BY <1>1, <2>1, <2>2, <2>3, <2>4
             DEF LockStream, TypeOK, RadioType, ScanType, StreamType, ClientType,
                 Kinds
  <1>2. CASE StopLoop(c)
    <2>1. stage' \in [Clients -> Stages]
      BY <1>2, GotoType DEF StopLoop, Stages
    <2> QED  BY <1>2, <2>1
             DEF StopLoop, TypeOK, RadioType, ScanType, StreamType, ClientType
  <1>3. CASE CloseDevice(c)
    <2>1. stage' \in [Clients -> Stages] /\ streamMu' \in Clients \cup {NoOne}
      BY <1>3, GotoType, FinishType DEF CloseDevice, Stages, TypeOK, StreamType
    <2> QED  BY <1>3, <2>1
             DEF CloseDevice, TypeOK, RadioType, ScanType, StreamType, ClientType
  <1>4. CASE ReadConfig(c)
    <2>1. stage' \in [Clients -> Stages]
      BY <1>4, GotoType DEF ReadConfig, Stages
    <2>2. config \in Configs /\ opening' = config
      BY <1>4 DEF ReadConfig, TypeOK, RadioType
    <2> QED  BY <1>4, <2>1, <2>2
             DEF ReadConfig, TypeOK, RadioType, ScanType, StreamType, ClientType
  <1>5. CASE openDevice(c)
    <2>1. stage' \in [Clients -> Stages]
      BY <1>5, GotoType DEF openDevice, Stages
    <2>2. opening \in Configs /\ opening.service \in AllServices
      BY DEF TypeOK, RadioType, Configs
    <2>3. /\ dongle' \in Tunings /\ tunedBy' \in AllServices
          /\ directMode' \in Modes /\ appliedDirectMode' \in Modes
      BY <1>5, <2>2, OpenTuningType, DirectType DEF openDevice
    <2>4. odd' \subseteq Kinds
      BY <1>5 DEF openDevice, TypeOK, ClientType, Kinds
    <2>5. config' \in Configs
      BY <1>5, BandWrittenIs DEF openDevice
    <2> QED  BY <1>5, <2>1, <2>3, <2>4, <2>5
             DEF openDevice, TypeOK, RadioType, ScanType, StreamType, ClientType,
                 Kinds
  <1>6. CASE AlreadyOpen(c)
    <2>1. stage' \in [Clients -> Stages] /\ streamMu' \in Clients \cup {NoOne}
      BY <1>6, GotoType, FinishType DEF AlreadyOpen, Stages, TypeOK, StreamType
    <2> QED  BY <1>6, <2>1
             DEF AlreadyOpen, TypeOK, RadioType, ScanType, StreamType, ClientType
  <1>7. CASE startRun(c)
    BY <1>7, FinishType
       DEF startRun, TypeOK, RadioType, ScanType, StreamType, ClientType
  <1>8. CASE StartFails(c)
    <2>1. config' \in Configs
      BY <1>8, BandWrittenIs DEF StartFails, TypeOK, RadioType
    <2> QED  BY <1>8, <2>1, FinishType
       DEF StartFails, TypeOK, RadioType, ScanType, StreamType, ClientType
  <1> QED  BY <1>1, <1>2, <1>3, <1>4, <1>5, <1>6, <1>7, <1>8 DEF Stream

LEMMA RecordedType ==
  ASSUME TypeOK, block # NoBlock
  PROVE  /\ Recorded \in Seq([band : Tunings, at : Tunings])
         /\ Len(Recorded) = Len(bandRecords) + 1
         /\ Recorded[Len(Recorded)].band = block.band
         /\ \A n \in DOMAIN bandRecords : Recorded[n] = bandRecords[n]
  <1> DEFINE r == [band |-> block.band, at |-> dongle]
             R == [band : Tunings, at : Tunings]
  <1>1. block.band \in Tunings /\ dongle \in Tunings
    BY DEF TypeOK, RadioType, ScanType
  <1>2. r \in R /\ r.band = block.band
    BY <1>1
  <1>3. bandRecords \in Seq(R)
    BY DEF TypeOK, ScanType
  <1>4. Recorded = Append(bandRecords, r)
    BY DEF Recorded
  <1> HIDE DEF r, R
  <1>5. /\ Recorded \in Seq(R) /\ Len(Recorded) = Len(bandRecords) + 1
        /\ Recorded[Len(Recorded)] = r
        /\ \A n \in DOMAIN bandRecords : Recorded[n] = bandRecords[n]
    BY <1>2, <1>3, <1>4
  <1> QED  BY <1>2, <1>5 DEF R

LEMMA ReadLoopTypes ==
  ASSUME TypeOK, ReadLoop
  PROVE  TypeOK'
  <1>1. CASE drainCommands
    <2>1. cmdCh \in Seq(Commands) /\ cmdCh # <<>>
      BY <1>1 DEF drainCommands, TypeOK, ClientType
    <2>2. Head(cmdCh) \in Commands /\ Tail(cmdCh) \in Seq(Commands)
      BY <2>1
    <2>3. Execute(Head(cmdCh)) /\ cmdCh' = Tail(cmdCh)
          /\ UNCHANGED <<opening, block, report>>
      BY <1>1 DEF drainCommands
    <2>4. RadioType' /\ ScanType' /\ OddType'
      BY <2>2, <2>3, ExecuteType DEF TypeOK, ClientType, OddType, Kinds
    <2>5. StreamType'
      BY <1>1 DEF drainCommands, TypeOK, StreamType
    <2>6. ClientType'
      BY <1>1, <2>2, <2>3, <2>4 DEF drainCommands, TypeOK, ClientType, OddType, Kinds
    <2> QED  BY <2>4, <2>5, <2>6 DEF TypeOK
  <1>2. CASE processBlock
    <2>1. block' \in [bands : {Bands, SweepBands}, band : Tunings]
      BY <1>2, PlanType DEF processBlock, bands
    <2> QED  BY <1>2, <2>1
             DEF processBlock, TypeOK, RadioType, ScanType, StreamType, ClientType
  <1>3. CASE BlockDone
    BY <1>3 DEF BlockDone, TypeOK, RadioType, ScanType, StreamType, ClientType
  <1>4. CASE LastBandDone
    <2>1. Recorded \in Seq([band : Tunings, at : Tunings])
      BY <1>4, RecordedType DEF LastBandDone
    <2>2. [i \in DOMAIN Recorded |-> Recorded[i].band] \in Seq(Tunings)
      <3> DEFINE r == Recorded
                 R == [band : Tunings, at : Tunings]
      <3>a. \A x \in R : x.band \in Tunings
        OBVIOUS
      <3>b. r \in Seq(R)
        BY <2>1
      <3> HIDE DEF r, R
      <3>1. Len(r) \in Nat /\ DOMAIN r = 1 .. Len(r)
            /\ \A i \in 1 .. Len(r) : r[i].band \in Tunings
        BY <3>a, <3>b
      <3>2. [i \in 1 .. Len(r) |-> r[i].band] \in Seq(Tunings)
        BY <3>1
      <3> QED  BY <3>1, <3>2 DEF r
    <2>3. report' \in [bands : Seq(Tunings), clean : BOOLEAN]
      BY <1>4, <2>2 DEF LastBandDone
    <2>4. ScanType'
      BY <1>4, <2>1, <2>3 DEF LastBandDone, TypeOK, ScanType
    <2> QED  BY <1>4, <2>4
             DEF LastBandDone, TypeOK, RadioType, StreamType, ClientType
  <1>5. CASE BandDone
    <2>1. Recorded \in Seq([band : Tunings, at : Tunings])
      BY <1>5, RecordedType DEF BandDone
    <2>2. NextIdx \in DOMAIN Bands \cup DOMAIN SweepBands
      BY NextIdxType DEF TypeOK
    <2>3. ScanType'
      BY <1>5, <2>1, <2>2 DEF BandDone, TypeOK, ScanType
    <2>4. TuneProtocolBand(dongle, BandsOf(fullScan /\ sweep), NextIdx)
      BY <1>5 DEF BandDone, bands
    <2>5. config' \in Configs /\ dongle' \in Tunings
      BY <2>4, TuneBandType DEF TypeOK, RadioType
    <2>6. /\ tunedBy' \in AllServices /\ directMode' \in Modes
          /\ appliedDirectMode' \in Modes
      BY <1>5 DEF BandDone, Retunes, NormalMode, TypeOK, RadioType, Modes,
                  AllServices, Digital
    <2>7. RadioType'
      BY <1>5, <2>5, <2>6 DEF BandDone, TypeOK, RadioType
    <2> QED  BY <1>5, <2>3, <2>7 DEF BandDone, TypeOK, StreamType, ClientType
  <1> QED  BY <1>1, <1>2, <1>3, <1>4, <1>5 DEF ReadLoop

LEMMA InitType == Init => TypeOK
  <1> SUFFICES ASSUME Init PROVE TypeOK
    OBVIOUS
  <1>1. DefaultConfig \in Configs
    BY SMT DEF DefaultConfig, Configs, AllServices, Modes
  <1>2. Configured(DefaultConfig) \in Tunings /\ FixedTuning["meteor"] \in Tunings
    BY <1>1, ConfiguredType, FixedType
  <1>3. RadioType
    BY <1>1, <1>2 DEF Init, RadioType, AllServices, Modes
  <1>4. ScanType
    <2>1. 1 \in DOMAIN Bands
      OBVIOUS
    <2>2. bandIdx \in DOMAIN Bands \cup DOMAIN SweepBands
      BY <2>1 DEF Init
    <2>3. bandRecords \in Seq([band : Tunings, at : Tunings])
      BY DEF Init
    <2>4. report \in [bands : Seq(Tunings), clean : BOOLEAN]
      BY DEF Init
    <2>5. listening \in BOOLEAN /\ fullScan \in BOOLEAN /\ sweep \in BOOLEAN
      BY Zenon DEF Init
    <2>6. block \in [bands : {Bands, SweepBands}, band : Tunings] \cup {NoBlock}
      BY Zenon DEF Init
    <2> QED  BY <2>2, <2>3, <2>4, <2>5, <2>6, Zenon DEF ScanType
  <1>5. StreamType
    BY DEF Init, StreamType, Stages
  <1>6. ClientType
    BY DEF Init, ClientType
  <1> QED  BY <1>3, <1>4, <1>5, <1>6 DEF TypeOK

LEMMA TypeNext == TypeOK /\ [Next]_vars => TypeOK'
  <1> SUFFICES ASSUME TypeOK, [Next]_vars PROVE TypeOK'
    OBVIOUS
  <1>1. CASE UNCHANGED vars
    BY <1>1 DEF vars, TypeOK, RadioType, ScanType, StreamType, ClientType
  <1> QED  BY <1>1, ClientTypes, StreamTypes, ReadLoopTypes DEF Next

\* Every variable keeps its type, for any number of messages.
THEOREM TypeCorrect == Spec => []TypeOK
  BY InitType, TypeNext, PTL DEF Spec

-----------------------------------------------------------------------------
(* The holder of streamMu, the read loop and the block it processes        *)

LEMMA LoopFrame ==
  ASSUME LoopInv, UNCHANGED <<stage, streamMu, live, running, block>>
  PROVE  LoopInv'
  BY DEF LoopInv

\* A client that is idle goes to a stage that does not hold streamMu.
LEMMA LoopClient ==
  ASSUME TypeOK, LoopInv, NEW c \in Clients, Client(c)
  PROVE  LoopInv'
  <1>1. UNCHANGED <<streamMu, live, running, block>>
    BY DEF Client, Tune, SampleRate, Service, StartScan, StopScan, Listen, Unlisten,
           Track, Power, SecondSetter, enqueue
  <1>2. UNCHANGED stage
        \/ \E s \in {"reopen", "on", "off"} : stage' = [stage EXCEPT ![c] = s]
    BY DEF Client, Tune, SampleRate, Service, StartScan, StopScan, Listen, Unlisten,
           Track, Power, SecondSetter, enqueue, SetTuneFreq, SetCenterFreq,
           Reconfigure
  <1>3. stage \in [Clients -> Stages]
    BY DEF TypeOK, StreamType
  <1> QED  BY <1>1, <1>2, <1>3 DEF LoopInv

LEMMA LoopStream ==
  ASSUME TypeOK, LoopInv, NEW c \in Clients, Stream(c)
  PROVE  LoopInv'
  <1> USE DEF LoopInv, Goto, Finish
  <1>1. stage \in [Clients -> Stages]
    BY DEF TypeOK, StreamType
  <1>2. CASE LockStream(c)
    BY <1>1, <1>2 DEF LockStream
  <1>3. CASE StopLoop(c)
    BY <1>1, <1>3 DEF StopLoop
  <1>4. CASE CloseDevice(c)
    BY <1>1, <1>4 DEF CloseDevice
  <1>5. CASE ReadConfig(c)
    BY <1>1, <1>5 DEF ReadConfig
  <1>6. CASE openDevice(c)
    BY <1>1, <1>6 DEF openDevice
  <1>7. CASE AlreadyOpen(c)
    BY <1>1, <1>7 DEF AlreadyOpen
  <1>8. CASE startRun(c)
    BY <1>1, <1>8 DEF startRun
  <1>9. CASE StartFails(c)
    BY <1>1, <1>9 DEF StartFails
  <1> QED  BY <1>2, <1>3, <1>4, <1>5, <1>6, <1>7, <1>8, <1>9 DEF Stream

LEMMA LoopNext == TypeOK /\ LoopInv /\ [Next]_vars => LoopInv'
  <1> SUFFICES ASSUME TypeOK, LoopInv, [Next]_vars PROVE LoopInv'
    OBVIOUS
  <1>1. CASE ReadLoop
    BY <1>1 DEF ReadLoop, LoopInv, drainCommands, processBlock, BlockDone,
                LastBandDone, BandDone
  <1>2. CASE UNCHANGED vars
    BY <1>2, LoopFrame DEF vars
  <1> QED  BY <1>1, <1>2, LoopClient, LoopStream DEF Next

-----------------------------------------------------------------------------
(* The bands a full scan has recorded                                      *)

LEMMA OrderFrame ==
  ASSUME OrderInv, UNCHANGED <<fullScan, sweep, bandIdx, bandRecords, block>>,
         "restart" \in odd => "restart" \in odd'
  PROVE  OrderInv'
  BY DEF OrderInv

\* A closure finds no block in processing: a scan it starts is at its first band.
LEMMA ExecuteOrder ==
  ASSUME OrderInv, block = NoBlock, NEW cmd \in Commands, Execute(cmd),
         UNCHANGED block
  PROVE  OrderInv'
  <1>1. ASSUME NEW full, RunScan(full) PROVE OrderInv'
    <2>1. /\ fullScan' = full /\ sweep' = full /\ bandIdx' = 1
          /\ bandRecords' = <<>>
      BY <1>1 DEF RunScan, BeginScan
    <2>2. 1 \in DOMAIN SweepBands
      OBVIOUS
    <2> QED  BY <2>1, <2>2 DEF OrderInv
  <1>2. ASSUME RunStop PROVE OrderInv'
    BY <1>2 DEF RunStop, OrderInv
  <1>3. ASSUME NEW s, NEW prev, RunService(s, prev) PROVE OrderInv'
    BY <1>3, OrderFrame DEF RunService
  <1>4. ASSUME NEW prev, RunLeave(prev) PROVE OrderInv'
    BY <1>4, OrderFrame DEF RunLeave
  <1>5. ASSUME NEW s, NEW t, RunListen(s, t) PROVE OrderInv'
    BY <1>5, OrderFrame DEF RunListen
  <1>6. ASSUME \/ \E center : RunTune(center)
               \/ \E rate : RunRate(rate)
               \/ \E s : RunUnlisten(s)
               \/ RunTrack
        PROVE  OrderInv'
    BY <1>6, OrderFrame DEF RunTune, RunRate, RunUnlisten, RunTrack
  <1> QED  BY <1>1, <1>2, <1>3, <1>4, <1>5, <1>6 DEF Execute

\* A setter either leaves the scan alone or says that it restarts it.
LEMMA OrderClient ==
  ASSUME TypeOK, LoopInv, OrderInv, NEW c \in Clients, Client(c)
  PROVE  OrderInv'
  <1>1. CASE enqueue(c)
    <2>1. CASE running
      BY <1>1, <2>1, OrderFrame DEF enqueue
    <2>2. CASE ~running
      <3>1. out[c] \in Commands
        BY <1>1 DEF enqueue, TypeOK, ClientType
      <3>2. block = NoBlock
        BY <2>2 DEF LoopInv
      <3> QED  BY <1>1, <2>2, <3>1, <3>2, ExecuteOrder DEF enqueue
    <2> QED  BY <2>1, <2>2
  <1>2. CASE StartScan(c)
    <2>1. "restart" \in odd'
      BY <1>2 DEF StartScan, switchToProtocolService, Configure
    <2> QED  BY <2>1 DEF OrderInv
  <1>3. CASE ~enqueue(c) /\ ~StartScan(c)
    <2>1. UNCHANGED <<fullScan, sweep, bandIdx, bandRecords, block>>
      BY <1>3 DEF Client, Tune, SampleRate, Service, StopScan, Listen, Unlisten,
                  Track, Power, SecondSetter
    <2>2. odd \subseteq odd'
      BY <1>3 DEF Client, Tune, SampleRate, Service, StopScan, Listen, Unlisten,
                  Track, Power, SecondSetter, SetTuneFreq, SetCenterFreq,
                  SetSampleRate, SetService, switchToRadioFromProtocol,
                  Configure, Reconfigure, EnqueueOnly
    <2> QED  BY <2>1, <2>2, OrderFrame
  <1> QED  BY <1>1, <1>2, <1>3

LEMMA OrderStream ==
  ASSUME OrderInv, NEW c \in Clients, Stream(c)
  PROVE  OrderInv'
  <1>1. UNCHANGED <<fullScan, sweep, bandIdx, bandRecords, block>>
        /\ ("restart" \in odd => "restart" \in odd')
    BY DEF Stream, LockStream, StopLoop, CloseDevice, ReadConfig, openDevice,
           AlreadyOpen, startRun, StartFails
  <1> QED  BY <1>1, OrderFrame

LEMMA RecordedOrder ==
  ASSUME TypeOK, block # NoBlock, bandIdx \in Nat \ {0},
         Len(bandRecords) = bandIdx - 1, block.band = SweepBands[bandIdx],
         \A n \in DOMAIN bandRecords : bandRecords[n].band = SweepBands[n]
  PROVE  /\ Len(Recorded) = bandIdx /\ DOMAIN Recorded = 1 .. bandIdx
         /\ \A n \in DOMAIN Recorded : Recorded[n].band = SweepBands[n]
  <1>1. bandRecords \in Seq([band : Tunings, at : Tunings])
    BY DEF TypeOK, ScanType
  <1>2. DOMAIN bandRecords = 1 .. bandIdx - 1
    BY <1>1
  <1>3. /\ Len(Recorded) = bandIdx
        /\ Recorded[bandIdx].band = block.band
        /\ \A n \in 1 .. bandIdx - 1 : Recorded[n] = bandRecords[n]
    BY <1>2, RecordedType
  <1>4. DOMAIN Recorded = 1 .. bandIdx
    BY <1>3, RecordedType
  <1>5. \A n \in 1 .. bandIdx - 1 : Recorded[n].band = SweepBands[n]
    BY <1>2, <1>3
  <1>6. \A n \in 1 .. bandIdx : n = bandIdx \/ n \in 1 .. bandIdx - 1
    OBVIOUS
  <1> QED  BY <1>3, <1>4, <1>5, <1>6

LEMMA OrderReadLoop ==
  ASSUME TypeOK, OrderInv, ReadLoop
  PROVE  OrderInv'
  <1>1. CASE drainCommands
    <2>1. Head(cmdCh) \in Commands
      BY <1>1 DEF drainCommands, TypeOK, ClientType
    <2> QED  BY <1>1, <2>1, ExecuteOrder DEF drainCommands
  <1>2. CASE processBlock
    <2>1. UNCHANGED <<fullScan, sweep, bandIdx, bandRecords, odd>>
          /\ block' = [bands |-> bands, band |-> bands[bandIdx]]
      BY <1>2 DEF processBlock
    <2>2. fullScan /\ sweep => bands = SweepBands
      BY DEF bands, BandsOf
    <2> QED  BY <2>1, <2>2 DEF OrderInv
  <1>3. CASE BlockDone
    BY <1>3 DEF BlockDone, OrderInv
  <1>4. CASE LastBandDone
    BY <1>4 DEF LastBandDone, OrderInv
  <1>5. CASE BandDone
    <2> SUFFICES ASSUME fullScan', "restart" \notin odd'
                 PROVE  OrderInv'
      BY DEF OrderInv
    <2>1. /\ block # NoBlock /\ block' = NoBlock
          /\ ~(fullScan /\ bandIdx >= Len(block.bands))
          /\ UNCHANGED <<fullScan, sweep, odd>>
          /\ bandRecords' = (IF fullScan THEN Recorded ELSE bandRecords)
          /\ bandIdx' = NextIdx
      BY <1>5 DEF BandDone
    <2>2. /\ fullScan /\ sweep /\ bandIdx \in DOMAIN SweepBands
          /\ Len(bandRecords) = bandIdx - 1
          /\ \A n \in DOMAIN bandRecords : bandRecords[n].band = SweepBands[n]
          /\ block.bands = SweepBands /\ block.band = SweepBands[bandIdx]
      BY <2>1 DEF OrderInv
    <2>3. /\ Len(SweepBands) \in Nat /\ DOMAIN SweepBands = 1 .. Len(SweepBands)
      OBVIOUS
    <2>4. bandIdx \in 1 .. Len(SweepBands) /\ bandIdx < Len(SweepBands)
      BY <2>1, <2>2, <2>3
    <2>5. bands = SweepBands
      BY <2>2 DEF bands, BandsOf
    <2>6. bandIdx' = bandIdx + 1 /\ bandIdx' \in DOMAIN SweepBands
      BY <2>1, <2>3, <2>4, <2>5 DEF NextIdx
    <2>7. /\ bandRecords' = Recorded
          /\ Len(Recorded) = bandIdx
          /\ \A n \in DOMAIN Recorded : Recorded[n].band = SweepBands[n]
      BY <2>1, <2>2, <2>4, RecordedOrder
    <2>8. Len(bandRecords') = bandIdx' - 1
      BY <2>4, <2>6, <2>7
    <2> QED  BY <2>1, <2>2, <2>6, <2>7, <2>8 DEF OrderInv
  <1> QED  BY <1>1, <1>2, <1>3, <1>4, <1>5 DEF ReadLoop

-----------------------------------------------------------------------------
(* The report                                                              *)

\* A full scan that completes has recorded every band of the sweep.
LEMMA ReportLastBand ==
  ASSUME TypeOK, OrderInv, LastBandDone, "restart" \notin odd
  PROVE  report'.bands = SweepBands
  <1>1. /\ block # NoBlock /\ fullScan /\ bandIdx >= Len(block.bands)
        /\ report'.bands = [i \in DOMAIN Recorded |-> Recorded[i].band]
    BY DEF LastBandDone
  <1>2. /\ bandIdx \in DOMAIN SweepBands
        /\ Len(bandRecords) = bandIdx - 1
        /\ \A n \in DOMAIN bandRecords : bandRecords[n].band = SweepBands[n]
        /\ block.bands = SweepBands /\ block.band = SweepBands[bandIdx]
    BY <1>1 DEF OrderInv
  <1>3. /\ Len(SweepBands) \in Nat /\ DOMAIN SweepBands = 1 .. Len(SweepBands)
        /\ SweepBands = [n \in 1 .. Len(SweepBands) |-> SweepBands[n]]
    OBVIOUS
  <1>4. bandIdx \in Nat \ {0} /\ bandIdx = Len(SweepBands)
    BY <1>1, <1>2, <1>3
  <1>5. /\ DOMAIN Recorded = 1 .. Len(SweepBands)
        /\ \A n \in 1 .. Len(SweepBands) : Recorded[n].band = SweepBands[n]
    BY <1>1, <1>2, <1>4, RecordedOrder
  <1> QED  BY <1>1, <1>3, <1>5

LEMMA ReportNext ==
  ASSUME TypeOK, OrderInv, ReportCoversSweep, [Next]_vars
  PROVE  ReportCoversSweep'
  <1>1. CASE LastBandDone
    <2>1. report'.clean = ("restart" \notin odd)
      BY <1>1 DEF LastBandDone
    <2> QED  BY <1>1, <2>1, ReportLastBand DEF ReportCoversSweep
  <1>2. CASE ~LastBandDone
    <2>1. ASSUME NEW c \in Clients, Client(c) PROVE UNCHANGED report
      BY <2>1 DEF Client, Tune, SampleRate, Service, StartScan, StopScan, Listen,
                  Unlisten, Track, Power, SecondSetter, enqueue
    <2>2. ASSUME NEW c \in Clients, Stream(c) PROVE UNCHANGED report
      BY <2>2 DEF Stream, LockStream, StopLoop, CloseDevice, ReadConfig, openDevice,
                  AlreadyOpen, startRun, StartFails
    <2>3. ReadLoop => UNCHANGED report
      BY <1>2 DEF ReadLoop, drainCommands, processBlock, BlockDone, BandDone
    <2>4. UNCHANGED report
      BY <2>1, <2>2, <2>3 DEF Next, vars
    <2> QED  BY <2>4 DEF ReportCoversSweep
  <1> QED  BY <1>1, <1>2

LEMMA InitInv == Init => IInv
  <1> SUFFICES ASSUME Init PROVE IInv
    OBVIOUS
  <1>1. ModeInv
    BY DEF Init, ModeInv, DigitalNeverDirect
  <1>2. LoopInv
    BY DEF Init, LoopInv
  <1>3. OrderInv
    BY DEF Init, OrderInv
  <1>4. ReportCoversSweep
    BY DEF Init, ReportCoversSweep
  <1> QED  BY <1>1, <1>2, <1>3, <1>4 DEF IInv

LEMMA InvNext == TypeOK /\ IInv /\ [Next]_vars => IInv'
  <1> SUFFICES ASSUME TypeOK, IInv, [Next]_vars PROVE IInv'
    OBVIOUS
  <1> USE DEF IInv
  <1>1. ModeInv' /\ LoopInv'
    BY ModeNext, LoopNext
  <1>2. OrderInv'
    <2>1. CASE UNCHANGED vars
      BY <2>1, OrderFrame DEF vars
    <2> QED  BY <2>1, OrderClient, OrderStream, OrderReadLoop DEF Next
  <1> QED  BY <1>1, <1>2, ReportNext

\* The mode of the tuner, the holder of streamMu, the bands of a scan and its
\* report hang together in every state.
THEOREM Invariant == Spec => []IInv
  BY InitInv, InvNext, TypeCorrect, PTL DEF Spec

\* A full scan whose restart nobody asked for reports every band of the sweep
\* once and in order, whatever stops, resumptions and reopens come in between.
THEOREM ReportIsComplete == Spec => []ReportCoversSweep
  <1>1. IInv => ReportCoversSweep
    BY DEF IInv
  <1> QED  BY <1>1, Invariant, PTL

-----------------------------------------------------------------------------
(* The device and the loop implement OneStream                             *)

LEMMA TurnFrame ==
  ASSUME TurnInv, UNCHANGED <<stage, streamMu, live, running, sdr, enabled>>
  PROVE  TurnInv'
  BY DEF TurnInv, HolderAt

\* A client's message moves only the client, to a stage before the lock.
LEMMA TurnClient ==
  ASSUME TypeOK, LoopInv, TurnInv, NEW c \in Clients, Client(c)
  PROVE  TurnInv' /\ UNCHANGED <<streamMu, live, running, sdr, enabled>>
  <1>1. UNCHANGED <<streamMu, live, running, sdr, enabled>>
    BY DEF Client, Tune, SampleRate, Service, StartScan, StopScan, Listen, Unlisten,
           Track, Power, SecondSetter, enqueue
  <1>2. UNCHANGED stage
        \/ \E s \in {"reopen", "on", "off"} :
              stage' = [stage EXCEPT ![c] = s] /\ stage[c] = "idle"
    BY DEF Client, Tune, SampleRate, Service, StartScan, StopScan, Listen, Unlisten,
           Track, Power, SecondSetter, enqueue, SetTuneFreq, SetCenterFreq,
           Reconfigure, Message, Free, Idle
  <1>3. stage \in [Clients -> Stages] /\ streamMu \in Clients \cup {NoOne}
    BY DEF TypeOK, StreamType
  <1> QED  BY <1>1, <1>2, <1>3 DEF TurnInv, HolderAt

\* A stage of the holder of streamMu.
LEMMA TurnStream ==
  ASSUME TypeOK, LoopInv, TurnInv, NEW c \in Clients, Stream(c)
  PROVE  TurnInv'
  <1> USE DEF LoopInv, TurnInv, HolderAt, Goto, Finish
  <1>1. stage \in [Clients -> Stages] /\ streamMu \in Clients \cup {NoOne}
    BY DEF TypeOK, StreamType
  <1>2. CASE LockStream(c)
    BY <1>1, <1>2 DEF LockStream
  <1>3. CASE StopLoop(c)
    BY <1>1, <1>3 DEF StopLoop
  <1>4. CASE CloseDevice(c)
    BY <1>1, <1>4 DEF CloseDevice
  <1>5. CASE ReadConfig(c)
    BY <1>1, <1>5 DEF ReadConfig
  <1>6. CASE openDevice(c)
    BY <1>1, <1>6 DEF openDevice
  <1>7. CASE AlreadyOpen(c)
    BY <1>1, <1>7 DEF AlreadyOpen
  <1>8. CASE startRun(c)
    BY <1>1, <1>8 DEF startRun
  <1>9. CASE StartFails(c)
    BY <1>1, <1>9 DEF StartFails
  <1> QED  BY <1>2, <1>3, <1>4, <1>5, <1>6, <1>7, <1>8, <1>9 DEF Stream

\* No block and no closure switches the receiver.
LEMMA TurnReadLoop ==
  ASSUME ReadLoop
  PROVE  UNCHANGED <<stage, streamMu, live, running, sdr, enabled>>
  BY DEF ReadLoop, drainCommands, processBlock, BlockDone, LastBandDone, BandDone

LEMMA TurnNext == TypeOK /\ LoopInv /\ TurnInv /\ [Next]_vars => TurnInv'
  <1> SUFFICES ASSUME TypeOK, LoopInv, TurnInv, [Next]_vars PROVE TurnInv'
    OBVIOUS
  <1>1. CASE ReadLoop \/ UNCHANGED vars
    BY <1>1, TurnReadLoop, TurnFrame DEF vars
  <1> QED  BY <1>1, TurnClient, TurnStream DEF Next

\* The holder of streamMu keeps the device open under a loop, and the flag
\* true to the loop but for the moment before it closes the device.
THEOREM TurnInvariant == Spec => []TurnInv
  <1>1. Init => TurnInv
    BY DEF Init, TurnInv
  <1>2. IInv => LoopInv
    BY DEF IInv
  <1> QED  BY <1>1, <1>2, TypeCorrect, Invariant, TurnNext, PTL DEF Spec

LEMMA StreamsAre == Streams = (IF live THEN {TRUE} ELSE {})
                    /\ Streams' = (IF live' THEN {TRUE} ELSE {})
  BY DEF Streams

\* The calls of a stage are the acts of a turn.
LEMMA StreamActs ==
  ASSUME TypeOK, TypeOK', LoopInv, TurnInv, NEW c \in Clients, Stream(c)
  PROVE  OS!Take \/ OS!Act
  <1> USE StreamsAre DEF LoopInv, TurnInv, HolderAt, Goto, Finish, OS!Act, OS!Truthful
  <1>1. /\ stage \in [Clients -> Stages] /\ streamMu \in Clients \cup {NoOne}
        /\ live \in BOOLEAN /\ running \in BOOLEAN /\ running' \in BOOLEAN
        /\ sdr \in BOOLEAN /\ enabled \in BOOLEAN /\ enabled' \in BOOLEAN
        /\ NoOne \notin Clients
    BY DEF TypeOK, StreamType
  <1>2. CASE LockStream(c)
    BY <1>1, <1>2 DEF LockStream, OS!Take
  <1>3. CASE StopLoop(c)
    BY <1>1, <1>3 DEF StopLoop, OS!End
  <1>4. CASE CloseDevice(c)
    BY <1>1, <1>4 DEF CloseDevice, OS!Close
  <1>5. CASE ReadConfig(c)
    BY <1>1, <1>5 DEF ReadConfig, OS!Mark
  <1>6. CASE openDevice(c)
    BY <1>1, <1>6 DEF openDevice, OS!Open
  <1>7. CASE AlreadyOpen(c)
    BY <1>1, <1>7 DEF AlreadyOpen, OS!Mark
  <1>8. CASE startRun(c)
    BY <1>1, <1>8 DEF startRun, OS!Begin
  <1>9. CASE StartFails(c)
    BY <1>1, <1>9 DEF StartFails, OS!Mark
  <1> QED  BY <1>2, <1>3, <1>4, <1>5, <1>6, <1>7, <1>8, <1>9 DEF Stream

LEMMA StreamRefines ==
  TypeOK /\ TypeOK' /\ LoopInv /\ TurnInv /\ [Next]_vars => [OS!Next]_(OS!vars)
  <1> SUFFICES ASSUME TypeOK, TypeOK', LoopInv, TurnInv, [Next]_vars
               PROVE  OS!Take \/ OS!Act \/ UNCHANGED OS!vars
    BY DEF OS!Next
  <1>1. CASE ReadLoop \/ UNCHANGED vars
    BY <1>1, TurnReadLoop, StreamsAre DEF vars, OS!vars
  <1>2. ASSUME NEW c \in Clients, Client(c) PROVE UNCHANGED OS!vars
    BY <1>2, TurnClient, StreamsAre DEF OS!vars
  <1> QED  BY <1>1, <1>2, StreamActs DEF Next

\* With setters, closures, scans and reopens among them, the calls that switch
\* the receiver keep the promise of OneStream.
THEOREM TuningKeepsPromise == Spec => OneStreamAtATime
  <1>1. Init => OS!Init
    BY StreamsAre DEF Init, OS!Init
  <1>2. IInv => LoopInv
    BY DEF IInv
  <1> QED  BY <1>1, <1>2, TypeCorrect, Invariant, TurnInvariant, StreamRefines, PTL
              DEF Spec, OneStreamAtATime, OS!Spec

-----------------------------------------------------------------------------
(* What OneStream promises, with the dongle    for its state     *)

LEMMA PromiseInit == OS!Init => OS!SoundStream
  BY DEF OS!Init, OS!SoundStream, OS!Truthful

\* Only the definitions of OneStream are used.
LEMMA PromiseStep == OS!SoundStream /\ [OS!Next]_(OS!vars) => OS!SoundStream'
  <1> SUFFICES ASSUME OS!SoundStream, [OS!Next]_(OS!vars) PROVE OS!SoundStream'
    OBVIOUS
  <1> USE DEF OS!SoundStream, OS!Truthful
  <1>1. CASE OS!Take
    BY <1>1 DEF OS!Take
  <1>2. CASE OS!Act
    <2>1. CASE OS!Open
      BY <1>2, <2>1 DEF OS!Act, OS!Open
    <2>2. CASE OS!Begin
      BY <1>2, <2>2 DEF OS!Act, OS!Begin
    <2>3. CASE OS!End \/ OS!Close
      BY <1>2, <2>3 DEF OS!Act, OS!End, OS!Close
    <2>4. CASE OS!Mark
      <3>1. sdr' = sdr /\ Streams' = Streams
        BY <2>4 DEF OS!Mark
      <3>2. (running' # running => Streams = {}) /\ (streamMu' = NoOne => OS!Truthful')
            /\ streamMu # NoOne
        BY <1>2 DEF OS!Act
      <3>3. Streams # {} => sdr # FALSE /\ running
        OBVIOUS
      <3>4. Streams' # {} => running'
        <4>1. CASE running' = running
          BY <3>1, <3>3, <4>1
        <4>2. CASE running' # running
          BY <3>1, <3>2, <4>2
        <4> QED  BY <4>1, <4>2
      <3>5. \A r, s \in Streams' : r = s
        BY <3>1
      <3> QED  BY <3>1, <3>2, <3>3, <3>4, <3>5
    <2> QED  BY <1>2, <2>1, <2>2, <2>3, <2>4 DEF OS!Act
  <1>3. CASE OS!Shutdown \/ OS!Ending
    BY <1>3 DEF OS!Shutdown, OS!Ending
  <1>4. CASE UNCHANGED OS!vars
    BY <1>4 DEF OS!vars
  <1> QED  BY <1>1, <1>2, <1>3, <1>4 DEF OS!Next

\* While a loop takes blocks the dongle is open and running is true, so that
\* enqueue sends every closure to the loop; whenever streamMu is free the flag
\* is right the other way round too, and none is sent to a loop that is gone.
THEOREM TuningIsSound == Spec => []OS!SoundStream
  <1>1. OS!Spec => []OS!SoundStream
    BY PromiseInit, PromiseStep, PTL DEF OS!Spec
  <1> QED  BY <1>1, TuningKeepsPromise DEF OneStreamAtATime

USE MarksAssumption

-----------------------------------------------------------------------------
(* The closures that have not run: queued, and on their way to the queue.  *)

Issued(c) == out[c] # NoCmd
Issuers == {c \in Clients : Issued(c)}
Pending == {cmdCh[i] : i \in DOMAIN cmdCh} \cup {out[c] : c \in Issuers}

\* Those that run after the i-th of the queue.
After(i) == {cmdCh[j] : j \in {k \in DOMAIN cmdCh : k > i}} \cup {out[c] : c \in Issuers}

\* A closure of a setter that leaves the configuration alone.
Light(cmd) == cmd.op \in {"stop", "listen", "unlisten", "track"}

\* A closure that tunes for a service, and that service.
Switch(cmd) == cmd.op \in {"service", "leave", "scan"}
Leads(cmd) == IF cmd.op = "service" THEN cmd.s
              ELSE IF cmd.op = "leave" THEN "radio" ELSE "protocol"

HomePending    == \E cmd \in Pending : Homing(cmd)
SwitchPending  == \E cmd \in Pending : Switch(cmd)
OpPending(op) == \E cmd \in Pending : cmd.op = op

\* A client that has changed the configuration and not passed it on, or is in a
\* reopen.
Heavy(c) == \/ stage[c] \notin {"idle", "on", "off"}
            \/ Issued(c) /\ ~Light(out[c])

\* The device is being closed, or is about to be.
Closing == \E c \in Clients : stage[c] \in {"reopen", "stop", "close"}

\* A satellite listener of fixed frequency is tuned to it.
Aimed(cmd) == cmd.op = "listen" /\ cmd.s # "meteor" => cmd.at = FixedTuning[cmd.s]

Fixed == {"adsb", "ais", "apt", "lrpt"}

-----------------------------------------------------------------------------
(* The invariant.                                                          *)

\* What holds in every state.
BaseInv ==
    /\ config.direct = directSamplingForFreq(config.tune)
    /\ live => sdr
    /\ \A c \in Clients : /\ stage[c] # "idle" => ~Issued(c)
                          /\ stage[c] = "start" => sdr
                          /\ stage[c] = "opening" => ~sdr
                          /\ then[c] # NoCall /\ then[c].call = "listen" =>
                                then[c].cmd.op = "listen" /\ Aimed(then[c].cmd)
    /\ \A cmd \in Pending : Aimed(cmd)

\* Setters that do not overlap: one of them at a time is under way, and no
\* configuration changes under an openDevice.
OneInv ==
    /\ \A c, d \in Clients : Heavy(c) /\ Heavy(d) => c = d
    /\ \A c \in Clients : stage[c] = "opening" => opening = config
    /\ sdr /\ ~Closing => directMode \in {"off", config.direct}

\* After a homing no closure follows that changes the configuration.
HomingLast ==
    /\ HomePending => config.service = "radio"
    /\ \A i \in DOMAIN cmdCh : Homing(cmdCh[i]) => \A cmd \in After(i) : Light(cmd)

\* The last closure that tunes for a service tunes for the one selected.
SwitchLast ==
    /\ \A i \in DOMAIN cmdCh : Switch(cmdCh[i]) =>
          Leads(cmdCh[i]) = config.service \/ \E cmd \in After(i) : Switch(cmd)
    /\ \A c \in Clients : Issued(c) /\ Switch(out[c]) => Leads(out[c]) = config.service

\* The closure of a setter does not overtake those in the queue.
NoneOvertaken == \A c \in Clients : Issued(c) /\ ~Light(out[c]) => running \/ cmdCh = <<>>

\* A block of a scan that is processed after the service was changed, and the
\* closures of a scan that run after it, are followed by the new service's.
ScanLeft ==
    /\ block # NoBlock /\ config.service # "protocol" => SwitchPending
    /\ config.service = "radio" /\ ~HomePending =>
          /\ block = NoBlock
          /\ \A cmd \in Pending : Switch(cmd) => Leads(cmd) = "radio"
    /\ \A c \in Clients : stage[c] = "reopen" => config.service = "radio" /\ ~HomePending

\* The last closure that sets a center, or a rate, sets the configured one.
LatestInv ==
    config.service = "radio" /\ ~HomePending /\ (\A c \in Clients : stage[c] # "reopen") =>
        /\ \A i \in DOMAIN cmdCh :
              /\ cmdCh[i].op = "tune" =>
                    cmdCh[i].center = config.center \/ \E cmd \in After(i) : cmd.op = "tune"
              /\ cmdCh[i].op = "rate" =>
                    cmdCh[i].rate = config.rate \/ \E cmd \in After(i) : cmd.op = "rate"
        /\ \A c \in Clients : Issued(c) =>
              /\ out[c].op = "tune" => out[c].center = config.center
              /\ out[c].op = "rate" => out[c].rate = config.rate

QueueInv == HomingLast /\ SwitchLast /\ NoneOvertaken /\ ScanLeft /\ LatestInv

\* The dongle is where the configuration says, or a pending closure takes it
\* there.
OnRadio ==
    /\ directMode = config.direct
    /\ OpPending("rate") \/ dongle.rate = config.rate
    /\ \/ OpPending("tune")
       \/ dongle.center \in {config.center, snapFreqForMode(config.center, config)}
Tuned ==
    sdr /\ ~Closing =>
        /\ config.service = "radio" => HomePending \/ OnRadio
        /\ config.service \in Fixed => SwitchPending \/ dongle = FixedTuning[config.service]

\* Nothing but the scan changes the service, the band or the rate.
ScanQuiet ==
    /\ \A cmd \in Pending : ~Switch(cmd) /\ cmd.op # "rate"
    /\ block # NoBlock => config.service = "protocol"

\* A full scan has dongle and configuration on its band.
ScanTuned ==
    fullScan /\ config.service = "protocol" /\ sdr =>
        dongle = bandTuning /\ Configured(config) = bandTuning

DongleInv ==
    /\ BaseInv
    /\ "overlap" \notin odd => OneInv
    /\ Unlike({"overlap", "early"}) => QueueInv
    /\ Unlike({"overlap", "early", "foreign"}) => Tuned
    /\ Unlike({"overlap", "early", "scan"}) => ScanQuiet
    /\ Unlike({"overlap", "early", "foreign", "scan", "astray"}) => ScanTuned

-----------------------------------------------------------------------------
(* What a step does to the pending closures.                               *)

QueueType == cmdCh \in Seq(Commands) /\ out \in [Clients -> Commands \cup {NoCmd}]

LEMMA PendingType ==
  ASSUME QueueType
  PROVE  Pending \subseteq Commands /\ \A c \in Clients : Issued(c) => out[c] \in Commands
  BY DEF QueueType, Pending, Issued, Issuers

LEMMA TypedQueue == TypeOK => QueueType
  BY DEF TypeOK, ClientType, QueueType

\* A closure leaves: the first of the queue, or, while no stream runs, the one a
\* client has issued.
Pops(cmd) == \/ live /\ cmdCh # <<>> /\ cmd = Head(cmdCh) /\ cmdCh' = Tail(cmdCh) /\ UNCHANGED out
             \/ ~running /\ UNCHANGED cmdCh
                /\ \E c \in Clients : Issued(c) /\ cmd = out[c]
                                      /\ out' = [out EXCEPT ![c] = NoCmd]

LEMMA TailIs ==
  ASSUME NEW S, NEW q \in Seq(S), q # <<>>
  PROVE  /\ 1 \in DOMAIN q /\ Head(q) = q[1]
         /\ \A i \in DOMAIN Tail(q) : i + 1 \in DOMAIN q /\ Tail(q)[i] = q[i + 1] /\ i \in Nat \ {0}
         /\ \A i \in DOMAIN q : i > 1 => i - 1 \in DOMAIN Tail(q) /\ Tail(q)[i - 1] = q[i]
         /\ \A i \in DOMAIN q : i \in Nat \ {0}
         /\ DOMAIN Tail(q) \subseteq Int
  OBVIOUS

LEMMA PopHead ==
  ASSUME QueueType, cmdCh # <<>>, cmdCh' = Tail(cmdCh), UNCHANGED out
  PROVE  /\ Head(cmdCh) = cmdCh[1] /\ 1 \in DOMAIN cmdCh
         /\ Pending' = After(1) /\ Pending = {Head(cmdCh)} \cup After(1)
         /\ \A i \in DOMAIN cmdCh' : /\ i + 1 \in DOMAIN cmdCh
                                     /\ cmdCh'[i] = cmdCh[i + 1] /\ After(i)' = After(i + 1)
  <1> DEFINE S == {out[c] : c \in Issuers}
  <1>1. S' = S
    BY DEF Issuers, Issued
  <1> HIDE DEF S
  <1>2. /\ 1 \in DOMAIN cmdCh /\ Head(cmdCh) = cmdCh[1]
        /\ \A i \in DOMAIN cmdCh' : /\ i + 1 \in DOMAIN cmdCh /\ i \in Nat \ {0}
                                    /\ cmdCh'[i] = cmdCh[i + 1]
        /\ \A i \in DOMAIN cmdCh : /\ i \in Nat \ {0}
                                   /\ i > 1 => i - 1 \in DOMAIN cmdCh' /\ cmdCh'[i - 1] = cmdCh[i]
    BY TailIs DEF QueueType
  <1>3. {cmdCh'[i] : i \in DOMAIN cmdCh'} = {cmdCh[j] : j \in {k \in DOMAIN cmdCh : k > 1}}
    BY <1>2
  <1>4. {cmdCh[i] : i \in DOMAIN cmdCh} = {cmdCh[1]} \cup {cmdCh[j] : j \in {k \in DOMAIN cmdCh : k > 1}}
    BY <1>2
  <1>5. ASSUME NEW i \in DOMAIN cmdCh'
        PROVE  {cmdCh'[j] : j \in {k \in DOMAIN cmdCh' : k > i}}
                 = {cmdCh[j] : j \in {k \in DOMAIN cmdCh : k > i + 1}}
    <2>1. i \in Nat
      BY <1>2
    <2>2. ASSUME NEW j \in DOMAIN cmdCh', j > i PROVE j + 1 > i + 1
      BY <2>1, <2>2, <1>2
    <2>3. ASSUME NEW j \in DOMAIN cmdCh, j > i + 1 PROVE j - 1 > i /\ j > 1
      BY <2>1, <2>3, <1>2
    <2> QED  BY <1>2, <2>2, <2>3
  <1> QED  BY <1>1, <1>2, <1>3, <1>4, <1>5 DEF Pending, After, S

LEMMA PopIssued ==
  ASSUME QueueType, UNCHANGED cmdCh, NEW c \in Clients, Issued(c),
         out' = [out EXCEPT ![c] = NoCmd]
  PROVE  /\ Pending' \subseteq Pending /\ Pending \subseteq Pending' \cup {out[c]}
         /\ \A d \in Clients : Issued(d)' => d # c /\ Issued(d) /\ out'[d] = out[d]
         /\ \A i \in DOMAIN cmdCh : /\ After(i)' \subseteq After(i)
                                    /\ After(i) \subseteq After(i)' \cup {out[c]}
  BY DEF QueueType, Pending, After, Issuers, Issued

\* A closure moves from a client to the end of the queue.
LEMMA AppendIs ==
  ASSUME NEW S, NEW q \in Seq(S), NEW x \in S
  PROVE  /\ Append(q, x) \in Seq(S) /\ Len(q) + 1 \in DOMAIN Append(q, x)
         /\ Append(q, x)[Len(q) + 1] = x
         /\ \A i \in DOMAIN Append(q, x) : i \in Nat /\ (i \in DOMAIN q \/ i = Len(q) + 1)
         /\ \A i \in DOMAIN q : /\ i \in Nat /\ i < Len(q) + 1
                                /\ i \in DOMAIN Append(q, x) /\ Append(q, x)[i] = q[i]
  OBVIOUS

LEMMA Moved ==
  ASSUME QueueType, NEW c \in Clients, Issued(c),
         cmdCh' = Append(cmdCh, out[c]), out' = [out EXCEPT ![c] = NoCmd]
  PROVE  /\ Pending' = Pending
         /\ \A d \in Clients : Issued(d)' => d # c /\ Issued(d) /\ out'[d] = out[d]
         /\ \A d \in Clients \ {c} : Issued(d) => Issued(d)'
         /\ \A i \in DOMAIN cmdCh' :
               \/ i \in DOMAIN cmdCh /\ cmdCh'[i] = cmdCh[i] /\ After(i)' = After(i)
               \/ cmdCh'[i] = out[c] /\ After(i)' = {out[d] : d \in Issuers'}
  <1> DEFINE n == Len(cmdCh) + 1
             S == {out[d] : d \in Issuers}
             T == {out'[d] : d \in Issuers'}
  <1>1. out[c] \in Commands
    BY PendingType
  <1>2. /\ \A d \in Clients : Issued(d)' => d # c /\ Issued(d) /\ out'[d] = out[d]
        /\ \A d \in Clients \ {c} : Issued(d) => Issued(d)' /\ out'[d] = out[d]
    BY DEF QueueType, Issued
  <1>3. S = T \cup {out[c]} /\ T = {out[d] : d \in Issuers'}
    BY <1>2 DEF Issuers
  <1>4. /\ n \in DOMAIN cmdCh' /\ cmdCh'[n] = out[c]
        /\ \A i \in DOMAIN cmdCh' : i \in Nat /\ (i \in DOMAIN cmdCh \/ i = n)
        /\ \A i \in DOMAIN cmdCh : i \in Nat /\ i < n /\ i \in DOMAIN cmdCh' /\ cmdCh'[i] = cmdCh[i]
    BY <1>1, AppendIs DEF QueueType
  <1>n. n \in Nat
    BY DEF QueueType
  <1> HIDE DEF n, S, T
  <1>5. {cmdCh'[i] : i \in DOMAIN cmdCh'} = {cmdCh[i] : i \in DOMAIN cmdCh} \cup {out[c]}
    BY <1>4
  <1>6. Pending' = Pending
    BY <1>3, <1>5 DEF Pending, S, T
  <1>7. ASSUME NEW i \in DOMAIN cmdCh
        PROVE  After(i)' = After(i)
    <2>1. {cmdCh'[j] : j \in {k \in DOMAIN cmdCh' : k > i}}
            = {cmdCh[j] : j \in {k \in DOMAIN cmdCh : k > i}} \cup {out[c]}
      BY <1>4, <1>n
    <2> QED  BY <2>1, <1>3 DEF After, S, T
  <1>8. ASSUME NEW m, m = n PROVE After(m)' = T
    <2>1. {k \in DOMAIN cmdCh' : k > m} = {}
      BY <1>4, <1>n, <1>8
    <2> QED  BY <2>1 DEF After, T
  <1> QED  BY <1>2, <1>3, <1>4, <1>6, <1>7, <1>8
\* A setter issues a closure, or NoCmd: nothing.
Issues(c, cmd) == /\ ~Issued(c) /\ UNCHANGED cmdCh
                  /\ out' = [out EXCEPT ![c] = cmd]

LEMMA IssuedIs ==
  ASSUME QueueType, NEW c \in Clients, NEW cmd \in Commands \cup {NoCmd}, Issues(c, cmd)
  PROVE  /\ \A d \in Clients \ {c} : out'[d] = out[d] /\ (Issued(d)' <=> Issued(d))
         /\ out'[c] = cmd /\ (Issued(c)' <=> cmd # NoCmd)
         /\ cmd # NoCmd => /\ Pending' = Pending \cup {cmd} /\ cmd \in Commands
                           /\ \A i \in DOMAIN cmdCh : After(i)' = After(i) \cup {cmd}
         /\ cmd = NoCmd => /\ Pending' = Pending
                           /\ \A i \in DOMAIN cmdCh : After(i)' = After(i)
  <1>1. /\ \A d \in Clients \ {c} : out'[d] = out[d] /\ (Issued(d)' <=> Issued(d))
        /\ out'[c] = cmd /\ (Issued(c)' <=> cmd # NoCmd)
    BY DEF QueueType, Issues, Issued
  <1> DEFINE S == {out[d] : d \in Issuers}
  <1>2. S' = S \cup (IF cmd = NoCmd THEN {} ELSE {cmd})
    BY <1>1 DEF Issuers, Issues
  <1>3. /\ Pending = {cmdCh[i] : i \in DOMAIN cmdCh} \cup S
        /\ Pending' = {cmdCh[i] : i \in DOMAIN cmdCh} \cup S'
        /\ \A i : /\ After(i) = {cmdCh[j] : j \in {k \in DOMAIN cmdCh : k > i}} \cup S
                 /\ After(i)' = {cmdCh[j] : j \in {k \in DOMAIN cmdCh : k > i}} \cup S'
    BY DEF Issues, Pending, After
  <1> HIDE DEF S
  <1>4. cmd # NoCmd => /\ Pending' = Pending \cup {cmd}
                       /\ \A i \in DOMAIN cmdCh : After(i)' = After(i) \cup {cmd}
    <2>1. cmd # NoCmd => S' = S \cup {cmd}
      BY <1>2
    <2> QED  BY <1>3, <2>1
  <1>5. cmd = NoCmd => /\ Pending' = Pending
                       /\ \A i \in DOMAIN cmdCh : After(i)' = After(i)
    <2>1. cmd = NoCmd => S' = S
      BY <1>2
    <2> QED  BY <1>3, <2>1
  <1> QED  BY <1>1, <1>4, <1>5

\* The closure that leaves has nothing before it.  If no setter overlapped and
\* none came early, what it says of the service, the center or the rate holds, or
\* a later one corrects it; and nothing follows a homing.
LEMMA Popped ==
  ASSUME QueueType, OneInv, QueueInv, NEW cmd, Pops(cmd)
  PROVE  /\ cmd \in Pending /\ Pending' \subseteq Pending /\ Pending \subseteq Pending' \cup {cmd}
         /\ Homing(cmd) => \A x \in Pending' : Light(x)
         /\ Switch(cmd) => Leads(cmd) = config.service \/ SwitchPending'
         /\ config.service = "radio" /\ ~HomePending /\ (\A c \in Clients : stage[c] # "reopen") =>
              /\ cmd.op = "tune" => cmd.center = config.center \/ OpPending("tune")'
              /\ cmd.op = "rate" => cmd.rate = config.rate \/ OpPending("rate")'
  <1>1. CASE cmdCh # <<>> /\ cmd = Head(cmdCh) /\ cmdCh' = Tail(cmdCh) /\ UNCHANGED out
    <2>1. /\ cmd = cmdCh[1] /\ 1 \in DOMAIN cmdCh
          /\ Pending' = After(1) /\ Pending = {cmd} \cup After(1)
      BY <1>1, PopHead
    <2> QED  BY <2>1 DEF QueueInv, HomingLast, SwitchLast, LatestInv, SwitchPending, OpPending
  <1>2. ASSUME NEW c \in Clients, Issued(c), cmd = out[c], ~running, UNCHANGED cmdCh,
               out' = [out EXCEPT ![c] = NoCmd]
        PROVE  /\ cmd \in Pending /\ Pending' \subseteq Pending /\ Pending \subseteq Pending' \cup {cmd}
               /\ Homing(cmd) => \A x \in Pending' : Light(x)
               /\ Switch(cmd) => Leads(cmd) = config.service \/ SwitchPending'
               /\ config.service = "radio" /\ ~HomePending /\ (\A d \in Clients : stage[d] # "reopen") =>
                    /\ cmd.op = "tune" => cmd.center = config.center \/ OpPending("tune")'
                    /\ cmd.op = "rate" => cmd.rate = config.rate \/ OpPending("rate")'
    <2>1. /\ Pending' \subseteq Pending /\ Pending \subseteq Pending' \cup {cmd}
          /\ \A d \in Clients : Issued(d)' => d # c /\ Issued(d) /\ out'[d] = out[d]
      BY <1>2, PopIssued
    <2>2. cmd \in Pending
      BY <1>2 DEF Pending, Issuers
    <2>3. ASSUME Homing(cmd), NEW x \in Pending' PROVE Light(x)
      <3>1. ~Light(cmd)
        BY <2>3 DEF Homing, Light
      <3>2. cmdCh' = <<>>
        BY <1>2, <3>1 DEF QueueInv, NoneOvertaken
      <3>3. PICK d \in Clients : Issued(d)' /\ x = out'[d]
        BY <2>3, <3>2 DEF Pending, Issuers
      <3>4. d # c /\ Issued(d) /\ x = out[d]
        BY <2>1, <3>3
      <3> QED  BY <1>2, <3>1, <3>4 DEF OneInv, Heavy
    <2>4. /\ Switch(cmd) => Leads(cmd) = config.service
          /\ config.service = "radio" /\ ~HomePending /\ (\A d \in Clients : stage[d] # "reopen") =>
               /\ cmd.op = "tune" => cmd.center = config.center
               /\ cmd.op = "rate" => cmd.rate = config.rate
      BY <1>2 DEF QueueInv, SwitchLast, LatestInv
    <2> QED  BY <2>1, <2>2, <2>3, <2>4
  <1> QED  BY <1>1, <1>2 DEF Pops

\* What is left of the queue after one closure: the order of the rest.
LEMMA PoppedOrder ==
  ASSUME QueueType, QueueInv, NEW cmd, Pops(cmd)
  PROVE  /\ \A i \in DOMAIN cmdCh' : \E k \in DOMAIN cmdCh :
              /\ cmdCh'[i] = cmdCh[k] /\ After(i)' \subseteq After(k)
              /\ \A x \in After(k) : x \in After(i)' \/ Light(x)
         /\ \A d \in Clients : Issued(d)' => Issued(d) /\ out'[d] = out[d]
         /\ cmdCh = <<>> => cmdCh' = <<>>
  <1>1. CASE cmdCh # <<>> /\ cmd = Head(cmdCh) /\ cmdCh' = Tail(cmdCh) /\ UNCHANGED out
    <2>1. \A d \in Clients : Issued(d)' => Issued(d) /\ out'[d] = out[d]
      BY <1>1 DEF Issued
    <2>2. \A i \in DOMAIN cmdCh' : /\ i + 1 \in DOMAIN cmdCh
                                   /\ cmdCh'[i] = cmdCh[i + 1] /\ After(i)' = After(i + 1)
      BY <1>1, PopHead
    <2> QED  BY <1>1, <2>1, <2>2
  <1>2. ASSUME NEW c \in Clients, Issued(c), cmd = out[c], ~running, UNCHANGED cmdCh,
               out' = [out EXCEPT ![c] = NoCmd]
        PROVE  /\ \A i \in DOMAIN cmdCh' : \E k \in DOMAIN cmdCh :
                    /\ cmdCh'[i] = cmdCh[k] /\ After(i)' \subseteq After(k)
                    /\ \A x \in After(k) : x \in After(i)' \/ Light(x)
               /\ \A d \in Clients : Issued(d)' => Issued(d) /\ out'[d] = out[d]
               /\ cmdCh = <<>> => cmdCh' = <<>>
    <2>1. /\ \A d \in Clients : Issued(d)' => d # c /\ Issued(d) /\ out'[d] = out[d]
          /\ \A i \in DOMAIN cmdCh : /\ After(i)' \subseteq After(i)
                                     /\ After(i) \subseteq After(i)' \cup {cmd}
      BY <1>2, PopIssued
    <2>2. Light(cmd) \/ cmdCh = <<>>
      BY <1>2 DEF QueueInv, NoneOvertaken
    <2>3. cmdCh = <<>> => DOMAIN cmdCh' = {}
      BY <1>2
    <2> QED  BY <1>2, <2>1, <2>2, <2>3
  <1> QED  BY <1>1, <1>2 DEF Pops

-----------------------------------------------------------------------------
(* What a closure does.                                                    *)

Synced == config.direct = directSamplingForFreq(config.tune)

\* Going home moves the center only: the direct mode is that of the frequency.
LEMMA HomedIs ==
  ASSUME config \in Configs, Synced
  PROVE  Homed(config) = [config EXCEPT !.center = config.tune]
  <1> DEFINE cfg == [config EXCEPT !.center = config.tune]
  <1>1. cfg.direct = directSamplingForFreq(cfg.tune)
    BY DEF Synced, Configs
  <1> HIDE DEF cfg
  <1>2. syncDirectSampling(cfg) = cfg
    BY <1>1 DEF syncDirectSampling
  <1> QED  BY <1>2 DEF cfg, Homed

LEMMA RadioTuneIs ==
  ASSUME config \in Configs, Synced, ModeInv, NEW prev, RadioTune(prev)
  PROVE  /\ ~sdr => UNCHANGED <<config, dongle, directMode>>
         /\ sdr => /\ config' = IF prev = "radio" THEN config
                                ELSE [config EXCEPT !.center = config.tune]
                   /\ dongle' = Configured(config')
                   /\ directMode' = IF config.service = "radio" /\ config.direct # "off"
                                    THEN config.direct ELSE directMode
  <1> DEFINE cfg  == IF prev = "radio" THEN config ELSE Homed(config)
             mode == IF cfg.service = "radio" /\ cfg.direct # "off"
                     THEN cfg.direct ELSE appliedDirectMode
  <1>1. CASE sdr
    <2>1. /\ config' = cfg /\ dongle' = Configured(cfg)
          /\ directMode' = IF mode = appliedDirectMode THEN directMode ELSE mode
      BY <1>1 DEF RadioTune
    <2>2. cfg = IF prev = "radio" THEN config ELSE [config EXCEPT !.center = config.tune]
      BY HomedIs
    <2>3. cfg.service = config.service /\ cfg.direct = config.direct
      BY <2>2 DEF Configs
    <2>4. appliedDirectMode = directMode
      BY <1>1 DEF ModeInv
    <2>5. directMode' = mode
      BY <2>1, <2>4
    <2> HIDE DEF cfg
    <2> QED  BY <1>1, <2>1, <2>2, <2>3, <2>4, <2>5
  <1>2. CASE ~sdr
    BY <1>2 DEF RadioTune
  <1> QED  BY <1>1, <1>2

LEMMA DigitalTuneIs ==
  ASSUME ModeInv, NEW t, NEW s, DigitalTune(t, s)
  PROVE  /\ ~sdr => UNCHANGED <<dongle, directMode>>
         /\ sdr => dongle' = t /\ directMode' = "off"
  BY DEF ModeInv, DigitalTune, NormalMode

\* The part of the configuration that no closure changes.
SameService == /\ config'.service = config.service /\ config'.tune = config.tune
               /\ config'.direct = config.direct

LEMMA BandTuneIs ==
  ASSUME config \in Configs, NEW d, NEW plan, NEW i, TuneProtocolBand(d, plan, i)
  PROVE  /\ SameService
         /\ ~sdr => config' = config /\ dongle' = d
         /\ sdr /\ i \in DOMAIN plan /\ plan[i] \in Tunings =>
               /\ Configured(config') = plan[i]
               /\ d = plan[i] => dongle' = plan[i]
               /\ d = Configured(config) => dongle' = plan[i]
  <1>1. CASE Retunes(plan, i)
    <2>1. /\ sdr /\ i \in DOMAIN plan
          /\ config' = [config EXCEPT !.center = plan[i].center, !.rate = plan[i].rate]
          /\ dongle' = BandTuned(d, plan[i])
      BY <1>1 DEF TuneProtocolBand, Retunes
    <2> DEFINE b == plan[i]
    <2>2. config' = [config EXCEPT !.center = b.center, !.rate = b.rate]
          /\ dongle' = At(b.center, IF b.rate = config.rate THEN d.rate ELSE b.rate)
      BY <2>1 DEF BandTuned
    <2> HIDE DEF b
    <2>3. SameService /\ config'.center = b.center /\ config'.rate = b.rate
      BY <2>2 DEF SameService, Configs
    <2>4. ASSUME b \in Tunings PROVE b = At(b.center, b.rate)
      BY <2>4 DEF Tunings, At
    <2>5. Configured(config') = At(b.center, b.rate)
      BY <2>3 DEF Configured
    <2>6. ASSUME d = Configured(config) PROVE d.rate = config.rate
      BY <2>6 DEF Configured, At
    <2> QED  BY <2>1, <2>2, <2>3, <2>4, <2>5, <2>6 DEF b
  <1>2. CASE ~Retunes(plan, i)
    BY <1>2 DEF TuneProtocolBand, Retunes, SameService
  <1> QED  BY <1>1, <1>2

\* Whatever closure runs.
LEMMA ExecuteIs ==
  ASSUME config \in Configs, Synced, ModeInv, NEW cmd \in Commands, Execute(cmd), UNCHANGED sdr
  PROVE  /\ SameService
         /\ ~sdr => UNCHANGED <<config, dongle, directMode>>
         /\ directMode' \in {directMode, "off", config.direct}
         /\ config.service = "radio" /\ ~Homing(cmd) /\ cmd.op # "scan" => config' = config
         /\ \A k \in {"overlap", "early"} : k \in odd' <=> k \in odd
         /\ cmd.op # "scan" => /\ odd' \ {"foreign"} = odd \ {"foreign"}
                               /\ fullScan' => fullScan
                               /\ UNCHANGED <<sweep, bandIdx>>
  <1> USE DEF SameService
  <1>1. CASE cmd.op = "service" /\ RunService(cmd.s, cmd.prev)
    <2>1. CASE cmd.s = "radio"
      <3>1. RadioTune(cmd.prev)
        BY <1>1, <2>1 DEF RunService, applyServiceHardware
      <3>2. /\ \A k \in {"overlap", "early"} : k \in odd' <=> k \in odd
            /\ odd' \ {"foreign"} = odd \ {"foreign"} /\ UNCHANGED <<fullScan, sweep, bandIdx>>
        BY <1>1 DEF RunService
      <3>3. ~Homing(cmd) => cmd.prev = "radio"
        BY <1>1, <2>1 DEF Homing
      <3>4. SameService
        BY <3>1, RadioTuneIs DEF Configs
      <3> QED  BY <1>1, <3>1, <3>2, <3>3, <3>4, RadioTuneIs
    <2>2. CASE cmd.s # "radio"
      <3>1. /\ \E t : DigitalTune(t, cmd.s)
            /\ UNCHANGED <<config, fullScan, sweep, bandIdx>> /\ odd' = odd
        BY <1>1, <2>2 DEF RunService, applyServiceHardware
      <3> QED  BY <1>1, <3>1, DigitalTuneIs
    <2> QED  BY <2>1, <2>2
  <1>2. CASE cmd.op = "leave" /\ RunLeave(cmd.prev)
    <2>1. RadioTune(cmd.prev)
      BY <1>2 DEF RunLeave
    <2>2. /\ \A k \in {"overlap", "early"} : k \in odd' <=> k \in odd
          /\ odd' \ {"foreign"} = odd \ {"foreign"} /\ UNCHANGED <<fullScan, sweep, bandIdx>>
      BY <1>2 DEF RunLeave
    <2>3. Homing(cmd)
      BY <1>2 DEF Homing
    <2>4. SameService
      BY <2>1, RadioTuneIs DEF Configs
    <2> QED  BY <1>2, <2>1, <2>2, <2>3, <2>4, RadioTuneIs
  <1>3. CASE cmd.op = "scan" /\ RunScan(cmd.full)
    <2>1. /\ TuneProtocolBand(IF sdr THEN bandTuning ELSE dongle, BandsOf(cmd.full), 1)
          /\ odd' = Begun(BandsOf(cmd.full)[1])
          /\ directMode' = IF sdr THEN NormalMode ELSE directMode
      BY <1>3 DEF RunScan, BeginScan
    <2>2. \A k \in {"overlap", "early"} : k \in odd' <=> k \in odd
      BY <2>1 DEF Begun
    <2>3. directMode' \in {directMode, "off"} /\ (~sdr => directMode' = directMode)
      BY <2>1 DEF NormalMode
    <2>4. SameService /\ (~sdr => config' = config /\ dongle' = dongle)
      BY <2>1, BandTuneIs
    <2> QED  BY <1>3, <2>2, <2>3, <2>4
  <1>4. CASE cmd.op = "stop" /\ RunStop
    BY <1>4 DEF RunStop
  <1>5. CASE cmd.op = "tune" /\ RunTune(cmd.center)
    BY <1>5 DEF RunTune
  <1>6. CASE cmd.op = "rate" /\ RunRate(cmd.rate)
    BY <1>6 DEF RunRate
  <1>7. CASE cmd.op = "listen" /\ RunListen(cmd.s, cmd.at)
    BY <1>7, DigitalTuneIs DEF RunListen, Foreign
  <1>8. CASE cmd.op = "unlisten" /\ RunUnlisten(cmd.s)
    BY <1>8 DEF RunUnlisten
  <1>9. CASE cmd.op = "track" /\ RunTrack
    BY <1>9, DigitalTuneIs DEF RunTrack, Foreign
  <1> QED  BY <1>1, <1>2, <1>3, <1>4, <1>5, <1>6, <1>7, <1>8, <1>9 DEF Execute

-----------------------------------------------------------------------------
(* A closure runs: between two blocks, or on its client's goroutine.       *)

Runs(cmd) ==
    /\ Pops(cmd) /\ Execute(cmd) /\ block = NoBlock
    /\ UNCHANGED <<streamVars, then, stage, block>>

LEMMA RunsCases ==
  ASSUME TypeOK, LoopInv
  PROVE  /\ drainCommands => live /\ \E cmd \in Commands : Runs(cmd)
         /\ \A c \in Clients : enqueue(c) => \/ running /\ UNCHANGED <<radioVars, scanVars, odd, then, stage,
                                                                       streamVars, block>>
                                                /\ Issued(c) /\ cmdCh' = Append(cmdCh, out[c])
                                                /\ out' = [out EXCEPT ![c] = NoCmd]
                                             \/ \E cmd \in Commands : Runs(cmd)
  <1>1. ASSUME drainCommands PROVE live /\ \E cmd \in Commands : Runs(cmd)
    <2>1. Head(cmdCh) \in Commands
      BY <1>1, TypedQueue DEF drainCommands, QueueType
    <2>2. live /\ Runs(Head(cmdCh))
      BY <1>1 DEF drainCommands, Runs, Pops
    <2> QED  BY <2>1, <2>2
  <1>2. ASSUME NEW c \in Clients, enqueue(c), ~running PROVE \E cmd \in Commands : Runs(cmd)
    <2>1. out[c] \in Commands /\ Issued(c)
      BY <1>2, TypedQueue DEF enqueue, QueueType, Issued
    <2>2. block = NoBlock
      BY <1>2 DEF LoopInv
    <2>3. Runs(out[c])
      BY <1>2, <2>1, <2>2 DEF enqueue, Runs, Pops
    <2> QED  BY <2>1, <2>3
  <1>3. ASSUME NEW c \in Clients, enqueue(c), running
        PROVE  /\ UNCHANGED <<radioVars, scanVars, odd, then, stage, streamVars, block>>
               /\ Issued(c) /\ cmdCh' = Append(cmdCh, out[c]) /\ out' = [out EXCEPT ![c] = NoCmd]
    BY <1>3 DEF enqueue, Issued
  <1> QED  BY <1>1, <1>2, <1>3

\* Less is pending than before.
LEMMA PopLess ==
  ASSUME QueueType, NEW cmd, Pops(cmd)
  PROVE  /\ cmd \in Pending /\ Pending' \subseteq Pending
         /\ \A d \in Clients : Issued(d)' => Issued(d) /\ out'[d] = out[d]
  <1>1. CASE cmdCh # <<>> /\ cmd = Head(cmdCh) /\ cmdCh' = Tail(cmdCh) /\ UNCHANGED out
    BY <1>1, PopHead DEF Issued
  <1>2. ASSUME NEW c \in Clients, Issued(c), cmd = out[c], UNCHANGED cmdCh,
               out' = [out EXCEPT ![c] = NoCmd]
        PROVE  /\ cmd \in Pending /\ Pending' \subseteq Pending
               /\ \A d \in Clients : Issued(d)' => Issued(d) /\ out'[d] = out[d]
    BY <1>2, PopIssued DEF Pending, Issuers
  <1> QED  BY <1>1, <1>2 DEF Pops

LEMMA RunsBase ==
  ASSUME TypeOK, ModeInv, BaseInv, NEW cmd \in Commands, Runs(cmd)
  PROVE  BaseInv'
  <1>1. SameService
    BY ExecuteIs DEF Runs, BaseInv, Synced, TypeOK, RadioType
  <1>2. /\ Pending' \subseteq Pending
        /\ \A d \in Clients : Issued(d)' => Issued(d)
    BY PopLess, TypedQueue DEF Runs
  <1>3. (config.direct = directSamplingForFreq(config.tune))'
    BY <1>1 DEF BaseInv, SameService, directSamplingForFreq
  <1>4. UNCHANGED <<live, sdr, stage, then>>
    BY DEF Runs
  <1>5. \A x \in Pending' : Aimed(x)
    BY <1>2 DEF BaseInv
  <1>6. \A c \in Clients : (then[c] # NoCall /\ then[c].call = "listen" =>
                                then[c].cmd.op = "listen" /\ Aimed(then[c].cmd))'
    BY <1>4 DEF BaseInv, Aimed
  <1> QED  BY <1>2, <1>3, <1>4, <1>5, <1>6 DEF BaseInv, Aimed

LEMMA RunsOne ==
  ASSUME TypeOK, ModeInv, BaseInv, OneInv, NEW cmd \in Commands, Runs(cmd)
  PROVE  OneInv'
  <1>0. UNCHANGED <<stage, sdr, opening, live>>
    BY DEF Runs
  <1>1. \A d \in Clients : Issued(d)' => Issued(d) /\ out'[d] = out[d]
    BY PopLess, TypedQueue DEF Runs
  <1>2. \A c \in Clients : Heavy(c)' => Heavy(c)
    BY <1>0, <1>1 DEF Heavy, Light
  <1>3. /\ SameService /\ (~sdr => config' = config)
        /\ directMode' \in {directMode, "off", config.direct}
        /\ cmd.op # "scan" => (fullScan' => fullScan) /\ UNCHANGED <<sweep, bandIdx>>
    BY ExecuteIs DEF Runs, BaseInv, Synced, TypeOK, RadioType
  <1>4. ASSUME NEW c \in Clients, stage'[c] = "opening"
        PROVE  opening' = config'
    <2>1. stage[c] = "opening" /\ ~sdr /\ ~live
      BY <1>0, <1>4 DEF BaseInv
    <2>2. opening' = config' /\ config' = config
      BY <1>0, <1>3, <2>1, <1>4 DEF OneInv
    <2> QED  BY <2>2
  <1>5. sdr' /\ ~Closing' => directMode' \in {"off", config'.direct}
    BY <1>0, <1>3 DEF OneInv, Closing, SameService
  <1> QED  BY <1>2, <1>4, <1>5 DEF OneInv

LEMMA RunsQueue ==
  ASSUME TypeOK, ModeInv, BaseInv, OneInv, QueueInv, NEW cmd \in Commands, Runs(cmd)
  PROVE  QueueInv'
  <1>0. UNCHANGED <<stage, running, block>> /\ block = NoBlock
    BY DEF Runs
  <1>1. /\ cmd \in Pending /\ Pending' \subseteq Pending /\ Pending \subseteq Pending' \cup {cmd}
        /\ Homing(cmd) => \A x \in Pending' : Light(x)
        /\ Switch(cmd) => Leads(cmd) = config.service \/ SwitchPending'
    BY Popped, TypedQueue DEF Runs
  <1>2. /\ \A i \in DOMAIN cmdCh' : \E k \in DOMAIN cmdCh :
              /\ cmdCh'[i] = cmdCh[k] /\ After(i)' \subseteq After(k)
              /\ \A x \in After(k) : x \in After(i)' \/ Light(x)
        /\ \A d \in Clients : Issued(d)' => Issued(d) /\ out'[d] = out[d]
        /\ cmdCh = <<>> => cmdCh' = <<>>
    BY PoppedOrder, TypedQueue DEF Runs
  <1>3. config'.service = config.service
        /\ (config.service = "radio" /\ ~Homing(cmd) /\ cmd.op # "scan" => config' = config)
    BY ExecuteIs DEF Runs, BaseInv, Synced, TypeOK, RadioType, SameService
  <1>a. \A x : Light(x) => ~Switch(x) /\ ~Homing(x) /\ x.op # "tune" /\ x.op # "rate"
    BY DEF Light, Switch, Homing
  <1>4. HomingLast'
    <2>1. HomePending' => config'.service = "radio"
      BY <1>1, <1>3 DEF QueueInv, HomingLast, HomePending, Homing
    <2>2. \A i \in DOMAIN cmdCh' : Homing(cmdCh'[i]) => \A x \in After(i)' : Light(x)
      BY <1>2 DEF QueueInv, HomingLast
    <2> QED  BY <2>1, <2>2 DEF HomingLast, Homing, Light
  <1>5. SwitchLast'
    <2>1. \A i \in DOMAIN cmdCh' : Switch(cmdCh'[i]) =>
            Leads(cmdCh'[i]) = config'.service \/ \E x \in After(i)' : Switch(x)
      BY <1>2, <1>3, <1>a DEF QueueInv, SwitchLast
    <2>2. \A c \in Clients : Issued(c)' /\ Switch(out'[c]) => Leads(out'[c]) = config'.service
      BY <1>2, <1>3 DEF QueueInv, SwitchLast
    <2> QED  BY <2>1, <2>2 DEF SwitchLast, Switch, Leads
  <1>6. NoneOvertaken'
    BY <1>0, <1>2 DEF QueueInv, NoneOvertaken, Light
  <1>7. ASSUME config'.service = "radio", ~HomePending'
        PROVE  /\ Homing(cmd) \/ ~HomePending
               /\ \A x \in Pending' : Switch(x) => Leads(x) = "radio"
    <2>1. Homing(cmd) \/ ~HomePending
      BY <1>1, <1>7 DEF HomePending, Homing
    <2>2. CASE Homing(cmd)
      BY <1>1, <1>a, <2>1, <2>2
    <2>3. CASE ~HomePending
      BY <1>1, <1>3, <1>7, <2>1, <2>3 DEF QueueInv, ScanLeft
    <2> QED  BY <2>1, <2>2, <2>3
  <1>8. ScanLeft'
    <2>1. \A c \in Clients : stage'[c] = "reopen" => config'.service = "radio" /\ ~HomePending'
      BY <1>0, <1>1, <1>3 DEF QueueInv, ScanLeft, HomePending, Homing
    <2>2. config'.service = "radio" /\ ~HomePending' =>
            block' = NoBlock /\ \A x \in Pending' : Switch(x) => Leads(x) = "radio"
      BY <1>0, <1>7
    <2> QED  BY <1>0, <2>1, <2>2 DEF ScanLeft, Switch, Leads
  <1>9. LatestInv'
    <2> SUFFICES ASSUME config'.service = "radio", ~HomePending',
                        \A c \in Clients : stage'[c] # "reopen"
                 PROVE  LatestInv'
      BY DEF LatestInv
    <2>1. CASE Homing(cmd)
      <3>1. \A x \in Pending' : x.op # "tune" /\ x.op # "rate"
        BY <1>1, <1>a, <2>1
      <3>2. /\ \A i \in DOMAIN cmdCh' : cmdCh'[i].op # "tune" /\ cmdCh'[i].op # "rate"
            /\ \A c \in Clients : Issued(c)' => out'[c].op # "tune" /\ out'[c].op # "rate"
        BY <3>1 DEF Pending, Issuers
      <3> QED  BY <3>2 DEF LatestInv
    <2>2. CASE ~HomePending
      <3>1. ~Homing(cmd) /\ cmd.op # "scan"
        BY <1>1, <1>3, <2>2 DEF HomePending, QueueInv, ScanLeft, Switch, Leads
      <3>2. config' = config
        BY <1>3, <3>1
      <3>3. /\ \A i \in DOMAIN cmdCh :
                 /\ cmdCh[i].op = "tune" =>
                       cmdCh[i].center = config.center \/ \E x \in After(i) : x.op = "tune"
                 /\ cmdCh[i].op = "rate" =>
                       cmdCh[i].rate = config.rate \/ \E x \in After(i) : x.op = "rate"
            /\ \A c \in Clients : Issued(c) =>
                 /\ out[c].op = "tune" => out[c].center = config.center
                 /\ out[c].op = "rate" => out[c].rate = config.rate
        BY <1>0, <1>3, <2>2 DEF QueueInv, LatestInv
      <3>4. \A i \in DOMAIN cmdCh' :
                 /\ cmdCh'[i].op = "tune" =>
                       cmdCh'[i].center = config'.center \/ \E x \in After(i)' : x.op = "tune"
                 /\ cmdCh'[i].op = "rate" =>
                       cmdCh'[i].rate = config'.rate \/ \E x \in After(i)' : x.op = "rate"
        BY <1>2, <1>a, <3>2, <3>3
      <3>5. \A c \in Clients : Issued(c)' =>
                 /\ out'[c].op = "tune" => out'[c].center = config'.center
                 /\ out'[c].op = "rate" => out'[c].rate = config'.rate
        BY <1>2, <3>2, <3>3
      <3> QED  BY <3>4, <3>5 DEF LatestInv
    <2> QED  BY <1>7, <2>1, <2>2
  <1> QED  BY <1>4, <1>5, <1>6, <1>8, <1>9 DEF QueueInv

\* The dongle after a closure that was not foreign.
LEMMA RunsTuned ==
  ASSUME TypeOK, ModeInv, BaseInv, OneInv, QueueInv, NEW cmd \in Commands, Runs(cmd),
         "foreign" \in odd \/ Tuned, "foreign" \notin odd'
  PROVE  Tuned'
  <1> SUFFICES ASSUME sdr', ~Closing' PROVE Tuned'
    BY DEF Tuned
  <1>0. UNCHANGED <<stage, sdr>> /\ sdr /\ ~Closing
    BY DEF Runs, Closing
  <1>1. /\ cmd \in Pending /\ Pending' \subseteq Pending /\ Pending \subseteq Pending' \cup {cmd}
        /\ Switch(cmd) => Leads(cmd) = config.service \/ SwitchPending'
        /\ config.service = "radio" /\ ~HomePending =>
              /\ cmd.op = "tune" => cmd.center = config.center \/ OpPending("tune")'
              /\ cmd.op = "rate" => cmd.rate = config.rate \/ OpPending("rate")'
    BY <1>0, Popped, TypedQueue DEF Runs, Closing
  <1>2. config \in Configs /\ Synced /\ Execute(cmd) /\ dongle \in Tunings
    BY DEF Runs, BaseInv, Synced, TypeOK, RadioType
  <1>3. SameService
    BY <1>0, <1>2, ExecuteIs
  <1>4. directMode \in {"off", config.direct}
    BY <1>0 DEF OneInv
  <1>5. Aimed(cmd)
    BY <1>1 DEF BaseInv
  <1>6. /\ cmd.op = "service" => RunService(cmd.s, cmd.prev)
        /\ cmd.op = "leave" => RunLeave(cmd.prev)
        /\ cmd.op = "stop" => RunStop
        /\ cmd.op = "tune" => RunTune(cmd.center)
        /\ cmd.op = "rate" => RunRate(cmd.rate)
        /\ cmd.op = "listen" => RunListen(cmd.s, cmd.at)
        /\ cmd.op = "unlisten" => RunUnlisten(cmd.s)
        /\ cmd.op = "track" => RunTrack
    BY <1>2 DEF Execute
  <1>7. cmd.op \in {"service", "leave", "scan", "stop", "tune", "rate", "listen", "unlisten", "track"}
        /\ (cmd.op = "listen" => cmd.s \in Listeners)
    BY DEF Commands
  <1>8. ASSUME NEW prev, RadioTune(prev), config.service = "radio"
        PROVE  OnRadio'
    <2>1. /\ dongle' = Configured(config') /\ directMode' = config.direct
      BY <1>0, <1>2, <1>4, <1>8, RadioTuneIs
    <2>2. dongle'.rate = config'.rate /\ dongle'.center = config'.center
      BY <2>1 DEF Configured, At
    <2> QED  BY <1>3, <2>1, <2>2 DEF OnRadio, SameService
  <1>9. cmd.op = "track" => "meteor" \notin active \/ config.service = "meteor"
    BY <1>0, <1>6 DEF RunTrack, Foreign
  <1>10. cmd.op = "listen" => cmd.s = config.service /\ dongle' = cmd.at
    <2>1. ASSUME cmd.op = "listen"
          PROVE  "foreign" \in odd' \/ (cmd.s = config.service /\ dongle' = cmd.at)
      BY <1>0, <1>6, <2>1, DigitalTuneIs DEF RunListen, Foreign
    <2> QED  BY <2>1
  <1>11. ASSUME config.service = "radio" PROVE HomePending' \/ OnRadio'
    <2>1. CASE Homing(cmd)
      <3>1. \E prev : RadioTune(prev)
        BY <1>6, <2>1 DEF Homing, RunLeave, RunService, applyServiceHardware
      <3> QED  BY <1>8, <1>11, <3>1
    <2>2. CASE ~Homing(cmd) /\ HomePending
      BY <1>1, <2>2 DEF HomePending, Homing
    <2>3. CASE ~Homing(cmd) /\ ~HomePending
      <3>1. Switch(cmd) => cmd.op = "service" /\ cmd.s = "radio"
        <4>1. Switch(cmd) => Leads(cmd) = "radio"
          BY <1>1, <1>11, <2>3 DEF QueueInv, ScanLeft
        <4> QED  BY <2>3, <4>1 DEF Switch, Leads, Homing
      <3>2. CASE Switch(cmd)
        <4>1. RadioTune(cmd.prev)
          BY <1>6, <3>1, <3>2 DEF RunService, applyServiceHardware
        <4> QED  BY <1>8, <1>11, <4>1
      <3>3. CASE ~Switch(cmd)
        <4>1. "foreign" \notin odd => OnRadio
          BY <1>0, <1>11, <2>3 DEF Tuned
        <4>2. config' = config
          BY <1>0, <1>2, <1>11, <2>3, <3>3, ExecuteIs DEF Switch
        <4>3. cmd.op \in {"stop", "tune", "rate", "unlisten", "track"}
          BY <1>7, <1>10, <1>11, <3>3 DEF Switch, Listeners
        <4>4. odd' = odd /\ directMode' = directMode
          BY <1>6, <1>9, <1>11, <4>3 DEF RunStop, RunTune, RunRate, RunUnlisten, RunTrack
        <4>5. \A op : OpPending(op) /\ op # cmd.op => OpPending(op)'
          BY <1>1 DEF OpPending
        <4>6. CASE cmd.op = "tune"
          <5>1. dongle' = [dongle EXCEPT !.center = snapFreqForMode(cmd.center, config)]
            BY <1>0, <1>6, <1>11, <4>6 DEF RunTune
          <5>2. dongle'.rate = dongle.rate /\ dongle'.center = snapFreqForMode(cmd.center, config)
            BY <1>2, <5>1 DEF Tunings
          <5>3. OpPending("tune")' \/ dongle'.center = snapFreqForMode(config'.center, config')
            BY <1>1, <1>11, <2>3, <4>2, <4>6, <5>2
          <5>4. OpPending("rate")' \/ dongle'.rate = config'.rate
            BY <4>1, <4>2, <4>4, <4>5, <4>6, <5>2 DEF OnRadio
          <5> QED  BY <4>1, <4>2, <4>4, <5>3, <5>4 DEF OnRadio
        <4>7. CASE cmd.op = "rate"
          <5>1. dongle' = [dongle EXCEPT !.rate = cmd.rate]
            BY <1>0, <1>6, <1>11, <4>7 DEF RunRate
          <5>2. dongle'.center = dongle.center /\ dongle'.rate = cmd.rate
            BY <1>2, <5>1 DEF Tunings
          <5>3. OpPending("rate")' \/ dongle'.rate = config'.rate
            BY <1>1, <1>11, <2>3, <4>2, <4>7, <5>2
          <5>4. OpPending("tune")' \/ dongle'.center \in {config'.center, snapFreqForMode(config'.center, config')}
            BY <4>1, <4>2, <4>4, <4>5, <4>7, <5>2 DEF OnRadio
          <5> QED  BY <4>1, <4>2, <4>4, <5>3, <5>4 DEF OnRadio
        <4>8. CASE cmd.op \in {"stop", "unlisten", "track"}
          <5>1. dongle' = dongle
            BY <1>6, <1>9, <1>11, <4>8 DEF RunStop, RunUnlisten, RunTrack
          <5>2. /\ OpPending("rate") => OpPending("rate")'
                /\ OpPending("tune") => OpPending("tune")'
            BY <4>5, <4>8
          <5> QED  BY <4>1, <4>2, <4>4, <5>1, <5>2 DEF OnRadio
        <4> QED  BY <4>3, <4>6, <4>7, <4>8
      <3> QED  BY <3>2, <3>3
    <2> QED  BY <2>1, <2>2, <2>3
  <1>12. ASSUME config.service \in Fixed, ~SwitchPending'
         PROVE  dongle' = FixedTuning[config.service]
    <2>1. config.service \notin {"radio", "protocol", "meteor"}
      BY <1>12 DEF Fixed
    <2>2. CASE Switch(cmd)
      <3>1. cmd.op = "service" /\ cmd.s = config.service
        BY <1>1, <1>12, <2>1, <2>2 DEF Switch, Leads
      <3>2. DigitalTune(effectiveTuning(config), cmd.s)
        BY <1>6, <2>1, <3>1 DEF RunService, applyServiceHardware
      <3>3. dongle' = effectiveTuning(config)
        BY <1>0, <3>2, DigitalTuneIs
      <3> QED  BY <2>1, <3>3 DEF effectiveTuning
    <2>3. CASE ~Switch(cmd)
      <3>1. "foreign" \notin odd => dongle = FixedTuning[config.service]
        <4>1. ~SwitchPending
          BY <1>1, <1>12, <2>3 DEF SwitchPending
        <4> QED  BY <1>0, <1>12, <4>1 DEF Tuned
      <3>2. CASE cmd.op = "listen"
        BY <1>5, <1>10, <2>1, <3>2 DEF Aimed
      <3>3. CASE cmd.op # "listen"
        <4>1. odd' = odd /\ dongle' = dongle
          BY <1>6, <1>7, <1>9, <2>1, <2>3, <3>3
             DEF Switch, RunStop, RunTune, RunRate, RunUnlisten, RunTrack
        <4> QED  BY <3>1, <4>1
      <3> QED  BY <3>2, <3>3
    <2> QED  BY <2>2, <2>3
  <1> QED  BY <1>3, <1>11, <1>12 DEF Tuned, SameService

LEMMA RunsScan ==
  ASSUME TypeOK, ModeInv, LoopInv, BaseInv, NEW cmd \in Commands, Runs(cmd),
         "overlap" \notin odd, "early" \notin odd, OneInv, QueueInv,
         "scan" \in odd \/ ScanQuiet, "scan" \notin odd'
  PROVE  ScanQuiet'
  <1>0. block' = NoBlock
    BY DEF Runs
  <1>1. Pending' \subseteq Pending /\ cmd \in Pending
    BY PopLess, TypedQueue DEF Runs
  <1>2. CASE ScanQuiet
    BY <1>0, <1>1, <1>2 DEF ScanQuiet, Switch
  <1>3. CASE "scan" \in odd
    <2>1. cmd.op = "scan" /\ RunScan(cmd.full) /\ Undisturbed
      <3>1. cmd.op = "scan"
        BY <1>3, ExecuteIs DEF Runs, BaseInv, Synced, TypeOK, RadioType
      <3>2. RunScan(cmd.full)
        BY <3>1 DEF Runs, Execute
      <3> QED  BY <1>3, <3>1, <3>2 DEF RunScan, BeginScan, Begun
    <2>2. CASE live /\ cmdCh # <<>> /\ cmd = Head(cmdCh) /\ cmdCh' = Tail(cmdCh) /\ UNCHANGED out
      <3>1. Len(cmdCh) <= 1 /\ \A c \in Clients : ~Issued(c)
        <4>1. running
          BY <2>2 DEF LoopInv
        <4> QED  BY <2>1, <4>1 DEF Undisturbed, Issued
      <3>2. cmdCh' = <<>> /\ \A c \in Clients : ~Issued(c)'
        BY <2>2, <3>1, TypedQueue DEF QueueType, Issued
      <3> QED  BY <1>0, <3>2 DEF ScanQuiet, Pending, Issuers
    <2>3. ASSUME NEW c \in Clients, ~running, Issued(c), cmd = out[c], UNCHANGED cmdCh,
                 out' = [out EXCEPT ![c] = NoCmd]
          PROVE  ScanQuiet'
      <3>1. cmdCh' = <<>>
        BY <2>1, <2>3 DEF QueueInv, NoneOvertaken, Light
      <3>2. ASSUME NEW x \in Pending' PROVE Light(x)
        <4>1. PICK d \in Clients : Issued(d)' /\ x = out'[d]
          BY <3>1, <3>2 DEF Pending, Issuers
        <4>2. d # c /\ Issued(d) /\ x = out[d]
          BY <2>3, <4>1, PopIssued, TypedQueue
        <4> QED  BY <2>1, <2>3, <4>2 DEF OneInv, Heavy, Light
      <3> QED  BY <1>0, <3>2 DEF ScanQuiet, Light, Switch
    <2> QED  BY <2>2, <2>3 DEF Runs, Pops
  <1> QED  BY <1>2, <1>3

\* A full scan keeps its band: no closure but its own tunes.
LEMMA RunsScanTuned ==
  ASSUME TypeOK, ModeInv, BaseInv, NEW cmd \in Commands, Runs(cmd),
         "scan" \in odd \/ ScanQuiet,
         Unlike({"foreign", "scan", "astray"}) => ScanTuned,
         Unlike({"foreign", "scan", "astray"})'
  PROVE  ScanTuned'
  <1> SUFFICES ASSUME fullScan', config'.service = "protocol", sdr'
               PROVE  dongle' = bandTuning' /\ Configured(config') = bandTuning'
    BY DEF ScanTuned
  <1>1. cmd \in Pending /\ sdr /\ Execute(cmd)
    BY PopLess, TypedQueue DEF Runs
  <1>2. /\ config'.service = config.service
        /\ cmd.op # "scan" => /\ odd' \ {"foreign"} = odd \ {"foreign"}
                              /\ fullScan' => fullScan
                              /\ UNCHANGED <<sweep, bandIdx>>
    BY ExecuteIs DEF Runs, BaseInv, Synced, TypeOK, RadioType, SameService
  <1>3. CASE cmd.op = "scan"
    <2>1. RunScan(cmd.full)
      BY <1>1, <1>3 DEF Execute
    <2>2. cmd.full = TRUE
      BY <1>3, <2>1 DEF Commands, RunScan, BeginScan
    <2>3. /\ fullScan' = TRUE /\ sweep' = TRUE /\ bandIdx' = 1
          /\ TuneProtocolBand(bandTuning, SweepBands, 1)
          /\ odd' = Begun(SweepBands[1])
      BY <1>1, <2>1, <2>2 DEF RunScan, BeginScan, BandsOf
    <2>4. bandTuning' = SweepBands[1] /\ 1 \in DOMAIN SweepBands /\ SweepBands[1] \in Tunings
      BY <2>3 DEF bandTuning, bands, BandsOf
    <2>5. dongle' = SweepBands[1]
      BY <1>1, <2>3 DEF Begun, Unlike
    <2>6. Configured(config') = SweepBands[1]
      BY <1>1, <2>3, <2>4, BandTuneIs DEF TypeOK, RadioType
    <2> QED  BY <2>4, <2>5, <2>6
  <1>4. CASE cmd.op # "scan"
    <2>1. "scan" \notin odd /\ "astray" \notin odd
      BY <1>2, <1>4 DEF Unlike
    <2>2. ~Switch(cmd) /\ cmd.op # "rate"
      BY <1>1, <2>1 DEF ScanQuiet
    <2>3. cmd.op \in {"stop", "tune", "listen", "unlisten", "track"}
          /\ (cmd.op = "listen" => cmd.s \in Listeners)
      BY <2>2 DEF Commands, Switch
    <2>4. bandTuning' = bandTuning
      BY <1>2, <1>4 DEF bandTuning, bands
    <2>5. odd \subseteq odd' /\ UNCHANGED <<config, dongle>>
      <3>1. CASE cmd.op = "stop"
        BY <1>1, <3>1 DEF Execute, RunStop
      <3>2. CASE cmd.op = "tune"
        BY <1>1, <1>2, <3>2 DEF Execute, RunTune
      <3>3. CASE cmd.op = "listen"
        <4>1. cmd.s # "protocol" /\ RunListen(cmd.s, cmd.at)
          BY <1>1, <2>3, <3>3 DEF Execute, Listeners
        <4> QED  BY <1>1, <1>2, <4>1 DEF RunListen, Foreign, Unlike
      <3>4. CASE cmd.op = "unlisten"
        BY <1>1, <3>4 DEF Execute, RunUnlisten
      <3>5. CASE cmd.op = "track"
        <4>1. RunTrack
          BY <1>1, <3>5 DEF Execute
        <4> QED  BY <1>1, <1>2, <4>1 DEF RunTrack, Foreign, Unlike
      <3> QED  BY <2>3, <3>1, <3>2, <3>3, <3>4, <3>5
    <2>6. ScanTuned
      BY <2>1, <2>5 DEF Unlike
    <2> QED  BY <1>1, <1>2, <1>4, <2>4, <2>5, <2>6 DEF ScanTuned
  <1> QED  BY <1>3, <1>4

\* A closure runs.
LEMMA RunsDongle ==
  ASSUME TypeOK, ModeInv, LoopInv, DongleInv, NEW cmd \in Commands, Runs(cmd)
  PROVE  DongleInv'
  <1>1. BaseInv /\ BaseInv'
    BY RunsBase DEF DongleInv
  <1>2. \A k \in {"overlap", "early"} : k \in odd' <=> k \in odd
    BY <1>1, ExecuteIs DEF Runs, BaseInv, Synced, TypeOK, RadioType
  <1>3. "overlap" \notin odd' => OneInv /\ OneInv'
    BY <1>1, <1>2, RunsOne DEF DongleInv
  <1>4. Unlike({"overlap", "early"})' => OneInv /\ QueueInv /\ QueueInv'
    BY <1>1, <1>2, <1>3, RunsQueue DEF DongleInv, Unlike
  <1>5. Unlike({"overlap", "early", "foreign"})' => Tuned'
    <2> SUFFICES ASSUME Unlike({"overlap", "early", "foreign"})' PROVE Tuned'
      OBVIOUS
    <2>1. OneInv /\ QueueInv /\ "foreign" \notin odd'
      BY <1>4 DEF Unlike
    <2>2. "foreign" \in odd \/ Tuned
      BY <1>2 DEF DongleInv, Unlike
    <2> QED  BY <1>1, <2>1, <2>2, RunsTuned
  <1>6. Unlike({"overlap", "early", "scan"})' => ScanQuiet'
    <2> SUFFICES ASSUME Unlike({"overlap", "early", "scan"})' PROVE ScanQuiet'
      OBVIOUS
    <2>1. OneInv /\ QueueInv /\ "scan" \notin odd' /\ "overlap" \notin odd /\ "early" \notin odd
      BY <1>2, <1>4 DEF Unlike
    <2>2. "scan" \in odd \/ ScanQuiet
      BY <2>1 DEF DongleInv, Unlike
    <2> QED  BY <1>1, <2>1, <2>2, RunsScan
  <1>7. Unlike({"overlap", "early", "foreign", "scan", "astray"})' => ScanTuned'
    <2> SUFFICES ASSUME Unlike({"overlap", "early", "foreign", "scan", "astray"})'
                 PROVE  ScanTuned'
      OBVIOUS
    <2>1. Unlike({"foreign", "scan", "astray"})' /\ "overlap" \notin odd /\ "early" \notin odd
      BY <1>2 DEF Unlike
    <2>2. /\ "scan" \in odd \/ ScanQuiet
          /\ Unlike({"foreign", "scan", "astray"}) => ScanTuned
      BY <2>1 DEF DongleInv, Unlike
    <2> QED  BY <1>1, <2>1, <2>2, RunsScanTuned
  <1> QED  BY <1>1, <1>3, <1>4, <1>5, <1>6, <1>7 DEF DongleInv

-----------------------------------------------------------------------------
(* Steps that leave most of it alone.                                      *)

LEMMA TunedFrame ==
  ASSUME Tuned, UNCHANGED <<config, dongle, directMode, sdr>>,
         Closing => Closing', Pending \subseteq Pending'
  PROVE  Tuned'
  BY DEF Tuned, OnRadio, OpPending, HomePending, SwitchPending, Homing, Switch

LEMMA ScanTunedFrame ==
  ASSUME ScanTuned, UNCHANGED <<config, dongle, sdr, fullScan, sweep, bandIdx>>
  PROVE  ScanTuned'
  BY DEF ScanTuned, bandTuning, bands

\* A closure of a client goes to the end of the queue of a running stream.
LEMMA EnqueueDongle ==
  ASSUME TypeOK, DongleInv, NEW c \in Clients, Issued(c), running,
         cmdCh' = Append(cmdCh, out[c]), out' = [out EXCEPT ![c] = NoCmd],
         UNCHANGED <<radioVars, scanVars, odd, then, stage, streamVars, block>>
  PROVE  DongleInv'
  <1>1. /\ Pending' = Pending
        /\ \A d \in Clients : Issued(d)' => d # c /\ Issued(d) /\ out'[d] = out[d]
        /\ \A i \in DOMAIN cmdCh' :
              \/ i \in DOMAIN cmdCh /\ cmdCh'[i] = cmdCh[i] /\ After(i)' = After(i)
              \/ cmdCh'[i] = out[c] /\ After(i)' = {out[d] : d \in Issuers'}
    BY Moved, TypedQueue
  <1>2. BaseInv'
    <2>1. \A d \in Clients : (then[d] # NoCall /\ then[d].call = "listen" =>
                                then[d].cmd.op = "listen" /\ Aimed(then[d].cmd))'
      BY DEF DongleInv, BaseInv, Aimed
    <2> QED  BY <1>1, <2>1 DEF DongleInv, BaseInv, Aimed, directSamplingForFreq
  <1>3. ASSUME OneInv PROVE OneInv'
    <2>1. \A d \in Clients : Heavy(d)' => Heavy(d)
      BY <1>1 DEF Heavy, Light
    <2> QED  BY <1>3, <2>1 DEF OneInv, Closing, bandTuning, bands
  <1>4. ASSUME OneInv, QueueInv PROVE QueueInv'
    <2>1. HomingLast'
      <3>1. ASSUME NEW i \in DOMAIN cmdCh', Homing(cmdCh'[i]), NEW x \in After(i)'
            PROVE  Light(x)
        <4>1. CASE cmdCh'[i] = cmdCh[i] /\ After(i)' = After(i) /\ i \in DOMAIN cmdCh
          BY <1>4, <3>1, <4>1 DEF QueueInv, HomingLast
        <4>2. CASE cmdCh'[i] = out[c] /\ After(i)' = {out[d] : d \in Issuers'}
          <5>1. PICK d \in Clients : Issued(d)' /\ x = out[d]
            BY <3>1, <4>2 DEF Issuers
          <5>2. d # c /\ Issued(d) /\ Heavy(c)
            BY <1>1, <3>1, <4>2, <5>1 DEF Heavy, Homing, Light
          <5> QED  BY <1>4, <5>1, <5>2 DEF OneInv, Heavy
        <4> QED  BY <1>1, <4>1, <4>2
      <3> QED  BY <1>1, <1>4, <3>1 DEF QueueInv, HomingLast, HomePending, Homing, Light
    <2>2. SwitchLast'
      BY <1>1, <1>4 DEF QueueInv, SwitchLast, Switch, Leads
    <2>3. NoneOvertaken' /\ ScanLeft'
      BY <1>1, <1>4 DEF QueueInv, NoneOvertaken, ScanLeft, HomePending, SwitchPending,
                        Homing, Switch, Leads
    <2>4. LatestInv'
      <3> SUFFICES ASSUME config.service = "radio", ~HomePending, \A d \in Clients : stage[d] # "reopen"
                   PROVE  LatestInv'
        BY <1>1 DEF LatestInv, HomePending, Homing
      <3>1. /\ \A i \in DOMAIN cmdCh :
                  /\ cmdCh[i].op = "tune" =>
                        cmdCh[i].center = config.center \/ \E x \in After(i) : x.op = "tune"
                  /\ cmdCh[i].op = "rate" =>
                        cmdCh[i].rate = config.rate \/ \E x \in After(i) : x.op = "rate"
            /\ \A d \in Clients : Issued(d) =>
                  /\ out[d].op = "tune" => out[d].center = config.center
                  /\ out[d].op = "rate" => out[d].rate = config.rate
        BY <1>4 DEF QueueInv, LatestInv
      <3>2. ASSUME NEW i \in DOMAIN cmdCh'
            PROVE  /\ cmdCh'[i].op = "tune" =>
                        cmdCh'[i].center = config.center \/ \E x \in After(i)' : x.op = "tune"
                   /\ cmdCh'[i].op = "rate" =>
                        cmdCh'[i].rate = config.rate \/ \E x \in After(i)' : x.op = "rate"
        <4>1. CASE i \in DOMAIN cmdCh /\ cmdCh'[i] = cmdCh[i] /\ After(i)' = After(i)
          BY <3>1, <4>1
        <4>2. CASE cmdCh'[i] = out[c]
          BY <3>1, <4>2
        <4> QED  BY <1>1, <4>1, <4>2
      <3>3. \A d \in Clients : Issued(d)' =>
                  /\ out'[d].op = "tune" => out'[d].center = config.center
                  /\ out'[d].op = "rate" => out'[d].rate = config.rate
        BY <1>1, <3>1
      <3> QED  BY <3>2, <3>3 DEF LatestInv
    <2> QED  BY <2>1, <2>2, <2>3, <2>4 DEF QueueInv
  <1>5. Tuned => Tuned'
    BY <1>1, TunedFrame DEF Closing
  <1>6. ScanQuiet => ScanQuiet'
    BY <1>1 DEF ScanQuiet, Switch
  <1>7. ScanTuned => ScanTuned'
    BY ScanTunedFrame
  <1> QED  BY <1>2, <1>3, <1>4, <1>5, <1>6, <1>7 DEF DongleInv, Unlike

LEMMA QueueFrame ==
  ASSUME QueueInv, UNCHANGED <<cmdCh, out>>, NoneOvertaken',
         block' \in {block, NoBlock} \/ config.service = "protocol",
         config'.service = config.service, config.service = "radio" => config' = config \/ HomePending,
         \A c \in Clients : stage'[c] = "reopen" <=> stage[c] = "reopen"
  PROVE  QueueInv'
  <1>1. /\ Pending' = Pending /\ \A i : After(i)' = After(i)
        /\ \A c : Issued(c)' <=> Issued(c)
    BY DEF Pending, After, Issued, Issuers
  <1>2. HomingLast'
    BY <1>1 DEF QueueInv, HomingLast, HomePending, Homing, Light
  <1>3. SwitchLast'
    BY <1>1 DEF QueueInv, SwitchLast, Switch, Leads
  <1>4. ScanLeft'
    BY <1>1 DEF QueueInv, ScanLeft, HomePending, SwitchPending, Homing, Switch, Leads
  <1>5. LatestInv'
    <2> SUFFICES ASSUME config.service = "radio", ~HomePending,
                        \A d \in Clients : stage[d] # "reopen"
                 PROVE  LatestInv'
      BY <1>1 DEF LatestInv, HomePending, Homing
    <2> QED  BY <1>1 DEF QueueInv, LatestInv
  <1> QED  BY <1>2, <1>3, <1>4, <1>5 DEF QueueInv

\* No closure comes or goes, and the device stays as it is.
LEMMA StillDongle ==
  ASSUME DongleInv, UNCHANGED <<config, dongle, directMode, sdr, opening, cmdCh, out,
                                fullScan, sweep, bandIdx, odd>>,
         block' \in {block, NoBlock}, running => running', live' => sdr,
         \A c \in Clients :
            /\ stage'[c] # stage[c] =>
                  /\ ~Issued(c)
                  /\ \/ /\ stage[c] \in {"idle", "open", "opening", "start"}
                        /\ stage'[c] \in {"idle", "on", "off"}
                     \/ stage[c] = "stop" /\ stage'[c] = "close"
                     \/ stage[c] = "open" /\ stage'[c] = "start" /\ sdr
            /\ then'[c] \in {then[c], NoCall}
  PROVE  DongleInv'
  <1>1. /\ Pending' = Pending /\ \A c : Issued(c)' <=> Issued(c)
    BY DEF Pending, Issued, Issuers
  <1>2. \A c \in Clients : /\ stage'[c] = "reopen" <=> stage[c] = "reopen"
                           /\ stage'[c] \in {"stop", "close"} <=> stage[c] \in {"stop", "close"}
                           /\ stage'[c] = "opening" => stage[c] = "opening"
                           /\ stage'[c] = "start" => stage[c] = "start" \/ sdr
                           /\ Heavy(c)' => Heavy(c)
    BY <1>1 DEF Heavy, Light
  <1>3. BaseInv'
    <2>1. \A d \in Clients : (then[d] # NoCall /\ then[d].call = "listen" =>
                                then[d].cmd.op = "listen" /\ Aimed(then[d].cmd))'
      BY DEF DongleInv, BaseInv, Aimed
    <2> QED  BY <1>1, <1>2, <2>1 DEF DongleInv, BaseInv, Aimed, directSamplingForFreq
  <1>4. Closing <=> Closing'
    BY <1>2 DEF Closing
  <1>5. OneInv => OneInv'
    BY <1>2, <1>4 DEF OneInv, bandTuning, bands
  <1>6. QueueInv => QueueInv'
    <2>1. QueueInv => NoneOvertaken'
      BY <1>1 DEF QueueInv, NoneOvertaken, Light
    <2> QED  BY <1>2, <2>1, QueueFrame
  <1>7. Tuned => Tuned'
    BY <1>1, <1>4, TunedFrame
  <1>8. ScanQuiet => ScanQuiet'
    BY <1>1 DEF ScanQuiet, Switch
  <1>9. ScanTuned => ScanTuned'
    BY ScanTunedFrame
  <1> QED  BY <1>3, <1>5, <1>6, <1>7, <1>8, <1>9 DEF DongleInv, Unlike

-----------------------------------------------------------------------------
(* Setters.                                                                *)

\* What the setters have in common: the configuration cfg that one leaves, and
\* the closure cmd it issues for it.
Shape(cfg, cmd) ==
    /\ cfg.direct = config.direct /\ cfg.direct = directSamplingForFreq(cfg.tune)
    /\ cfg.service = config.service \/ (cmd # NoCmd /\ Switch(cmd))
    /\ cfg.service = "radio" /\ config.service # "radio" => cmd # NoCmd /\ Homing(cmd)
    /\ cfg.service = "radio" /\ config.service = "radio" =>
          /\ cfg.center = config.center \/ (cmd # NoCmd /\ cmd.op = "tune")
          /\ cfg.rate = config.rate \/ (cmd # NoCmd /\ cmd.op = "rate")
    /\ cmd # NoCmd => /\ Aimed(cmd)
                      /\ Switch(cmd) => Leads(cmd) = cfg.service
                      /\ cmd.op = "tune" => cmd.center = cfg.center
                      /\ cmd.op = "rate" => cmd.rate = cfg.rate

\* Only tuning the radio leaves a scan undisturbed.
Gentle(cfg, cmd) == /\ cfg.service = "radio" /\ config.service = "radio"
                    /\ cmd = NoCmd \/ (~Switch(cmd) /\ cmd.op # "rate")

Sets(c, cfg, cmd, kinds) ==
    /\ Idle(c) /\ Configure(c, cfg, cmd, kinds)
    /\ cmd \in Commands \cup {NoCmd} /\ Shape(cfg, cmd)
    /\ "scan" \in kinds \/ Gentle(cfg, cmd)
    /\ UNCHANGED <<stage, dongle, directMode, sdr, running, live, block, cmdCh>>

\* With nobody else under way, and no homing in the queue.
Alone(c) ==
    /\ \A d \in Clients \ {c} : Idle(d)
    /\ \A i \in DOMAIN cmdCh : ~Homing(cmdCh[i])
    /\ running \/ cmdCh = <<>>

LEMMA OddIs ==
  ASSUME NEW c, NEW kinds, odd' = odd \cup Oddities(c) \cup kinds
  PROVE  /\ odd \subseteq odd'
         /\ "overlap" \notin odd' => \A d \in Clients \ {c} : Idle(d)
         /\ Unlike({"overlap", "early"})' => Alone(c)
         /\ kinds \subseteq odd'
  BY DEF Oddities, Overlap, Unlike, Alone

LEMMA AloneIs ==
  ASSUME NEW c \in Clients, Idle(c), \A d \in Clients \ {c} : Idle(d)
  PROVE  /\ \A d \in Clients : ~Issued(d) /\ stage[d] = "idle"
         /\ ~Closing
         /\ Pending = {cmdCh[i] : i \in DOMAIN cmdCh}
  BY DEF Idle, Issued, Issuers, Closing, Pending

LEMMA SetsQueue ==
  ASSUME TypeOK, QueueInv, NEW c \in Clients, NEW cfg, NEW cmd, NEW kinds,
         Sets(c, cfg, cmd, kinds), Alone(c)
  PROVE  QueueInv'
  <1>1. /\ config' = cfg /\ Shape(cfg, cmd) /\ cmd \in Commands \cup {NoCmd}
        /\ UNCHANGED <<stage, running, block, cmdCh>>
    BY DEF Sets, Configure
  <1>2. /\ out'[c] = cmd
        /\ \A d \in Clients : Issued(d)' <=> d = c /\ cmd # NoCmd
        /\ cmd # NoCmd => /\ Pending' = Pending \cup {cmd}
                          /\ \A i \in DOMAIN cmdCh : After(i)' = After(i) \cup {cmd}
        /\ cmd = NoCmd => /\ Pending' = Pending
                          /\ \A i \in DOMAIN cmdCh : After(i)' = After(i)
        /\ ~HomePending /\ \A d \in Clients : stage[d] = "idle"
    <2>1. /\ \A d \in Clients : ~Issued(d) /\ stage[d] = "idle"
          /\ Pending = {cmdCh[i] : i \in DOMAIN cmdCh}
      BY AloneIs DEF Sets, Alone
    <2>2. Issues(c, cmd)
      BY <2>1 DEF Sets, Configure, Issues
    <2> QED  BY <2>1, <2>2, <1>1, IssuedIs, TypedQueue DEF Alone, HomePending
  <1>3. HomingLast'
    <2>1. \A i \in DOMAIN cmdCh : ~Homing(cmdCh[i])
      BY DEF Alone
    <2>2. HomePending' => cmd # NoCmd /\ Homing(cmd)
      BY <1>2 DEF HomePending, Homing
    <2>3. cmd # NoCmd /\ Homing(cmd) => cfg.service = "radio"
      BY <1>1 DEF Shape, Homing, Switch, Leads
    <2> QED  BY <1>1, <2>1, <2>2, <2>3 DEF HomingLast, Homing
  <1>4. SwitchLast'
    <2>1. \A d \in Clients : Issued(d)' /\ Switch(out'[d]) => Leads(out'[d]) = cfg.service
      BY <1>1, <1>2 DEF Shape
    <2>2. ASSUME NEW i \in DOMAIN cmdCh, Switch(cmdCh[i])
          PROVE  Leads(cmdCh[i]) = cfg.service \/ \E x \in After(i)' : Switch(x)
      BY <1>1, <1>2, <2>2 DEF Shape, QueueInv, SwitchLast
    <2> QED  BY <1>1, <2>1, <2>2 DEF SwitchLast, Switch, Leads
  <1>5. NoneOvertaken'
    BY <1>1 DEF Alone, NoneOvertaken
  <1>6. ASSUME cfg.service = "radio", ~HomePending' PROVE config.service = "radio"
    BY <1>1, <1>2, <1>6 DEF Shape, HomePending, Homing
  <1>7. ScanLeft'
    <2>1. block # NoBlock /\ cfg.service # "protocol" => SwitchPending'
      BY <1>1, <1>2 DEF Shape, QueueInv, ScanLeft, SwitchPending, Switch
    <2>2. cfg.service = "radio" /\ ~HomePending' =>
            /\ block = NoBlock
            /\ \A x \in Pending' : Switch(x) => Leads(x) = "radio"
      <3> SUFFICES ASSUME cfg.service = "radio", ~HomePending'
                   PROVE  /\ block = NoBlock
                          /\ \A x \in Pending' : Switch(x) => Leads(x) = "radio"
        OBVIOUS
      <3>1. block = NoBlock /\ \A x \in Pending : Switch(x) => Leads(x) = "radio"
        BY <1>2, <1>6 DEF QueueInv, ScanLeft
      <3> QED  BY <1>1, <1>2, <3>1 DEF Shape
    <2> QED  BY <1>1, <1>2, <2>1, <2>2 DEF ScanLeft, Switch, Leads
  <1>8. LatestInv'
    <2> SUFFICES ASSUME cfg.service = "radio", ~HomePending' PROVE LatestInv'
      BY <1>1 DEF LatestInv
    <2>1. /\ config.service = "radio"
          /\ \A i \in DOMAIN cmdCh :
                /\ cmdCh[i].op = "tune" =>
                      cmdCh[i].center = config.center \/ \E x \in After(i) : x.op = "tune"
                /\ cmdCh[i].op = "rate" =>
                      cmdCh[i].rate = config.rate \/ \E x \in After(i) : x.op = "rate"
      BY <1>2, <1>6 DEF QueueInv, LatestInv
    <2>2. ASSUME NEW i \in DOMAIN cmdCh
          PROVE  /\ cmdCh[i].op = "tune" =>
                      cmdCh[i].center = cfg.center \/ \E x \in After(i)' : x.op = "tune"
                 /\ cmdCh[i].op = "rate" =>
                      cmdCh[i].rate = cfg.rate \/ \E x \in After(i)' : x.op = "rate"
      BY <1>1, <1>2, <2>1 DEF Shape
    <2>3. \A d \in Clients : Issued(d)' =>
             /\ out'[d].op = "tune" => out'[d].center = cfg.center
             /\ out'[d].op = "rate" => out'[d].rate = cfg.rate
      BY <1>1, <1>2 DEF Shape
    <2> QED  BY <1>1, <2>2, <2>3 DEF LatestInv
  <1> QED  BY <1>3, <1>4, <1>5, <1>7, <1>8 DEF QueueInv

LEMMA SetsDongle ==
  ASSUME TypeOK, DongleInv, NEW c \in Clients, NEW cfg, NEW cmd, NEW kinds,
         Sets(c, cfg, cmd, kinds),
         \A d \in Clients : then'[d] # then[d] /\ then'[d] # NoCall /\ then'[d].call = "listen" =>
                               then'[d].cmd.op = "listen" /\ Aimed(then'[d].cmd)
  PROVE  DongleInv'
  <1>1. /\ config' = cfg /\ Shape(cfg, cmd) /\ cmd \in Commands \cup {NoCmd}
        /\ Issues(c, cmd) /\ Idle(c)
        /\ UNCHANGED <<stage, dongle, directMode, sdr, running, live, block, cmdCh>>
    BY DEF Sets, Configure, Issues, Idle, Issued
  <1>2. /\ odd \subseteq odd'
        /\ "overlap" \notin odd' => \A d \in Clients \ {c} : Idle(d)
        /\ Unlike({"overlap", "early"})' => Alone(c)
        /\ "scan" \notin odd' => Gentle(cfg, cmd)
    BY OddIs DEF Sets, Configure
  <1>3. /\ \A d \in Clients \ {c} : out'[d] = out[d] /\ (Issued(d)' <=> Issued(d))
        /\ Pending' = IF cmd = NoCmd THEN Pending ELSE Pending \cup {cmd}
        /\ Pending \subseteq Pending'
    BY <1>1, IssuedIs, TypedQueue
  <1>4. BaseInv'
    <2>1. \A d \in Clients : (stage[d] # "idle" => ~Issued(d))'
      BY <1>1, <1>3 DEF DongleInv, BaseInv, Idle
    <2>2. \A d \in Clients : (then[d] # NoCall /\ then[d].call = "listen" =>
                                then[d].cmd.op = "listen" /\ Aimed(then[d].cmd))'
      BY DEF DongleInv, BaseInv, Aimed
    <2>3. (\A x \in Pending : Aimed(x))'
      BY <1>1, <1>3 DEF DongleInv, BaseInv, Aimed, Shape
    <2> QED  BY <1>1, <2>1, <2>2, <2>3
             DEF DongleInv, BaseInv, Shape, directSamplingForFreq, Aimed
  <1>5. ASSUME "overlap" \notin odd', OneInv PROVE OneInv'
    <2>1. (\A d \in Clients : ~Issued(d) /\ stage[d] = "idle") /\ ~Closing
      BY <1>1, <1>2, <1>5, AloneIs
    <2>2. \A d \in Clients : stage'[d] = "idle" /\ (Heavy(d)' => d = c)
      BY <1>1, <1>3, <2>1 DEF Heavy
    <2> QED  BY <1>1, <1>5, <2>1, <2>2 DEF OneInv, Closing, Shape
  <1>6. ASSUME Unlike({"overlap", "early"})', QueueInv PROVE QueueInv'
    BY <1>2, <1>6, SetsQueue
  <1>7. ASSUME Tuned PROVE Tuned'
    <2> SUFFICES ASSUME sdr', ~Closing' PROVE Tuned'
      BY DEF Tuned
    <2>1. sdr /\ ~Closing
      BY <1>1 DEF Closing
    <2>2. ASSUME cfg.service = "radio" PROVE HomePending' \/ OnRadio'
      <3>1. CASE config.service # "radio"
        BY <1>1, <1>3, <2>2, <3>1 DEF Shape, HomePending, Homing
      <3>2. CASE config.service = "radio" /\ HomePending
        BY <1>3, <3>2 DEF HomePending, Homing
      <3>3. CASE config.service = "radio" /\ ~HomePending
        <4>1. OnRadio
          BY <1>7, <2>1, <3>3 DEF Tuned
        <4>2. /\ OpPending("tune") => OpPending("tune")'
              /\ OpPending("rate") => OpPending("rate")'
          BY <1>3 DEF OpPending
        <4>3. OpPending("rate")' \/ dongle'.rate = cfg.rate
          BY <1>1, <1>3, <2>2, <3>3, <4>1, <4>2 DEF OnRadio, OpPending, Shape
        <4>4. \A f : snapFreqForMode(f, cfg) = snapFreqForMode(f, config)
          BY <1>1 DEF snapFreqForMode, Shape
        <4>5. CASE cfg.center = config.center
          <5>1. OpPending("tune")' \/ dongle'.center \in {cfg.center, snapFreqForMode(cfg.center, cfg)}
            BY <1>1, <4>1, <4>2, <4>4, <4>5 DEF OnRadio
          <5> QED  BY <1>1, <4>1, <4>3, <5>1 DEF OnRadio, Shape
        <4>6. CASE cfg.center # config.center
          <5>1. OpPending("tune")'
            BY <1>1, <1>3, <2>2, <3>3, <4>6 DEF OpPending, Shape
          <5> QED  BY <1>1, <4>1, <4>3, <5>1 DEF OnRadio, Shape
        <4> QED  BY <4>5, <4>6
      <3> QED  BY <3>1, <3>2, <3>3
    <2>3. ASSUME cfg.service \in Fixed PROVE SwitchPending' \/ dongle' = FixedTuning[cfg.service]
      <3>1. CASE cfg.service # config.service
        BY <1>1, <1>3, <3>1 DEF Shape, SwitchPending, Switch
      <3>2. CASE cfg.service = config.service
        <4>1. SwitchPending \/ dongle = FixedTuning[config.service]
          BY <1>7, <2>1, <2>3, <3>2 DEF Tuned
        <4> QED  BY <1>1, <1>3, <3>2, <4>1 DEF SwitchPending, Switch
      <3> QED  BY <3>1, <3>2
    <2> QED  BY <1>1, <2>2, <2>3 DEF Tuned
  <1>8. ASSUME "scan" \notin odd', ScanQuiet PROVE ScanQuiet'
    BY <1>1, <1>2, <1>3, <1>8 DEF ScanQuiet, Gentle, Switch
  <1>9. "scan" \notin odd' => ScanTuned'
    BY <1>1, <1>2 DEF ScanTuned, Gentle
  <1> QED  BY <1>2, <1>4, <1>5, <1>6, <1>7, <1>8, <1>9 DEF DongleInv, Unlike

\* A setter that leaves the configuration alone.
LEMMA LightDongle ==
  ASSUME TypeOK, DongleInv, NEW c \in Clients, Idle(c), NEW cmd \in Commands,
         Light(cmd), Aimed(cmd), EnqueueOnly(c, cmd),
         UNCHANGED <<radioVars, sdr, running, live, opening, block, cmdCh, stage,
                     fullScan, sweep, bandIdx>>,
         \A d \in Clients : then'[d] # then[d] /\ then'[d] # NoCall => then'[d].call # "listen"
  PROVE  DongleInv'
  <1>1. /\ out' = [out EXCEPT ![c] = cmd] /\ odd' = odd /\ cmd # NoCmd /\ Issues(c, cmd)
        /\ stage[c] = "idle"
    BY DEF EnqueueOnly, Issues, Issued, Idle
  <1>2. /\ \A d \in Clients \ {c} : out'[d] = out[d] /\ (Issued(d)' <=> Issued(d))
        /\ out'[c] = cmd
        /\ Pending' = Pending \cup {cmd}
        /\ \A i \in DOMAIN cmdCh : After(i)' = After(i) \cup {cmd}
    BY <1>1, IssuedIs, TypedQueue
  <1>a. ~Switch(cmd) /\ ~Homing(cmd) /\ cmd.op # "tune" /\ cmd.op # "rate"
    BY DEF Light, Switch, Homing
  <1>3. BaseInv'
    <2>1. \A d \in Clients : (stage[d] # "idle" => ~Issued(d))'
      BY <1>1, <1>2 DEF DongleInv, BaseInv
    <2>2. \A d \in Clients : (then[d] # NoCall /\ then[d].call = "listen" =>
                                then[d].cmd.op = "listen" /\ Aimed(then[d].cmd))'
      BY DEF DongleInv, BaseInv, Aimed
    <2>3. (\A x \in Pending : Aimed(x))'
      BY <1>2 DEF DongleInv, BaseInv, Aimed
    <2> QED  BY <2>1, <2>2, <2>3 DEF DongleInv, BaseInv, directSamplingForFreq, Aimed
  <1>4. OneInv => OneInv'
    <2>1. \A d \in Clients : Heavy(d)' => Heavy(d)
      BY <1>1, <1>2 DEF Heavy, Light
    <2> QED  BY <2>1 DEF OneInv, Closing, bandTuning, bands
  <1>5. QueueInv => QueueInv'
    <2>1. (HomePending' <=> HomePending) /\ (SwitchPending' <=> SwitchPending)
      BY <1>2, <1>a DEF HomePending, SwitchPending, Homing, Switch
    <2>2. HomingLast => HomingLast'
      BY <1>2, <2>1 DEF HomingLast, Homing, Light
    <2>3. SwitchLast => SwitchLast'
      BY <1>2, <1>a DEF SwitchLast, Switch, Leads
    <2>4. NoneOvertaken => NoneOvertaken'
      BY <1>2 DEF NoneOvertaken, Light
    <2>5. ScanLeft => ScanLeft'
      BY <1>2, <1>a, <2>1 DEF ScanLeft, Switch, Leads
    <2>6. LatestInv => LatestInv'
      <3> SUFFICES ASSUME LatestInv, config.service = "radio", ~HomePending,
                          \A d \in Clients : stage[d] # "reopen"
                   PROVE  LatestInv'
        BY <2>1 DEF LatestInv
      <3> QED  BY <1>2, <1>a DEF LatestInv
    <2> QED  BY <2>2, <2>3, <2>4, <2>5, <2>6 DEF QueueInv
  <1>6. Tuned => Tuned'
    BY <1>2, TunedFrame DEF Closing
  <1>7. ScanQuiet => ScanQuiet'
    BY <1>2, <1>a DEF ScanQuiet, Switch
  <1>8. ScanTuned => ScanTuned'
    BY ScanTunedFrame
  <1> QED  BY <1>1, <1>3, <1>4, <1>5, <1>6, <1>7, <1>8 DEF DongleInv, Unlike

\* A setter of the radio that goes on to a reopen.
LEMMA ReopenDongle ==
  ASSUME TypeOK, DongleInv, NEW c \in Clients, Idle(c), NEW cfg, Reconfigure(c, cfg),
         config.service = "radio", cfg.service = "radio",
         cfg.direct = directSamplingForFreq(cfg.tune),
         UNCHANGED <<out, then, dongle, directMode, sdr, running, live, opening, block, cmdCh>>
  PROVE  DongleInv'
  <1>1. /\ config' = cfg /\ odd' = odd \cup Oddities(c) \cup {}
        /\ stage'[c] = "reopen" /\ \A d \in Clients \ {c} : stage'[d] = stage[d]
    BY DEF Reconfigure, TypeOK, StreamType
  <1>2. /\ odd \subseteq odd'
        /\ "overlap" \notin odd' => \A d \in Clients \ {c} : Idle(d)
        /\ Unlike({"overlap", "early"})' => Alone(c)
    BY <1>1, OddIs
  <1>3. /\ Pending' = Pending /\ \A i : After(i)' = After(i)
        /\ \A d : Issued(d)' <=> Issued(d)
    BY DEF Pending, After, Issued, Issuers
  <1>4. BaseInv'
    <2>1. \A d \in Clients : (stage[d] # "idle" => ~Issued(d))'
      BY <1>1, <1>3 DEF DongleInv, BaseInv, Idle, Issued
    <2>2. \A d \in Clients : (then[d] # NoCall /\ then[d].call = "listen" =>
                                then[d].cmd.op = "listen" /\ Aimed(then[d].cmd))'
      BY DEF DongleInv, BaseInv, Aimed
    <2>3. \A d \in Clients : (stage[d] = "start" => sdr)' /\ (stage[d] = "opening" => ~sdr)'
      BY <1>1 DEF DongleInv, BaseInv
    <2>4. (config.direct = directSamplingForFreq(config.tune))'
      BY <1>1 DEF directSamplingForFreq
    <2>5. (\A x \in Pending : Aimed(x))'
      BY <1>3 DEF DongleInv, BaseInv, Aimed
    <2> QED  BY <1>3, <2>1, <2>2, <2>3, <2>4, <2>5 DEF DongleInv, BaseInv
  <1>5. Closing'
    BY <1>1 DEF Closing
  <1>6. ASSUME "overlap" \notin odd' PROVE OneInv'
    <2>1. \A d \in Clients : ~Issued(d) /\ stage[d] = "idle"
      BY <1>2, <1>6, AloneIs
    <2>2. \A d \in Clients : stage'[d] # "opening" /\ (Heavy(d)' => d = c)
      BY <1>1, <1>3, <2>1 DEF Heavy
    <2> QED  BY <1>5, <2>2 DEF OneInv
  <1>7. ASSUME Unlike({"overlap", "early"})', QueueInv PROVE QueueInv'
    <2>1. /\ \A d \in Clients : ~Issued(d) /\ stage[d] = "idle"
          /\ Pending = {cmdCh[i] : i \in DOMAIN cmdCh}
      BY <1>2, <1>7, AloneIs DEF Alone
    <2>2. ~HomePending
      BY <1>2, <1>7, <2>1 DEF Alone, HomePending
    <2>3. ~HomePending' /\ HomingLast'
      BY <1>2, <1>3, <1>7, <2>2 DEF HomingLast, HomePending, Homing, Alone
    <2>4. SwitchLast'
      BY <1>1, <1>3, <1>7, <2>1 DEF QueueInv, SwitchLast, Switch, Leads
    <2>5. NoneOvertaken'
      BY <1>3, <2>1 DEF NoneOvertaken
    <2>6. ScanLeft'
      <3>1. block = NoBlock /\ \A x \in Pending : Switch(x) => Leads(x) = "radio"
        BY <1>7, <2>2 DEF QueueInv, ScanLeft
      <3> QED  BY <1>1, <1>3, <2>3, <3>1 DEF ScanLeft, Switch, Leads
    <2>7. LatestInv'
      BY <1>1 DEF LatestInv
    <2> QED  BY <2>3, <2>4, <2>5, <2>6, <2>7 DEF QueueInv
  <1>8. Tuned'
    BY <1>5 DEF Tuned
  <1>9. ScanQuiet => ScanQuiet'
    BY <1>3 DEF ScanQuiet, Switch
  <1>10. ScanTuned'
    BY <1>1 DEF ScanTuned
  <1> QED  BY <1>2, <1>4, <1>6, <1>7, <1>8, <1>9, <1>10 DEF DongleInv, Unlike

LEMMA SyncIs ==
  ASSUME NEW cfg \in Configs
  PROVE  LET new == syncDirectSampling(cfg)
         IN  /\ new \in Configs /\ new.direct = directSamplingForFreq(cfg.tune)
             /\ new.service = cfg.service /\ new.tune = cfg.tune /\ new.center = cfg.center
             /\ cfg.direct = directSamplingForFreq(cfg.tune) => new = cfg
             /\ cfg.direct # directSamplingForFreq(cfg.tune) => new.direct # cfg.direct
  <1> DEFINE want == directSamplingForFreq(cfg.tune)
             rate == IF want = "Q"
                     THEN IF cfg.rate > 1024 THEN 1024 ELSE cfg.rate
                     ELSE IF cfg.rate < 1500 THEN 2048 ELSE cfg.rate
  <1>1. syncDirectSampling(cfg) =
          IF cfg.direct = want THEN cfg ELSE [cfg EXCEPT !.direct = want, !.rate = rate]
    BY DEF syncDirectSampling
  <1>2. syncDirectSampling(cfg) \in Configs
    BY SyncType
  <1> HIDE DEF want, rate
  <1>3. LET new == syncDirectSampling(cfg)
        IN  /\ new.direct = want /\ new.service = cfg.service /\ new.tune = cfg.tune
            /\ new.center = cfg.center
            /\ cfg.direct = want => new = cfg
    BY <1>1 DEF Configs
  <1> QED  BY <1>2, <1>3 DEF want

LEMMA MessageIs ==
  ASSUME NEW c, Message(c) PROVE Idle(c)
  BY DEF Message, Free

LEMMA TuneDongle ==
  ASSUME TypeOK, DongleInv, NEW c \in Clients, Tune(c)
  PROVE  DongleInv'
  <1>0. /\ Idle(c) /\ config \in Configs /\ Synced /\ NoCmd \in Commands \cup {NoCmd}
        /\ UNCHANGED <<then, dongle, directMode, sdr, running, live, opening, block, cmdCh>>
    BY MessageIs DEF Tune, DongleInv, BaseInv, Synced, TypeOK, RadioType
  <1>1. ASSUME NEW f \in TuneFreqs, SetTuneFreq(c, f) PROVE DongleInv'
    <2> DEFINE old == [config EXCEPT !.tune = f]
               cfg == syncDirectSampling(old)
               far == \/ (f - cfg.center) * 100 > cfg.rate * 45
                      \/ (cfg.center - f) * 100 > cfg.rate * 45
               new == IF far THEN [cfg EXCEPT !.center = f] ELSE cfg
    <2>1. f \in Nat /\ old \in Configs
      BY <1>0 DEF Configs
    <2>2. /\ old.service = config.service /\ old.tune = f /\ old.center = config.center
          /\ old.rate = config.rate /\ old.direct = config.direct
      BY <1>0 DEF Configs
    <2>3. /\ config.service = "radio"
          /\ IF cfg.direct # config.direct
             THEN Reconfigure(c, new) /\ UNCHANGED out
             ELSE Configure(c, new, IF far THEN TuneCmd(f) ELSE NoCmd, {}) /\ UNCHANGED stage
      BY <1>1 DEF SetTuneFreq
    <2> HIDE DEF old
    <2>4. /\ cfg \in Configs /\ cfg.direct = directSamplingForFreq(f)
          /\ cfg.service = config.service /\ cfg.tune = f /\ cfg.center = config.center
          /\ cfg.direct = config.direct => cfg = old
      BY <2>1, <2>2, SyncIs
    <2> HIDE DEF cfg, far
    <2>5. /\ new.service = "radio" /\ new.direct = cfg.direct /\ new.tune = f /\ new.rate = cfg.rate
          /\ new.center = IF far THEN f ELSE config.center
      BY <2>3, <2>4 DEF Configs
    <2> HIDE DEF new
    <2>6. CASE cfg.direct # config.direct
      BY <1>0, <2>3, <2>4, <2>5, <2>6, ReopenDongle
    <2>7. CASE cfg.direct = config.direct
      <3> DEFINE cmd == IF far THEN TuneCmd(f) ELSE NoCmd
      <3>1. new.rate = config.rate
        BY <2>2, <2>4, <2>5, <2>7
      <3>2. CASE far
        <4>1. cmd \in Commands /\ cmd.op = "tune" /\ cmd.center = f /\ cmd # NoCmd
          BY <2>1, <3>2 DEF TuneCmd, Commands
        <4> HIDE DEF cmd
        <4>2. Shape(new, cmd) /\ Gentle(new, cmd)
          BY <2>3, <2>4, <2>5, <2>7, <3>1, <3>2, <4>1 DEF Shape, Gentle, Switch, Homing, Aimed
        <4>3. Sets(c, new, cmd, {})
          BY <1>0, <2>3, <2>7, <4>1, <4>2 DEF Sets, cmd
        <4> QED  BY <1>0, <4>3, SetsDongle
      <3>3. CASE ~far
        <4>1. cmd = NoCmd
          BY <3>3
        <4> HIDE DEF cmd
        <4>2. Shape(new, cmd) /\ Gentle(new, cmd)
          BY <2>3, <2>4, <2>5, <2>7, <3>1, <3>3, <4>1 DEF Shape, Gentle
        <4>3. Sets(c, new, cmd, {})
          BY <1>0, <2>3, <2>7, <4>1, <4>2 DEF Sets, cmd
        <4> QED  BY <1>0, <4>3, SetsDongle
      <3> QED  BY <3>2, <3>3
    <2> QED  BY <2>6, <2>7
  <1>2. ASSUME NEW f \in CenterFreqs, SetCenterFreq(c, f) PROVE DongleInv'
    <2> DEFINE cfg == [config EXCEPT !.center = f]
               cmd == TuneCmd(f)
    <2>1. syncDirectSampling(config) = config
      BY <1>0, SyncIs DEF Synced
    <2>2. /\ cfg.service = config.service /\ cfg.center = f /\ cfg.rate = config.rate
          /\ cfg.direct = config.direct /\ cfg.tune = config.tune
      BY <1>0 DEF Configs
    <2>3. config.service = "radio" /\ Configure(c, cfg, cmd, {}) /\ UNCHANGED stage
      BY <1>2, <2>1, <2>2 DEF SetCenterFreq
    <2> HIDE DEF cfg
    <2>4. cmd \in Commands /\ cmd.op = "tune" /\ cmd.center = f /\ cmd # NoCmd
      BY DEF TuneCmd, Commands
    <2> HIDE DEF cmd
    <2>5. Shape(cfg, cmd) /\ Gentle(cfg, cmd)
      BY <1>0, <2>2, <2>3, <2>4 DEF Shape, Gentle, Switch, Homing, Aimed, Synced
    <2>6. Sets(c, cfg, cmd, {})
      BY <1>0, <2>3, <2>4, <2>5 DEF Sets
    <2> QED  BY <1>0, <2>6, SetsDongle
  <1> QED  BY <1>1, <1>2 DEF Tune

LEMMA RateDongle ==
  ASSUME TypeOK, DongleInv, NEW c \in Clients, SampleRate(c)
  PROVE  DongleInv'
  <1>0. /\ Idle(c) /\ config \in Configs /\ Synced
        /\ UNCHANGED <<then, stage, dongle, directMode, sdr, running, live, block, cmdCh>>
    BY MessageIs DEF SampleRate, DongleInv, BaseInv, Synced, TypeOK, RadioType
  <1>1. PICK rate \in Rates : SetSampleRate(c, rate)
    BY DEF SampleRate
  <1> DEFINE cfg == [config EXCEPT !.rate = rate]
             cmd == RateCmd(rate)
  <1>2. /\ cfg.service = config.service /\ cfg.center = config.center /\ cfg.rate = rate
        /\ cfg.direct = config.direct /\ cfg.tune = config.tune
    BY <1>0 DEF Configs
  <1>3. Configure(c, cfg, cmd, {"scan"})
    BY <1>1 DEF SetSampleRate
  <1> HIDE DEF cfg
  <1>4. cmd \in Commands /\ cmd.op = "rate" /\ cmd.rate = rate /\ cmd # NoCmd
    BY DEF RateCmd, Commands
  <1> HIDE DEF cmd
  <1>5. Shape(cfg, cmd)
    BY <1>0, <1>2, <1>4 DEF Shape, Switch, Homing, Aimed, Synced
  <1>6. Sets(c, cfg, cmd, {"scan"})
    BY <1>0, <1>3, <1>4, <1>5 DEF Sets
  <1> QED  BY <1>0, <1>6, SetsDongle

\* Going home keeps the direct mode, whatever the service was.
LEMMA HomeShape ==
  ASSUME config \in Configs, Synced, NEW s \in AllServices, NEW cmd \in Commands,
         Switch(cmd), Leads(cmd) = s, s = "radio" /\ config.service # "radio" => Homing(cmd),
         NEW cfg,
         cfg = LET new == [config EXCEPT !.service = s]
               IN  IF s = "radio" /\ config.service # "radio" THEN Homed(new) ELSE new
  PROVE  Shape(cfg, cmd)
  <1> DEFINE new == [config EXCEPT !.service = s]
  <1>1. /\ new \in Configs /\ new.service = s /\ new.center = config.center
        /\ new.rate = config.rate /\ new.direct = config.direct /\ new.tune = config.tune
    BY DEF Configs
  <1> HIDE DEF new
  <1>2. Homed(new) = [new EXCEPT !.center = new.tune]
    <2> DEFINE home == [new EXCEPT !.center = new.tune]
    <2>1. home \in Configs /\ home.direct = new.direct /\ home.tune = new.tune
      BY <1>1 DEF Configs
    <2> HIDE DEF home
    <2>2. syncDirectSampling(home) = home
      BY <1>1, <2>1, SyncIs DEF Synced
    <2> QED  BY <2>2 DEF Homed, home
  <1>3. cfg = IF s = "radio" /\ config.service # "radio" THEN [new EXCEPT !.center = new.tune] ELSE new
    BY <1>2 DEF new
  <1>4. /\ cfg.service = s /\ cfg.direct = config.direct /\ cfg.tune = config.tune
        /\ s = "radio" /\ config.service = "radio" => /\ cfg.center = config.center
                                                      /\ cfg.rate = config.rate
    BY <1>1, <1>3 DEF Configs
  <1>5. cmd # NoCmd /\ cmd.op \notin {"listen", "tune", "rate"}
    BY DEF Switch
  <1> QED  BY <1>4, <1>5 DEF Shape, Aimed, Synced

LEMMA ServiceDongle ==
  ASSUME TypeOK, DongleInv, NEW c \in Clients, Idle(c), NEW s \in Services, SetService(c, s),
         UNCHANGED <<stage, dongle, directMode, sdr, running, live, block, cmdCh>>,
         \A d \in Clients : then'[d] # then[d] /\ then'[d] # NoCall /\ then'[d].call = "listen" =>
                               then'[d].cmd.op = "listen" /\ Aimed(then'[d].cmd)
  PROVE  DongleInv'
  <1> DEFINE new == [config EXCEPT !.service = s]
             cfg == IF s = "radio" /\ config.service # "radio" THEN Homed(new) ELSE new
             cmd == ServiceCmd(s, config.service)
  <1>0. config \in Configs /\ Synced /\ s \in AllServices
    BY DEF DongleInv, BaseInv, Synced, TypeOK, RadioType, AllServices
  <1>1. Configure(c, cfg, cmd, {"scan"})
    BY DEF SetService
  <1>2. cmd \in Commands /\ cmd.op = "service" /\ cmd.s = s /\ cmd.prev = config.service
    BY <1>0 DEF ServiceCmd, Commands, Configs
  <1> HIDE DEF cmd
  <1>3. Shape(cfg, cmd)
    BY <1>0, <1>2, HomeShape DEF Switch, Leads, Homing
  <1>4. Sets(c, cfg, cmd, {"scan"})
    BY <1>1, <1>2, <1>3 DEF Sets
  <1> QED  BY <1>4, SetsDongle

LEMMA LeaveDongle ==
  ASSUME TypeOK, DongleInv, NEW c \in Clients, Idle(c), config.service # "radio",
         switchToRadioFromProtocol(c),
         UNCHANGED <<stage, dongle, directMode, sdr, running, live, block, cmdCh>>,
         then' = [then EXCEPT ![c] = NoCall]
  PROVE  DongleInv'
  <1> DEFINE new == [config EXCEPT !.service = "radio"]
             cfg == Homed(new)
             cmd == LeaveCmd(config.service)
  <1>0. config \in Configs /\ Synced /\ "radio" \in AllServices
    BY DEF DongleInv, BaseInv, Synced, TypeOK, RadioType, AllServices
  <1>1. Configure(c, cfg, cmd, {"scan"})
    BY DEF switchToRadioFromProtocol
  <1>2. cmd \in Commands /\ cmd.op = "leave"
    BY <1>0 DEF LeaveCmd, Commands, Configs
  <1> HIDE DEF cmd
  <1>3. Shape(cfg, cmd)
    BY <1>0, <1>2, HomeShape DEF Switch, Leads, Homing
  <1>4. Sets(c, cfg, cmd, {"scan"})
    BY <1>1, <1>2, <1>3 DEF Sets
  <1>5. \A d \in Clients : then'[d] # then[d] => then'[d] = NoCall
    BY DEF TypeOK, ClientType
  <1> QED  BY <1>4, <1>5, SetsDongle

LEMMA StartScanDongle ==
  ASSUME TypeOK, DongleInv, NEW c \in Clients, StartScan(c)
  PROVE  DongleInv'
  <1>0. /\ Idle(c) /\ config \in Configs /\ Synced /\ "protocol" \in AllServices
        /\ UNCHANGED <<then, stage, dongle, directMode, sdr, running, live, block, cmdCh>>
    BY MessageIs DEF StartScan, DongleInv, BaseInv, Synced, TypeOK, RadioType, AllServices, Digital
  <1>1. PICK full \in ScanKinds : switchToProtocolService(c, full)
    BY DEF StartScan
  <1> DEFINE cfg == [config EXCEPT !.service = "protocol"]
             cmd == ScanCmd(full)
  <1>2. Configure(c, cfg, cmd, {"scan", "restart"})
    BY <1>1 DEF switchToProtocolService
  <1>3. cmd \in Commands /\ cmd.op = "scan"
    BY DEF ScanCmd, Commands
  <1> HIDE DEF cmd
  <1>4. Shape(cfg, cmd)
    BY <1>0, <1>3, HomeShape DEF Switch, Leads
  <1>5. Sets(c, cfg, cmd, {"scan", "restart"})
    BY <1>0, <1>2, <1>3, <1>4 DEF Sets
  <1> QED  BY <1>0, <1>5, SetsDongle

LEMMA LightIs ==
  /\ StopCmd \in Commands /\ Light(StopCmd) /\ Aimed(StopCmd)
  /\ TrackCmd \in Commands /\ Light(TrackCmd) /\ Aimed(TrackCmd)
  /\ \A s \in Listeners : UnlistenCmd(s) \in Commands /\ Light(UnlistenCmd(s)) /\ Aimed(UnlistenCmd(s))
  BY DEF StopCmd, TrackCmd, UnlistenCmd, Commands, Light, Aimed

LEMMA ListenDongle ==
  ASSUME TypeOK, DongleInv, NEW c \in Clients, Listen(c)
  PROVE  DongleInv'
  <1>0. /\ Idle(c)
        /\ UNCHANGED <<stage, dongle, directMode, sdr, running, live, block, cmdCh>>
    BY MessageIs DEF Listen
  <1>1. PICK s \in Services \cap Listeners :
           \E t \in IF s = "meteor" THEN Satellites ELSE {FixedTuning[s]} :
              /\ SetService(c, s)
              /\ then' = [then EXCEPT ![c] = [call |-> "listen", cmd |-> ListenCmd(s, t)]]
    BY DEF Listen
  <1>2. PICK t \in IF s = "meteor" THEN Satellites ELSE {FixedTuning[s]} :
              /\ SetService(c, s)
              /\ then' = [then EXCEPT ![c] = [call |-> "listen", cmd |-> ListenCmd(s, t)]]
    BY <1>1
  <1>3. ListenCmd(s, t).op = "listen" /\ Aimed(ListenCmd(s, t))
    BY DEF ListenCmd, Aimed
  <1>4. \A d \in Clients : then'[d] # then[d] =>
           then'[d].cmd.op = "listen" /\ Aimed(then'[d].cmd)
    BY <1>2, <1>3 DEF TypeOK, ClientType
  <1> QED  BY <1>0, <1>1, <1>2, <1>4, ServiceDongle

LEMMA SecondSetterDongle ==
  ASSUME TypeOK, DongleInv, NEW c \in Clients, SecondSetter(c)
  PROVE  DongleInv'
  <1>1. /\ Idle(c) /\ then[c] # NoCall /\ then' = [then EXCEPT ![c] = NoCall]
        /\ \A d \in Clients : then'[d] \in {then[d], NoCall}
        /\ UNCHANGED <<stage, dongle, directMode, sdr, running, live, block, cmdCh, opening,
                       fullScan, sweep, bandIdx>>
    BY DEF SecondSetter, TypeOK, ClientType
  <1>2. CASE then[c].call = "leave" /\ config.service = "radio"
    <2>1. UNCHANGED <<config, out, odd>>
      BY <1>2 DEF SecondSetter, switchToRadioFromProtocol
    <2>2. live' => sdr
      BY <1>1 DEF DongleInv, BaseInv
    <2> QED  BY <1>1, <2>1, <2>2, StillDongle
  <1>3. CASE then[c].call = "leave" /\ config.service # "radio"
    BY <1>1, <1>3, LeaveDongle DEF SecondSetter
  <1>4. CASE then[c].call # "leave"
    <2>1. then[c].call = "listen" /\ then[c].cmd \in Commands /\ EnqueueOnly(c, then[c].cmd)
      BY <1>1, <1>4 DEF SecondSetter, TypeOK, ClientType
    <2>2. Light(then[c].cmd) /\ Aimed(then[c].cmd)
      BY <1>1, <2>1 DEF DongleInv, BaseInv, Light
    <2>3. UNCHANGED radioVars
      BY <1>1, <2>1 DEF EnqueueOnly, SecondSetter
    <2>4. \A d \in Clients : then'[d] # then[d] /\ then'[d] # NoCall => then'[d].call # "listen"
      BY <1>1
    <2> QED  BY <1>1, <2>1, <2>2, <2>3, <2>4, LightDongle
  <1> QED  BY <1>2, <1>3, <1>4

LEMMA ClientDongle ==
  ASSUME TypeOK, ModeInv, LoopInv, DongleInv, NEW c \in Clients, Client(c)
  PROVE  DongleInv'
  <1>1. CASE Service(c)
    <2>1. Idle(c) /\ UNCHANGED <<then, stage, dongle, directMode, sdr, running, live, block, cmdCh>>
      BY <1>1, MessageIs DEF Service
    <2> QED  BY <1>1, <2>1, ServiceDongle DEF Service
  <1>2. CASE StopScan(c)
    <2>1. /\ Idle(c) /\ EnqueueOnly(c, StopCmd) /\ then' = [then EXCEPT ![c] = [call |-> "leave"]]
          /\ UNCHANGED <<radioVars, sdr, running, live, opening, block, cmdCh, stage,
                         fullScan, sweep, bandIdx>>
      BY <1>2, MessageIs DEF StopScan, EnqueueOnly
    <2>2. \A d \in Clients : then'[d] # then[d] => then'[d].call # "listen"
      BY <2>1 DEF TypeOK, ClientType
    <2> QED  BY <2>1, <2>2, LightIs, LightDongle
  <1>3. CASE Unlisten(c)
    <2>1. PICK s \in Services \cap Listeners : EnqueueOnly(c, UnlistenCmd(s))
      BY <1>3 DEF Unlisten
    <2>2. /\ Idle(c)
          /\ UNCHANGED <<then, radioVars, sdr, running, live, opening, block, cmdCh, stage,
                         fullScan, sweep, bandIdx>>
      BY <1>3, <2>1, MessageIs DEF Unlisten, EnqueueOnly
    <2> QED  BY <2>1, <2>2, LightIs, LightDongle
  <1>4. CASE Track(c)
    <2>1. /\ Idle(c) /\ EnqueueOnly(c, TrackCmd)
          /\ UNCHANGED <<then, radioVars, sdr, running, live, opening, block, cmdCh, stage,
                         fullScan, sweep, bandIdx>>
      BY <1>4, MessageIs DEF Track, EnqueueOnly
    <2> QED  BY <2>1, LightIs, LightDongle
  <1>5. CASE Power(c)
    <2>1. /\ Idle(c) /\ \E op \in {"on", "off"} : stage' = [stage EXCEPT ![c] = op]
          /\ UNCHANGED <<config, dongle, directMode, sdr, running, live, opening, cmdCh, out, then,
                         fullScan, sweep, bandIdx, odd, block>>
      BY <1>5, MessageIs DEF Power
    <2>2. \A d \in Clients : stage'[d] # stage[d] =>
             ~Issued(d) /\ stage'[d] \in {"on", "off"} /\ stage[d] = "idle"
      BY <2>1 DEF TypeOK, StreamType, Idle, Issued
    <2>3. (live' => sdr) /\ \A d \in Clients : then'[d] \in {then[d], NoCall}
      BY <2>1 DEF DongleInv, BaseInv
    <2> QED  BY <2>1, <2>2, <2>3, StillDongle
  <1>6. CASE enqueue(c)
    BY <1>6, RunsCases, RunsDongle, EnqueueDongle
  <1> QED  BY <1>1, <1>2, <1>3, <1>4, <1>5, <1>6, TuneDongle, RateDongle, StartScanDongle,
              ListenDongle, SecondSetterDongle
           DEF Client

-----------------------------------------------------------------------------
(* SetEnabled and reopenForReconfig.                                       *)

\* The holder of streamMu is alone between the stop and the start.
LEMMA HolderIs ==
  ASSUME LoopInv, NEW c \in Clients, stage[c] \in {"stop", "close", "open", "opening", "start"}
  PROVE  \A d \in Clients \ {c} : stage[d] \notin {"stop", "close", "open", "opening", "start"}
  BY DEF LoopInv

\* Nothing but light closures is left.
LEMMA LightQueue ==
  ASSUME cmdCh' = <<>>, block' = NoBlock,
         \A c \in Clients : stage'[c] # "reopen" /\ (Issued(c)' => Light(out'[c]))
  PROVE  QueueInv'
  <1>1. \A cmd \in Pending' : Light(cmd)
    BY DEF Pending, Issuers
  <1>2. \A cmd : Light(cmd) => ~Switch(cmd) /\ ~Homing(cmd) /\ cmd.op # "tune" /\ cmd.op # "rate"
    BY DEF Light, Switch, Homing
  <1>3. ~HomePending' /\ ~SwitchPending'
    BY <1>1, <1>2 DEF HomePending, SwitchPending, Homing, Switch
  <1>4. HomingLast' /\ SwitchLast' /\ NoneOvertaken'
    BY <1>2, <1>3 DEF HomingLast, SwitchLast, NoneOvertaken, Switch, Light
  <1>5. ScanLeft' /\ LatestInv'
    BY <1>1, <1>2 DEF ScanLeft, LatestInv, Switch
  <1> QED  BY <1>4, <1>5 DEF QueueInv

LEMMA LockDongle ==
  ASSUME TypeOK, LoopInv, DongleInv, NEW c \in Clients, LockStream(c)
  PROVE  DongleInv'
  <1>1. /\ stage[c] \in {"reopen", "off", "on"} /\ ~Issued(c)
        /\ stage'[c] = IF stage[c] = "on" THEN "open" ELSE "stop"
        /\ \A d \in Clients \ {c} : stage'[d] = stage[d]
        /\ cmdCh' = IF stage[c] = "reopen" THEN <<>> ELSE cmdCh
        /\ odd \subseteq odd' /\ ("overlap" \notin odd' => \A d \in Clients \ {c} : Idle(d))
        /\ UNCHANGED <<config, dongle, directMode, fullScan, sweep, bandIdx, sdr, running, live,
                       opening, out, then, block>>
    BY DEF LockStream, Goto, Overlap, TypeOK, StreamType, DongleInv, BaseInv
  <1>2. /\ \A d : Issued(d)' <=> Issued(d)
        /\ Pending' \subseteq Pending
        /\ stage[c] # "reopen" => Pending' = Pending
    BY <1>1 DEF Issued, Issuers, Pending
  <1>3. BaseInv'
    <2>1. \A d \in Clients : (then[d] # NoCall /\ then[d].call = "listen" =>
                                then[d].cmd.op = "listen" /\ Aimed(then[d].cmd))'
      BY <1>1 DEF DongleInv, BaseInv, Aimed
    <2> QED  BY <1>1, <1>2, <2>1 DEF DongleInv, BaseInv, Aimed, directSamplingForFreq
  <1>4. /\ stage[c] # "on" => Closing'
        /\ Closing => Closing'
    BY <1>1 DEF Closing
  <1>5. ASSUME "overlap" \notin odd'
        PROVE  \A d \in Clients : /\ ~Issued(d)
                                  /\ d # c => stage[d] = "idle" /\ stage'[d] = "idle"
    BY <1>1, <1>5 DEF Idle, Issued
  <1>6. ASSUME "overlap" \notin odd', OneInv PROVE OneInv'
    <2>1. \A d \in Clients : stage'[d] # "opening" /\ (Heavy(d)' => d = c)
      BY <1>1, <1>2, <1>5, <1>6 DEF Heavy
    <2>2. stage[c] = "on" => ~Closing
      BY <1>5, <1>6 DEF Closing
    <2> QED  BY <1>1, <1>4, <1>6, <2>1, <2>2 DEF OneInv
  <1>7. ASSUME "overlap" \notin odd', QueueInv PROVE QueueInv'
    <2>1. \A d \in Clients : stage'[d] # "reopen" /\ ~Issued(d)'
      BY <1>1, <1>2, <1>5, <1>7
    <2>2. CASE stage[c] = "reopen"
      <3>1. block = NoBlock
        BY <1>7, <2>2 DEF QueueInv, ScanLeft
      <3>2. cmdCh' = <<>> /\ block' = NoBlock
        BY <1>1, <2>2, <3>1
      <3> QED  BY <2>1, <3>2, LightQueue
    <2>3. CASE stage[c] # "reopen"
      <3>1. NoneOvertaken'
        BY <2>1 DEF NoneOvertaken
      <3>2. \A d \in Clients : stage'[d] = "reopen" <=> stage[d] = "reopen"
        BY <1>1, <1>5, <1>7, <2>3
      <3> QED  BY <1>1, <1>7, <2>3, <3>1, <3>2, QueueFrame
    <2> QED  BY <2>2, <2>3
  <1>8. Tuned => Tuned'
    <2>1. CASE stage[c] = "on"
      BY <1>1, <1>2, <1>4, <2>1, TunedFrame
    <2>2. CASE stage[c] # "on"
      BY <1>4, <2>2 DEF Tuned
    <2> QED  BY <2>1, <2>2
  <1>9. ScanQuiet => ScanQuiet'
    BY <1>1, <1>2 DEF ScanQuiet, Switch
  <1>10. ScanTuned => ScanTuned'
    BY <1>1, ScanTunedFrame
  <1> QED  BY <1>1, <1>3, <1>6, <1>7, <1>8, <1>9, <1>10 DEF DongleInv, Unlike

LEMMA CloseDongle ==
  ASSUME TypeOK, LoopInv, DongleInv, NEW c \in Clients, CloseDevice(c)
  PROVE  DongleInv'
  <1>1. /\ stage[c] = "close" /\ stage'[c] \in {"open", "idle"}
        /\ \A d \in Clients \ {c} : stage'[d] = stage[d]
        /\ ~live /\ sdr' = FALSE /\ ~Issued(c)
        /\ UNCHANGED <<config, dongle, directMode, fullScan, sweep, bandIdx, live, odd,
                       opening, out, then, block, cmdCh>>
    BY DEF CloseDevice, Goto, Finish, TypeOK, StreamType, LoopInv, DongleInv, BaseInv
  <1>2. Pending' = Pending /\ \A d : Issued(d)' <=> Issued(d)
    BY <1>1 DEF Pending, Issued, Issuers
  <1>3. \A d \in Clients : /\ stage'[d] \notin {"opening", "start"}
                           /\ stage'[d] = "reopen" <=> stage[d] = "reopen"
                           /\ Heavy(d)' => Heavy(d)
    BY <1>1, <1>2, HolderIs DEF Heavy, Light
  <1>4. BaseInv'
    <2>1. \A d \in Clients : (then[d] # NoCall /\ then[d].call = "listen" =>
                                then[d].cmd.op = "listen" /\ Aimed(then[d].cmd))'
      BY <1>1 DEF DongleInv, BaseInv, Aimed
    <2> QED  BY <1>1, <1>2, <1>3, <2>1 DEF DongleInv, BaseInv, Aimed, directSamplingForFreq
  <1>5. OneInv => OneInv'
    BY <1>1, <1>3 DEF OneInv
  <1>6. OneInv /\ QueueInv => QueueInv'
    <2>1. OneInv => NoneOvertaken'
      BY <1>1, <1>2 DEF NoneOvertaken, OneInv, Heavy, Light
    <2> QED  BY <1>1, <1>3, <2>1, QueueFrame
  <1>7. Tuned' /\ ScanTuned'
    BY <1>1 DEF Tuned, ScanTuned
  <1>8. ScanQuiet => ScanQuiet'
    BY <1>1, <1>2 DEF ScanQuiet, Switch
  <1> QED  BY <1>1, <1>4, <1>5, <1>6, <1>7, <1>8 DEF DongleInv, Unlike

LEMMA ReadConfigDongle ==
  ASSUME TypeOK, LoopInv, DongleInv, NEW c \in Clients, ReadConfig(c)
  PROVE  DongleInv'
  <1>1. /\ stage[c] = "open" /\ stage'[c] = "opening" /\ ~sdr /\ opening' = config
        /\ \A d \in Clients \ {c} : stage'[d] = stage[d]
        /\ UNCHANGED <<config, dongle, directMode, fullScan, sweep, bandIdx, sdr, running, live, odd,
                       out, then, block, cmdCh>>
        /\ ~Issued(c)
    BY DEF ReadConfig, Goto, TypeOK, StreamType, DongleInv, BaseInv
  <1>2. Pending' = Pending /\ \A d : Issued(d)' <=> Issued(d)
    BY <1>1 DEF Pending, Issued, Issuers
  <1>3. \A d \in Clients : /\ stage'[d] = "opening" => d = c
                           /\ stage'[d] = "reopen" <=> stage[d] = "reopen"
                           /\ Heavy(d)' => Heavy(d)
    BY <1>1, <1>2, HolderIs DEF Heavy, Light
  <1>4. BaseInv'
    <2>1. \A d \in Clients : (then[d] # NoCall /\ then[d].call = "listen" =>
                                then[d].cmd.op = "listen" /\ Aimed(then[d].cmd))'
      BY <1>1 DEF DongleInv, BaseInv, Aimed
    <2>2. (config.direct = directSamplingForFreq(config.tune))'
      BY <1>1 DEF DongleInv, BaseInv, directSamplingForFreq
    <2>3. \A d \in Clients : stage'[d] = "start" => sdr
      BY <1>1 DEF DongleInv, BaseInv
    <2>4. (\A x \in Pending : Aimed(x))'
      BY <1>2 DEF DongleInv, BaseInv, Aimed
    <2> QED  BY <1>1, <1>2, <1>3, <2>1, <2>2, <2>3, <2>4 DEF DongleInv, BaseInv
  <1>5. OneInv => OneInv'
    BY <1>1, <1>3 DEF OneInv
  <1>6. QueueInv => QueueInv'
    <2>1. QueueInv => NoneOvertaken'
      BY <1>1, <1>2 DEF QueueInv, NoneOvertaken, Light
    <2> QED  BY <1>1, <1>3, <2>1, QueueFrame
  <1>7. Tuned' /\ ScanTuned'
    BY <1>1 DEF Tuned, ScanTuned
  <1>8. ScanQuiet => ScanQuiet'
    BY <1>1, <1>2 DEF ScanQuiet, Switch
  <1> QED  BY <1>1, <1>4, <1>5, <1>6, <1>7, <1>8 DEF DongleInv, Unlike

\* A step that leaves the device closed, and of the configuration writes the band
\* of a scan at most.
LEMMA OpenFailsDongle ==
  ASSUME TypeOK, LoopInv, DongleInv, NEW c \in Clients, StartFails(c), stage[c] = "opening"
  PROVE  DongleInv'
  <1>1. /\ ~sdr /\ stage'[c] = "idle"
        /\ \A d \in Clients \ {c} : stage'[d] = stage[d]
        /\ UNCHANGED <<dongle, directMode, fullScan, sweep, bandIdx, sdr, running, live, odd,
                       opening, out, then, block, cmdCh>>
        /\ ~Issued(c)
    BY DEF StartFails, Finish, Goto, hardware, TypeOK, StreamType, DongleInv, BaseInv
  <1>2. /\ config'.service = config.service /\ config'.tune = config.tune
        /\ config'.direct = config.direct
        /\ OneInv /\ config.service = "radio" => config' = config
    <2>1. config' = config \/ config' = BandWritten
      BY DEF StartFails
    <2>2. OneInv => opening = config
      BY DEF OneInv
    <2> QED  BY <2>1, <2>2, BandWrittenIs
  <1>3. Pending' = Pending /\ \A d : Issued(d)' <=> Issued(d)
    BY <1>1 DEF Pending, Issued, Issuers
  <1>4. \A d \in Clients : /\ stage'[d] # "opening"
                           /\ stage'[d] = "reopen" <=> stage[d] = "reopen"
                           /\ Heavy(d)' => Heavy(d)
    BY <1>1, <1>3, HolderIs DEF Heavy, Light
  <1>5. BaseInv'
    <2>1. \A d \in Clients : (then[d] # NoCall /\ then[d].call = "listen" =>
                                then[d].cmd.op = "listen" /\ Aimed(then[d].cmd))'
      BY <1>1 DEF DongleInv, BaseInv, Aimed
    <2>2. (config.direct = directSamplingForFreq(config.tune))'
      BY <1>2 DEF DongleInv, BaseInv, directSamplingForFreq
    <2>3. \A d \in Clients : stage'[d] = "start" => sdr
      BY <1>1 DEF DongleInv, BaseInv
    <2>4. (\A x \in Pending : Aimed(x))'
      BY <1>3 DEF DongleInv, BaseInv, Aimed
    <2> QED  BY <1>1, <1>3, <1>4, <2>1, <2>2, <2>3, <2>4 DEF DongleInv, BaseInv
  <1>6. OneInv => OneInv'
    BY <1>1, <1>4 DEF OneInv
  <1>7. OneInv /\ QueueInv => QueueInv'
    <2>1. QueueInv => NoneOvertaken'
      BY <1>1, <1>3 DEF QueueInv, NoneOvertaken, Light
    <2> QED  BY <1>1, <1>2, <1>4, <2>1, QueueFrame
  <1>8. Tuned' /\ ScanTuned'
    BY <1>1 DEF Tuned, ScanTuned
  <1>9. ScanQuiet => ScanQuiet'
    BY <1>1, <1>2, <1>3 DEF ScanQuiet, Switch
  <1> QED  BY <1>1, <1>5, <1>6, <1>7, <1>8, <1>9 DEF DongleInv, Unlike

\* A new handle is tuned by the configuration that openDevice has read.
LEMMA OpenDongle ==
  ASSUME TypeOK, LoopInv, DongleInv, NEW c \in Clients, openDevice(c)
  PROVE  DongleInv'
  <1>1. /\ stage[c] = "opening" /\ stage'[c] = "start" /\ ~sdr /\ sdr' = TRUE /\ ~Issued(c)
        /\ \A d \in Clients \ {c} : stage'[d] = stage[d]
        /\ dongle' = OpenTuning(opening) /\ directMode' = desiredDirectMode(opening)
        /\ odd' = IF cmdCh = <<>> THEN odd \ {"early", "foreign"} ELSE odd
        /\ UNCHANGED <<fullScan, sweep, bandIdx, running, live, opening,
                       out, then, block, cmdCh>>
    BY DEF openDevice, Goto, TypeOK, StreamType, DongleInv, BaseInv
  <1>c. /\ config' = BandWritten
        /\ config'.service = config.service /\ config'.tune = config.tune
        /\ config'.direct = config.direct
        /\ OneInv => /\ opening = config
                     /\ config.service # "protocol" => config' = config
                     /\ config.service = "protocol" => Configured(config') = bandTuning
    BY <1>1, BandWrittenIs DEF openDevice, OneInv
  <1>2. Pending' = Pending /\ \A d : Issued(d)' <=> Issued(d)
    BY <1>1 DEF Pending, Issued, Issuers
  <1>3. \A d \in Clients : /\ stage'[d] # "opening"
                           /\ stage'[d] = "reopen" <=> stage[d] = "reopen"
                           /\ Heavy(d)' => Heavy(d)
    BY <1>1, <1>2, HolderIs DEF Heavy, Light
  <1>4. ~live /\ block = NoBlock
    BY <1>1 DEF DongleInv, BaseInv, LoopInv
  <1>5. BaseInv'
    <2>1. \A d \in Clients : (then[d] # NoCall /\ then[d].call = "listen" =>
                                then[d].cmd.op = "listen" /\ Aimed(then[d].cmd))'
      BY <1>1 DEF DongleInv, BaseInv, Aimed
    <2> QED  BY <1>1, <1>c, <1>2, <1>3, <2>1 DEF DongleInv, BaseInv, Aimed, directSamplingForFreq
  <1>6. "overlap" \notin odd' => "overlap" \notin odd /\ OneInv
    BY <1>1 DEF DongleInv
  <1>7. OneInv => OneInv'
    <2>1. OneInv => directMode' \in {"off", config.direct}
      BY <1>1 DEF OneInv, desiredDirectMode
    <2> QED  BY <1>1, <1>c, <1>3, <2>1 DEF OneInv
  <1>8. OneInv => \A d \in Clients : /\ stage[d] # "reopen"
                                     /\ Issued(d) => Light(out[d])
    BY <1>1 DEF OneInv, Heavy
  <1>9. ASSUME Unlike({"overlap", "early"})' PROVE QueueInv'
    <2>1. OneInv
      BY <1>6, <1>9 DEF Unlike
    <2>2. CASE cmdCh = <<>>
      BY <1>1, <1>c, <1>2, <1>3, <1>4, <1>8, <2>1, <2>2, LightQueue
    <2>3. CASE cmdCh # <<>>
      <3>1. QueueInv
        BY <1>1, <1>9, <2>3 DEF DongleInv, Unlike
      <3>2. NoneOvertaken'
        BY <1>1, <1>2, <3>1 DEF QueueInv, NoneOvertaken, Light
      <3> QED  BY <1>1, <1>c, <1>3, <2>1, <3>1, <3>2, QueueFrame
    <2> QED  BY <2>2, <2>3
  <1>10. OneInv => Tuned'
    <2> SUFFICES ASSUME OneInv PROVE Tuned'
      OBVIOUS
    <2>1. opening = config
      BY <1>1 DEF OneInv
    <2>2. ASSUME config.service = "radio" PROVE OnRadio' /\ config' = config
      <3>1. dongle' = At(config.center, config.rate)
        BY <1>1, <2>1, <2>2 DEF OpenTuning, effectiveTuning, Configured
      <3>2. dongle'.center = config.center /\ dongle'.rate = config.rate
        BY <3>1 DEF At
      <3>3. directMode' = config.direct
        BY <1>1, <2>1, <2>2 DEF desiredDirectMode
      <3>4. config' = config
        BY <1>c, <2>2
      <3> QED  BY <1>1, <3>2, <3>3, <3>4 DEF OnRadio
    <2>3. ASSUME config.service \in Fixed PROVE dongle' = FixedTuning[config.service]
      BY <1>1, <2>1, <2>3 DEF OpenTuning, effectiveTuning, Fixed
    <2> QED  BY <1>1, <1>c, <2>2, <2>3 DEF Tuned, Fixed
  <1>11. ASSUME Unlike({"overlap", "early", "scan"})' PROVE ScanQuiet'
    <2>1. OneInv
      BY <1>6, <1>11 DEF Unlike
    <2>2. CASE cmdCh = <<>>
      <3>1. \A x \in Pending : Light(x)
        BY <1>8, <2>1, <2>2 DEF Pending, Issuers
      <3>2. \A x \in Pending' : ~Switch(x) /\ x.op # "rate"
        BY <1>2, <3>1 DEF Light, Switch
      <3> QED  BY <1>1, <1>c, <1>4, <3>2 DEF ScanQuiet, Switch
    <2>3. CASE cmdCh # <<>>
      <3>1. ScanQuiet
        BY <1>1, <1>11, <2>3 DEF DongleInv, Unlike
      <3> QED  BY <1>1, <1>c, <1>2, <3>1 DEF ScanQuiet, Switch
    <2> QED  BY <2>2, <2>3
  <1>12. OneInv => ScanTuned'
    <2> SUFFICES ASSUME OneInv, fullScan, config.service = "protocol" PROVE ScanTuned'
      BY <1>1, <1>c DEF ScanTuned
    <2>1. dongle' = bandTuning /\ Configured(config') = bandTuning
      BY <1>1, <1>c DEF OpenTuning
    <2>2. bandTuning' = bandTuning
      BY <1>1, <1>c DEF bandTuning, bands
    <2> QED  BY <1>1, <2>1, <2>2 DEF ScanTuned, Configured
  <1> QED  BY <1>5, <1>6, <1>7, <1>9, <1>10, <1>11, <1>12 DEF DongleInv, Unlike

LEMMA StreamDongle ==
  ASSUME TypeOK, LoopInv, DongleInv, NEW c \in Clients, Stream(c)
  PROVE  DongleInv'
  <1> USE DEF TypeOK, StreamType, Goto, Finish
  <1>0. /\ stage[c] # "idle" => ~Issued(c)
        /\ live => sdr
        /\ stage[c] = "start" => sdr
    BY DEF DongleInv, BaseInv
  <1>1. CASE StopLoop(c)
    <2>1. /\ stage[c] = "stop" /\ stage' = [stage EXCEPT ![c] = "close"] /\ live' = FALSE
          /\ UNCHANGED <<config, dongle, directMode, sdr, running, opening, cmdCh, out, then,
                         fullScan, sweep, bandIdx, odd, block>>
      BY <1>1 DEF StopLoop
    <2> QED  BY <1>0, <2>1, StillDongle
  <1>2. CASE AlreadyOpen(c)
    <2>1. /\ stage[c] = "open" /\ sdr /\ \E s \in {"idle", "start"} : stage' = [stage EXCEPT ![c] = s]
          /\ UNCHANGED <<config, dongle, directMode, sdr, running, live, opening, cmdCh, out, then,
                         fullScan, sweep, bandIdx, odd, block>>
      BY <1>2 DEF AlreadyOpen
    <2> QED  BY <1>0, <2>1, StillDongle
  <1>3. CASE startRun(c)
    <2>1. /\ stage[c] = "start" /\ stage' = [stage EXCEPT ![c] = "idle"]
          /\ running' = TRUE /\ live' = TRUE
          /\ UNCHANGED <<config, dongle, directMode, sdr, opening, cmdCh, out, then,
                         fullScan, sweep, bandIdx, odd, block>>
      BY <1>3 DEF startRun
    <2> QED  BY <1>0, <2>1, StillDongle
  <1>4. CASE StartFails(c)
    <2>1. CASE stage[c] = "opening"
      BY <1>4, <2>1, OpenFailsDongle
    <2>2. CASE stage[c] = "start"
      <3>1. /\ stage' = [stage EXCEPT ![c] = "idle"]
            /\ UNCHANGED <<config, dongle, directMode, sdr, running, live, opening, cmdCh, out, then,
                           fullScan, sweep, bandIdx, odd, block>>
        BY <1>4, <2>2 DEF StartFails, hardware
      <3> QED  BY <1>0, <2>2, <3>1, StillDongle
    <2> QED  BY <1>4, <2>1, <2>2 DEF StartFails
  <1> QED  BY <1>1, <1>2, <1>3, <1>4, LockDongle, CloseDongle, ReadConfigDongle, OpenDongle
           DEF Stream

-----------------------------------------------------------------------------
(* Blocks of a scan.                                                       *)

\* A block begins or ends, and with it a band of the scan.
LEMMA BlockFrame ==
  ASSUME DongleInv, live, SameService,
         UNCHANGED <<sdr, running, live, opening, stage, cmdCh, out, then, odd>>,
         directMode' \in {directMode, "off"},
         block' = NoBlock \/ config.service = "protocol",
         QueueInv /\ config.service = "radio" => config' = config \/ HomePending,
         QueueInv /\ Tuned => Tuned',
         ScanTuned => ScanTuned'
  PROVE  DongleInv'
  <1>1. /\ Pending' = Pending /\ \A c : Issued(c)' <=> Issued(c)
        /\ \A c \in Clients : Heavy(c)' <=> Heavy(c)
        /\ Closing' <=> Closing
    BY DEF Pending, Issued, Issuers, Heavy, Light, Closing
  <1>2. BaseInv'
    <2>1. \A d \in Clients : (then[d] # NoCall /\ then[d].call = "listen" =>
                                then[d].cmd.op = "listen" /\ Aimed(then[d].cmd))'
      BY DEF DongleInv, BaseInv, Aimed
    <2>2. (config.direct = directSamplingForFreq(config.tune))'
      BY DEF DongleInv, BaseInv, SameService, directSamplingForFreq
    <2> QED  BY <1>1, <2>1, <2>2 DEF DongleInv, BaseInv, Aimed
  <1>3. OneInv => OneInv'
    BY <1>1 DEF OneInv, DongleInv, BaseInv, SameService
  <1>4. QueueInv => QueueInv'
    <2>1. QueueInv => NoneOvertaken'
      BY <1>1 DEF QueueInv, NoneOvertaken, Light
    <2> QED  BY <2>1, QueueFrame DEF SameService
  <1>5. ScanQuiet => ScanQuiet'
    BY <1>1 DEF ScanQuiet, SameService, Switch
  <1> QED  BY <1>2, <1>3, <1>4, <1>5 DEF DongleInv, Unlike

LEMMA ReadLoopDongle ==
  ASSUME TypeOK, ModeInv, LoopInv, DongleInv, ReadLoop
  PROVE  DongleInv'
  <1>0. (block # NoBlock => live) /\ (live => sdr)
    BY DEF LoopInv, DongleInv, BaseInv
  <1>1. CASE drainCommands
    BY <1>1, RunsCases, RunsDongle
  <1>2. CASE processBlock
    <2>1. /\ live /\ config.service = "protocol"
          /\ UNCHANGED <<config, dongle, directMode, sdr, running, live, opening, stage, cmdCh, out,
                         then, odd, fullScan, sweep, bandIdx>>
      BY <1>2 DEF processBlock
    <2> QED  BY <2>1, BlockFrame, TunedFrame, ScanTunedFrame DEF SameService, Closing, Pending, Issuers, Issued
  <1>3. CASE BlockDone
    BY <1>0, <1>3, StillDongle DEF BlockDone
  <1>4. CASE LastBandDone
    <2>1. /\ live /\ block' = NoBlock /\ fullScan' = FALSE
          /\ UNCHANGED <<config, dongle, directMode, sdr, running, live, opening, stage, cmdCh, out,
                         then, odd>>
      BY <1>0, <1>4 DEF LastBandDone
    <2>2. ScanTuned'
      BY <2>1 DEF ScanTuned
    <2> QED  BY <2>1, <2>2, BlockFrame, TunedFrame DEF SameService, Closing, Pending, Issuers, Issued
  <1>5. CASE BandDone
    <2>1. /\ live /\ sdr /\ block # NoBlock /\ block' = NoBlock
          /\ TuneProtocolBand(dongle, bands, NextIdx) /\ bandIdx' = NextIdx
          /\ UNCHANGED <<sdr, running, live, opening, stage, cmdCh, out, then, odd, fullScan, sweep>>
      BY <1>0, <1>5 DEF BandDone
    <2>2. directMode' \in {directMode, "off"}
      BY <1>5 DEF BandDone, NormalMode
    <2>3. SameService /\ config \in Configs
      BY <2>1, BandTuneIs DEF TypeOK, RadioType
    <2>4. /\ Pending' = Pending /\ (Closing' <=> Closing)
      BY <2>1 DEF Pending, Issuers, Issued, Closing
    <2>5. QueueInv /\ config.service = "radio" => HomePending
      BY <2>1 DEF QueueInv, ScanLeft
    <2>6. QueueInv /\ Tuned => Tuned'
      <3> SUFFICES ASSUME QueueInv PROVE Tuned'
        OBVIOUS
      <3>1. config.service = "radio" => HomePending'
        BY <2>4, <2>5 DEF HomePending, Homing
      <3>2. config.service \in Fixed => SwitchPending'
        <4>1. config.service \in Fixed => SwitchPending
          BY <2>1 DEF QueueInv, ScanLeft, Fixed
        <4> QED  BY <2>4, <4>1 DEF SwitchPending, Switch
      <3> QED  BY <2>3, <3>1, <3>2 DEF Tuned, SameService
    <2>7. ScanTuned => ScanTuned'
      <3> SUFFICES ASSUME ScanTuned, fullScan, config.service = "protocol" PROVE ScanTuned'
        BY <2>1, <2>3 DEF ScanTuned, SameService
      <3>1. dongle = Configured(config)
        BY <2>1 DEF ScanTuned
      <3>2. NextIdx \in DOMAIN bands /\ bands[NextIdx] \in Tunings
        BY NextIdxType, PlanType DEF TypeOK, bands
      <3>3. dongle' = bands[NextIdx] /\ Configured(config') = bands[NextIdx]
        BY <2>1, <2>3, <3>1, <3>2, BandTuneIs
      <3>4. bandTuning' = bands[NextIdx]
        <4>1. bands' = bands
          BY <2>1 DEF bands
        <4> QED  BY <2>1, <3>2, <4>1 DEF bandTuning
      <3> QED  BY <3>3, <3>4 DEF ScanTuned, Configured
    <2> QED  BY <2>1, <2>2, <2>3, <2>5, <2>6, <2>7, BlockFrame
  <1> QED  BY <1>1, <1>2, <1>3, <1>4, <1>5 DEF ReadLoop

-----------------------------------------------------------------------------
(* The theorems.                                                           *)

LEMMA DongleInit == Init => DongleInv
  <1> SUFFICES ASSUME Init PROVE DongleInv
    OBVIOUS
  <1>1. /\ \A c \in Clients : ~Issued(c) /\ stage[c] = "idle" /\ then[c] = NoCall
        /\ cmdCh = <<>> /\ block = NoBlock /\ fullScan = FALSE
        /\ config = DefaultConfig /\ dongle = Configured(DefaultConfig)
        /\ directMode = "off" /\ sdr = TRUE /\ live = TRUE
    BY DEF Init, Issued
  <1>2. Pending = {}
    BY <1>1 DEF Pending, Issuers
  <1>3. /\ config.service = "radio" /\ config.direct = directSamplingForFreq(config.tune)
        /\ dongle.rate = config.rate /\ dongle.center = config.center /\ config.direct = "off"
    BY <1>1 DEF DefaultConfig, Configured, At, directSamplingForFreq, normalMin
  <1>4. BaseInv /\ OneInv /\ QueueInv
    <2>1. BaseInv
      BY <1>1, <1>2, <1>3 DEF BaseInv
    <2>2. OneInv
      BY <1>1 DEF OneInv, Heavy
    <2>3. ~HomePending /\ ~SwitchPending
      BY <1>2 DEF HomePending, SwitchPending
    <2>4. HomingLast /\ SwitchLast /\ NoneOvertaken /\ LatestInv
      BY <1>1, <2>3 DEF HomingLast, SwitchLast, NoneOvertaken, LatestInv
    <2>5. ScanLeft
      BY <1>1, <1>2 DEF ScanLeft
    <2> QED  BY <2>1, <2>2, <2>4, <2>5 DEF QueueInv
  <1>5. Tuned
    BY <1>1, <1>3 DEF Tuned, OnRadio, Fixed
  <1>6. ScanQuiet /\ ScanTuned
    BY <1>1, <1>2 DEF ScanQuiet, ScanTuned
  <1> QED  BY <1>4, <1>5, <1>6 DEF DongleInv

LEMMA DongleNext == TypeOK /\ IInv /\ DongleInv /\ [Next]_vars => DongleInv'
  <1> SUFFICES ASSUME TypeOK, IInv, DongleInv, [Next]_vars PROVE DongleInv'
    OBVIOUS
  <1>1. ModeInv /\ LoopInv
    BY DEF IInv
  <1>2. CASE UNCHANGED vars
    <2>1. live => sdr
      BY DEF DongleInv, BaseInv
    <2> QED  BY <1>2, <2>1, StillDongle DEF vars
  <1> QED  BY <1>1, <1>2, ClientDongle, StreamDongle, ReadLoopDongle DEF Next

\* Whatever the setters, scans, reopens and off/on cycles, the closures that are
\* still to run take the dongle to where the configuration has it.
THEOREM DongleInvariant == Spec => []DongleInv
  BY DongleInit, DongleNext, TypeCorrect, Invariant, PTL DEF Spec

LEMMA SettledIs ==
  ASSUME DongleInv, Settled, Unlike({"overlap", "early", "foreign"})
  PROVE  /\ config.service = "radio" => OnRadio /\ ~OpPending("tune") /\ ~OpPending("rate")
         /\ config.service \in Fixed => dongle = FixedTuning[config.service]
  <1>1. /\ \A c \in Clients : ~Issued(c) /\ stage[c] = "idle"
        /\ cmdCh = <<>> /\ live
    BY DEF Settled, Free, Idle, Issued
  <1>2. Pending = {}
    BY <1>1 DEF Pending, Issuers
  <1>3. ~HomePending /\ ~SwitchPending /\ ~OpPending("tune") /\ ~OpPending("rate")
    BY <1>2 DEF HomePending, SwitchPending, OpPending
  <1>4. sdr /\ ~Closing
    BY <1>1 DEF DongleInv, BaseInv, Closing
  <1> QED  BY <1>3, <1>4 DEF DongleInv, Tuned

\* Once everything has settled the dongle is where the configuration says, on the
\* radio and on a service with a frequency of its own.
THEOREM SettledFollows == Spec => []DongleFollowsConfig
  <1>1. DongleInv => DongleFollowsConfig
    BY SettledIs DEF DongleFollowsConfig, OnRadio, Fixed
  <1> QED  BY <1>1, DongleInvariant, PTL

\* A record is made where the scan stands, and there the dongle is.
LEMMA RecordStep ==
  ASSUME TypeOK, OrderInv, LoopInv, DongleInv, odd = {}, fullScan, block # NoBlock
  PROVE  dongle = block.band
  <1>1. ScanQuiet /\ ScanTuned /\ sdr
    BY DEF DongleInv, Unlike, BaseInv, LoopInv
  <1>2. dongle = bandTuning
    BY <1>1 DEF ScanQuiet, ScanTuned
  <1>3. sweep /\ bandIdx \in DOMAIN SweepBands /\ block.band = SweepBands[bandIdx]
    BY DEF OrderInv
  <1>4. bandTuning = SweepBands[bandIdx]
    BY <1>3 DEF bandTuning, bands, BandsOf
  <1> QED  BY <1>2, <1>3, <1>4

\* A closure makes no record.
LEMMA ExecuteRecords ==
  ASSUME NEW cmd, Execute(cmd) PROVE bandRecords' \in {bandRecords, <<>>}
  <1>1. ASSUME NEW full, RunScan(full) PROVE bandRecords' = <<>>
    BY <1>1 DEF RunScan, BeginScan
  <1> QED  BY <1>1 DEF Execute, RunService, RunLeave, RunStop, RunTune, RunRate, RunListen,
                       RunUnlisten, RunTrack

\* What a full scan notes under a band it heard there: neither its own retunes nor
\* any closure leaves the dongle elsewhere when the record is made.
THEOREM RecordsInPlace == Spec => RecordsMeasureTheirBand
  <1> DEFINE Measured == \A n \in DOMAIN bandRecords' :
                            bandRecords' # bandRecords /\ n = Len(bandRecords') /\ odd = {}
                              => bandRecords'[n].at = bandRecords'[n].band
  <1>1. ASSUME TypeOK, IInv, DongleInv, [Next]_vars PROVE [Measured]_vars
    <2> SUFFICES ASSUME NEW n \in DOMAIN bandRecords', bandRecords' # bandRecords,
                        n = Len(bandRecords'), odd = {}
                 PROVE  bandRecords'[n].at = bandRecords'[n].band
      OBVIOUS
    <2>1. ASSUME bandRecords' = <<>> PROVE FALSE
      BY <2>1
    <2>2. ASSUME fullScan, block # NoBlock, bandRecords' = Recorded
          PROVE  bandRecords'[n].at = bandRecords'[n].band
      <3> DEFINE r == [band |-> block.band, at |-> dongle]
      <3>1. dongle = block.band
        BY <1>1, <2>2, RecordStep DEF IInv
      <3>2. r \in [band : Tunings, at : Tunings]
        BY <1>1, <3>1 DEF TypeOK, RadioType
      <3>3. bandRecords \in Seq([band : Tunings, at : Tunings]) /\ bandRecords' = Append(bandRecords, r)
        BY <1>1, <2>2 DEF TypeOK, ScanType, Recorded
      <3> HIDE DEF r
      <3>4. bandRecords'[n] = r
        BY <3>2, <3>3
      <3> QED  BY <3>1, <3>4 DEF r
    <2>3. CASE ReadLoop
      <3>1. CASE drainCommands
        <4>1. Execute(Head(cmdCh))
          BY <3>1 DEF drainCommands
        <4> QED  BY <2>1, <4>1, ExecuteRecords
      <3>2. CASE LastBandDone \/ BandDone
        BY <2>2, <3>2 DEF LastBandDone, BandDone
      <3>3. CASE processBlock \/ BlockDone
        BY <3>3 DEF processBlock, BlockDone
      <3> QED  BY <2>3, <3>1, <3>2, <3>3 DEF ReadLoop
    <2>4. ASSUME NEW c \in Clients, Client(c)
          PROVE  bandRecords'[n].at = bandRecords'[n].band
      <3>1. CASE enqueue(c)
        BY <2>1, <3>1, ExecuteRecords DEF enqueue
      <3>2. CASE ~enqueue(c)
        BY <2>4, <3>2 DEF Client, Tune, SampleRate, Service, StartScan, StopScan, Listen,
                          Unlisten, Track, Power, SecondSetter
      <3> QED  BY <3>1, <3>2
    <2>5. ASSUME NEW c \in Clients, Stream(c)
          PROVE  bandRecords'[n].at = bandRecords'[n].band
      BY <2>5 DEF Stream, LockStream, StopLoop, CloseDevice, ReadConfig, openDevice,
                  AlreadyOpen, startRun, StartFails
    <2>6. CASE UNCHANGED vars
      BY <2>6 DEF vars
    <2> QED  BY <1>1, <2>3, <2>4, <2>5, <2>6 DEF Next
  <1> QED  BY <1>1, TypeCorrect, Invariant, DongleInvariant, PTL
           DEF Spec, RecordsMeasureTheirBand
=============================================================================
