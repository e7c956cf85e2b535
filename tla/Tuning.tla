------------------------------- MODULE Tuning -------------------------------
(***************************************************************************)
(* What the dongle is tuned to, against what the configuration says.       *)
(*                                                                         *)
(* A setter of internal/receiver changes r.config under r.mu and then      *)
(* queues a closure that changes the hardware.  The closure carries what   *)
(* the setter captured; it runs later, on the read goroutine, between two  *)
(* IQ blocks, or on the setter's own goroutine while no stream runs.  The  *)
(* protocol scan retunes on the read goroutine at the end of a block, and  *)
(* writes r.config as well.  An off/on cycle or a reopen tunes a new       *)
(* handle by the configuration it reads.                                   *)
(*                                                                         *)
(* Frequencies and rates are in kHz.  A block leaves a trace here only if  *)
(* it belongs to a running scan: the other services tune nothing while     *)
(* they process samples.  USB control transfers succeed, and a run's       *)
(* goroutines end within the stop deadline: StreamLifecycle has the runs   *)
(* that do not, the queue's capacity and the shutdown.                     *)
(*                                                                         *)
(* The setters left out (gain, AGC, mode, filter, noise reduction, IQ      *)
(* recording) neither read nor write anything of this module.              *)
(*                                                                         *)
(* A definition that repeats the name of the one below it with a suffix is *)
(* a mutant: Next reaches none of them.                                    *)
(***************************************************************************)
EXTENDS Integers, Sequences

CONSTANTS
    Clients,       \* the websocket clients' goroutines
    NoOne,         \* streamMu is free
    NoCmd,         \* a client has nothing to enqueue
    NoCall,        \* a client has no second setter to call
    NoBlock,       \* the read goroutine is between blocks
    Services,      \* the services a client selects
    TuneFreqs,     \* the frequencies it listens to
    CenterFreqs,   \* the centers it asks for
    Rates,         \* the sample rates it asks for
    ScanKinds,     \* the scans it starts: full (TRUE), list (FALSE)
    Satellites,    \* satellite.SatelliteCatalog: center and rate of each
    Bands,         \* protocol.Bands: the bands of the list scan
    SweepBands,    \* protocol.FullSweepBands(): those of the full scan
    MaxMsgs        \* bound: messages handled

Digital == {"adsb", "ais", "protocol", "apt", "lrpt", "meteor"}
Listeners == {"apt", "lrpt", "meteor"}
Tunings == [center : Nat, rate : Nat]

ASSUME InputsAssumption ==
    /\ Services \subseteq Digital \cup {"radio"}
    /\ TuneFreqs \subseteq Nat \ {0} /\ CenterFreqs \subseteq Nat \ {0}
    /\ Rates \subseteq Nat \ {0}
    /\ ScanKinds \subseteq BOOLEAN
    /\ Satellites \subseteq Tunings
    /\ MaxMsgs \in Nat /\ NoOne \notin Clients

ASSUME BandsAssumption ==
    /\ Bands \in Seq(Tunings) /\ Len(Bands) > 0
    /\ SweepBands \in Seq(Tunings) /\ Len(SweepBands) > 0

VARIABLES
    config,      \* r.config: service, center, rate, tune, direct
    dongle,      \* the hardware's center and sample rate
    tunedBy,     \* history: the service whose code tuned it last
    directMode,  \* the hardware's direct sampling mode
    appliedDirectMode,
    sdr,         \* r.sdr is open
    enabled,     \* r.enabled
    running,     \* r.running
    live,        \* a processLoop takes blocks
    block,       \* the scan block in processing: the bands, and the band, that
                 \* processProtocol read at its start
    cmdCh,       \* r.cmdCh, the closures
    listening, fullScan, sweep, bandIdx, bandRecords,
                 \* of r.protoScan; sweep: its sweep is not nil; bandIdx from 1
    report,      \* the latest full-scan report
    active,      \* aptListen, lrptListen, meteorListen: which are active
    satellite,   \* meteorListen's centerFreqHz and sampleRateHz
    out,         \* the closure a client is about to enqueue
    then,        \* the setter its handleCmd calls next
    stage,       \* where it stands in SetEnabled or reopenForReconfig
    opening,     \* the configuration openDevice read
    streamMu,    \* the holder of r.streamMu
    msgs,        \* messages handled (bounded by MaxMsgs)
    odd          \* history: what may have set hardware and configuration apart

radioVars  == <<config, dongle, tunedBy, directMode, appliedDirectMode>>
scanVars   == <<listening, fullScan, sweep, bandIdx, bandRecords>>
listenVars == <<active, satellite>>
streamVars == <<sdr, enabled, running, live, opening, streamMu>>
clientVars == <<out, then, stage, msgs>>
vars == <<radioVars, scanVars, listenVars, streamVars, clientVars,
          block, cmdCh, report, odd>>

-----------------------------------------------------------------------------
(* Pure functions of the configuration. *)

normalMin == 24000
normalMax == 1766000
hfMin     == 100
hfMax     == 28800

directSamplingForFreq(f) == IF f < normalMin THEN "Q" ELSE "off"

syncDirectSampling(cfg) ==
    LET want == directSamplingForFreq(cfg.tune)
        rate == IF want = "Q"
                THEN IF cfg.rate > 1024 THEN 1024 ELSE cfg.rate
                ELSE IF cfg.rate < 1500 THEN 2048 ELSE cfg.rate
    IN  IF cfg.direct = want
        THEN cfg ELSE [cfg EXCEPT !.direct = want, !.rate = rate]

desiredDirectMode(cfg) == IF cfg.service = "radio" THEN cfg.direct ELSE "off"

snapFreqForMode(f, cfg) ==
    LET lo == IF cfg.direct = "off" THEN normalMin ELSE hfMin
        hi == IF cfg.direct = "off" THEN normalMax ELSE hfMax
    IN  IF f < lo THEN lo ELSE IF f > hi THEN hi ELSE f

At(center, rate) == [center |-> center, rate |-> rate]

FixedTuning ==
    [ adsb |-> At(1090000, 2000), ais  |-> At(162000, 1536),
      apt  |-> At(137100, 1024),  lrpt |-> At(137900, 2048),
      meteor |-> At(137900, 2048) ]

Configured(cfg) == At(cfg.center, cfg.rate)

effectiveTuning(cfg) ==
    CASE cfg.service = "radio"    -> Configured(cfg)
      [] cfg.service = "protocol" -> Bands[1]
      [] OTHER                    -> FixedTuning[cfg.service]

\* Back on the radio, the center follows the listen frequency.
Homed(cfg) == syncDirectSampling([cfg EXCEPT !.center = cfg.tune])

BandsOf(full) == IF full THEN SweepBands ELSE Bands

\* protoScan.bands() and protocolBandTuning()
bands == BandsOf(fullScan /\ sweep)
bandTuning == bands[IF bandIdx \in DOMAIN bands THEN bandIdx ELSE 1]

-----------------------------------------------------------------------------
(* Init: New() and Start() are over; the server starts.                     *)

DefaultConfig == [service |-> "radio", center |-> 100000, rate |-> 2048,
                  tune |-> 100000, direct |-> "off"]

Init ==
    /\ config = DefaultConfig
    /\ dongle = Configured(DefaultConfig) /\ tunedBy = "radio"
    /\ directMode = "off" /\ appliedDirectMode = "off"
    /\ sdr = TRUE /\ enabled = TRUE /\ running = TRUE /\ live = TRUE
    /\ block = NoBlock /\ cmdCh = <<>>
    /\ listening = FALSE /\ fullScan = FALSE /\ sweep = FALSE
    /\ bandIdx = 1 /\ bandRecords = <<>>
    /\ report = [bands |-> <<>>, clean |-> FALSE]
    /\ active = {} /\ satellite = FixedTuning.meteor
    /\ out = [c \in Clients |-> NoCmd]
    /\ then = [c \in Clients |-> NoCall]
    /\ stage = [c \in Clients |-> "idle"]
    /\ opening = config
    /\ streamMu = NoOne /\ msgs = 0 /\ odd = {}

-----------------------------------------------------------------------------
(* Changes of the hardware, all on the goroutine that runs a closure.       *)

\* forceNormalTunerModeIfNeeded
NormalModeByConfig == IF config.direct = "off" THEN directMode ELSE "off"
NormalMode == IF appliedDirectMode = "off" THEN directMode ELSE "off"

\* Normal tuner mode, sample rate, center: how every digital service tunes.
DigitalTune(t, s) ==
    IF sdr
    THEN /\ dongle' = t /\ tunedBy' = s
         /\ directMode' = NormalMode /\ appliedDirectMode' = "off"
    ELSE UNCHANGED <<dongle, tunedBy, directMode, appliedDirectMode>>

\* applyServiceHardware(ServiceRadio, prev), with applySDRMode in it
RadioTune(prev) ==
    LET cfg  == IF prev = "radio" THEN config ELSE Homed(config)
        mode == IF cfg.service = "radio" /\ cfg.direct # "off"
                THEN cfg.direct ELSE appliedDirectMode
    IN  IF sdr
        THEN /\ config' = cfg
             /\ dongle' = Configured(cfg) /\ tunedBy' = "radio"
             /\ directMode' = IF mode = appliedDirectMode THEN directMode ELSE mode
             /\ appliedDirectMode' = mode
        ELSE UNCHANGED radioVars

\* applyServiceHardware(s, prev)
applyServiceHardware(s, prev) ==
    IF s = "radio"
    THEN RadioTune(prev)
    ELSE /\ DigitalTune(IF s = "protocol" THEN bandTuning
                                          ELSE effectiveTuning(config), s)
         /\ UNCHANGED config

\* applyProtocolBandTune(b) on a dongle tuned to d: the rate is set only if the
\* configuration has another one.
BandTuned(d, b) == At(b.center, IF b.rate = config.rate THEN d.rate ELSE b.rate)

\* tuneProtocolBand(i) of a plan acts on an open dongle, if the configuration is
\* on another band; d is what the dongle is tuned to.
RetunesOnRate(plan, i) == sdr /\ i \in DOMAIN plan /\ config.rate # plan[i].rate
Retunes(plan, i) == sdr /\ i \in DOMAIN plan /\ Configured(config) # plan[i]

TuneProtocolBand(d, plan, i) ==
    IF Retunes(plan, i)
    THEN /\ config' = [config EXCEPT !.center = plan[i].center, !.rate = plan[i].rate]
         /\ dongle' = BandTuned(d, plan[i])
    ELSE dongle' = d /\ UNCHANGED config

-----------------------------------------------------------------------------
(* The closures.                                                            *)

\* SetService
ServiceCmd(s, prev) == [op |-> "service", s |-> s, prev |-> prev]
\* switchToRadioFromProtocol
LeaveCmd(prev) == [op |-> "leave", prev |-> prev]
\* switchToProtocolService
ScanCmd(full) == [op |-> "scan", full |-> full]
\* SetProtocolListen(false), SetProtocolFullScan(false)
StopCmd == [op |-> "stop"]
\* tuneHardware, SetSampleRate
TuneCmd(center) == [op |-> "tune", center |-> center]
RateCmd(rate) == [op |-> "rate", rate |-> rate]
\* SetAPTListen, SetLRPTListen, SetMeteorListen
ListenCmd(s, t) == [op |-> "listen", s |-> s, at |-> t]
UnlistenCmd(s) == [op |-> "unlisten", s |-> s]
\* SetMeteorTrack with another Doppler shift, SetMeteorManualTune
TrackCmd == [op |-> "track"]

\* A closure brings the dongle home to the radio.
Homing(cmd) == \/ cmd.op = "service" /\ cmd.s = "radio" /\ cmd.prev # "radio"
               \/ cmd.op = "leave"

RunService(s, prev) ==
    /\ applyServiceHardware(s, prev)
    /\ active' = IF s = prev THEN active ELSE active \cap {s}
    /\ odd' = IF s = "radio" /\ sdr THEN odd \ {"foreign"} ELSE odd
    /\ UNCHANGED <<scanVars, satellite>>

RunLeave(prev) ==
    /\ RadioTune(prev)
    /\ odd' = IF sdr THEN odd \ {"foreign"} ELSE odd
    /\ UNCHANGED <<scanVars, listenVars>>

\* History: the scan begins anew, undisturbed if no other closure is on its way,
\* but astray if it left the dongle elsewhere than on its first band.
Undisturbed == Len(cmdCh) <= 1 /\ (running => \A c \in Clients : out[c] = NoCmd)

Begun(first) ==
    (odd \ ({"restart", "astray"} \cup IF Undisturbed THEN {"scan"} ELSE {}))
    \cup (IF sdr /\ dongle' # first THEN {"astray"} ELSE {})

\* applyServiceHardware(ServiceProtocol, prev), which still sees the old
\* fullScan, and beginProtocolScan: the first band is tuned if the
\* configuration is not on it already.
BeginScan(full, records) ==
    /\ listening' = TRUE /\ fullScan' = full /\ sweep' = full
    /\ bandIdx' = 1 /\ bandRecords' = records
    /\ TuneProtocolBand(IF sdr THEN bandTuning ELSE dongle, BandsOf(full), 1)
    /\ IF sdr
       THEN /\ tunedBy' = "protocol"
            /\ directMode' = NormalMode /\ appliedDirectMode' = "off"
       ELSE UNCHANGED <<tunedBy, directMode, appliedDirectMode>>
    /\ odd' = Begun(BandsOf(full)[1])
    /\ UNCHANGED listenVars

RunScanKeepRecords(full) == BeginScan(full, bandRecords)
RunScan(full) == BeginScan(full, <<>>)

RunStop ==
    /\ listening' = FALSE /\ fullScan' = FALSE
    /\ UNCHANGED <<radioVars, sweep, bandIdx, bandRecords, listenVars, odd>>

RunTune(center) ==
    /\ IF sdr /\ config.service = "radio"
       THEN /\ dongle' = [dongle EXCEPT !.center = snapFreqForMode(center, config)]
            /\ tunedBy' = "radio"
       ELSE UNCHANGED <<dongle, tunedBy>>
    /\ UNCHANGED <<config, directMode, appliedDirectMode, scanVars, listenVars, odd>>

RunRate(rate) ==
    /\ dongle' = IF sdr /\ config.service = "radio"
                 THEN [dongle EXCEPT !.rate = rate] ELSE dongle
    /\ UNCHANGED <<config, tunedBy, directMode, appliedDirectMode,
                   scanVars, listenVars, odd>>

\* No listener looks at the service in force: it may tune a foreign one.
Foreign(s) == IF sdr /\ config.service # s THEN {"foreign"} ELSE {}

RunListen(s, t) ==
    /\ active' = active \cup {s}
    /\ satellite' = IF s = "meteor" THEN t ELSE satellite
    /\ DigitalTune(t, s)
    /\ odd' = odd \cup Foreign(s)
    /\ UNCHANGED <<config, scanVars>>

RunUnlisten(s) ==
    /\ active' = active \ {s}
    /\ UNCHANGED <<radioVars, scanVars, satellite, odd>>

RunTrack ==
    /\ IF "meteor" \in active
       THEN DigitalTune(satellite, "meteor") /\ odd' = odd \cup Foreign("meteor")
       ELSE UNCHANGED <<dongle, tunedBy, directMode, appliedDirectMode, odd>>
    /\ UNCHANGED <<config, scanVars, listenVars>>

Execute(cmd) ==
    \/ cmd.op = "service"  /\ RunService(cmd.s, cmd.prev)
    \/ cmd.op = "leave"    /\ RunLeave(cmd.prev)
    \/ cmd.op = "scan"     /\ RunScan(cmd.full)
    \/ cmd.op = "stop"     /\ RunStop
    \/ cmd.op = "tune"     /\ RunTune(cmd.center)
    \/ cmd.op = "rate"     /\ RunRate(cmd.rate)
    \/ cmd.op = "listen"   /\ RunListen(cmd.s, cmd.at)
    \/ cmd.op = "unlisten" /\ RunUnlisten(cmd.s)
    \/ cmd.op = "track"    /\ RunTrack

-----------------------------------------------------------------------------
(* Setters: the part under r.mu, on the client's goroutine.                 *)

Idle(c) == stage[c] = "idle" /\ out[c] = NoCmd
Free(c) == Idle(c) /\ then[c] = NoCall

\* History: another client is inside a setter or a reopen; or the setter comes
\* before a homing that is queued, or behind the queue of a stopped stream.
Overlap(c) == IF \E d \in Clients \ {c} : ~Idle(d) THEN {"overlap"} ELSE {}

Oddities(c) ==
    Overlap(c)
    \cup (IF \/ \E i \in DOMAIN cmdCh : Homing(cmdCh[i])
             \/ ~running /\ cmdCh # <<>>
          THEN {"early"} ELSE {})

\* The setter leaves cfg behind, with cmd still to be queued.
Configure(c, cfg, cmd, kinds) ==
    /\ config' = cfg
    /\ out' = [out EXCEPT ![c] = cmd]
    /\ odd' = odd \cup Oddities(c) \cup kinds

\* The setter leaves cfg behind and goes on to reopenForReconfig.
Reconfigure(c, cfg) ==
    /\ config' = cfg
    /\ stage' = [stage EXCEPT ![c] = "reopen"]
    /\ odd' = odd \cup Oddities(c)

SetTuneFreq(c, freq) ==
    LET cfg == syncDirectSampling([config EXCEPT !.tune = freq])
        far == \/ (freq - cfg.center) * 100 > cfg.rate * 45
               \/ (cfg.center - freq) * 100 > cfg.rate * 45
        new == IF far THEN [cfg EXCEPT !.center = freq] ELSE cfg
    IN  /\ config.service = "radio"
        /\ IF cfg.direct # config.direct
           THEN Reconfigure(c, new) /\ UNCHANGED out
           ELSE Configure(c, new, IF far THEN TuneCmd(freq) ELSE NoCmd, {})
                /\ UNCHANGED stage

SetCenterFreq(c, freq) ==
    LET cfg == [syncDirectSampling(config) EXCEPT !.center = freq]
    IN  /\ config.service = "radio"
        /\ IF cfg.direct # config.direct
           THEN Reconfigure(c, cfg) /\ UNCHANGED out
           ELSE /\ config.center # freq
                /\ Configure(c, cfg, TuneCmd(freq), {})
                /\ UNCHANGED stage

SetSampleRate(c, rate) ==
    /\ config.rate # rate
    /\ Configure(c, [config EXCEPT !.rate = rate], RateCmd(rate), {"scan"})

SetService(c, s) ==
    LET cfg == [config EXCEPT !.service = s]
    IN  Configure(c, IF s = "radio" /\ config.service # "radio"
                     THEN Homed(cfg) ELSE cfg,
                  ServiceCmd(s, config.service), {"scan"})

\* prepareProtocolBands writes protoScan on the client's goroutine.
switchToProtocolService(c, full) ==
    /\ Configure(c, [config EXCEPT !.service = "protocol"],
                 ScanCmd(full), {"scan", "restart"})
    /\ sweep' = full /\ bandIdx' = 1

switchToRadioFromProtocol(c) ==
    IF config.service = "radio"
    THEN UNCHANGED <<config, out, odd>>
    ELSE Configure(c, Homed([config EXCEPT !.service = "radio"]),
                   LeaveCmd(config.service), {"scan"})

EnqueueOnly(c, cmd) ==
    /\ out' = [out EXCEPT ![c] = cmd]
    /\ UNCHANGED <<config, odd>>

-----------------------------------------------------------------------------
(* handleCmd: one message is one setter, or two in a row.                   *)

hardware == <<dongle, tunedBy, directMode, appliedDirectMode>>
rest == <<hardware, listening, fullScan, bandRecords, listenVars, streamVars,
          block, cmdCh, report>>

Message(c) == Free(c) /\ msgs < MaxMsgs /\ msgs' = msgs + 1

Tune(c) ==
    /\ Message(c)
    /\ \/ \E f \in TuneFreqs : SetTuneFreq(c, f)
       \/ \E f \in CenterFreqs : SetCenterFreq(c, f)
    /\ UNCHANGED <<then, sweep, bandIdx, rest>>

SampleRate(c) ==
    /\ Message(c)
    /\ \E rate \in Rates : SetSampleRate(c, rate)
    /\ UNCHANGED <<then, stage, sweep, bandIdx, rest>>

Service(c) ==
    /\ Message(c)
    /\ \E s \in Services : SetService(c, s)
    /\ UNCHANGED <<then, stage, sweep, bandIdx, rest>>

StartScan(c) ==
    /\ Message(c)
    /\ \E full \in ScanKinds : switchToProtocolService(c, full)
    /\ UNCHANGED <<then, stage, rest>>

StopScan(c) ==
    /\ Message(c)
    /\ ScanKinds # {}
    /\ EnqueueOnly(c, StopCmd)
    /\ then' = [then EXCEPT ![c] = [call |-> "leave"]]
    /\ UNCHANGED <<stage, sweep, bandIdx, rest>>

\* aptListen, lrptListen, meteorListen
Listen(c) ==
    /\ Message(c)
    /\ \E s \in Services \cap Listeners :
         \E t \in IF s = "meteor" THEN Satellites ELSE {FixedTuning[s]} :
            /\ SetService(c, s)
            /\ then' = [then EXCEPT ![c] = [call |-> "listen", cmd |-> ListenCmd(s, t)]]
    /\ UNCHANGED <<stage, sweep, bandIdx, rest>>

Unlisten(c) ==
    /\ Message(c)
    /\ \E s \in Services \cap Listeners : EnqueueOnly(c, UnlistenCmd(s))
    /\ UNCHANGED <<then, stage, sweep, bandIdx, rest>>

Track(c) ==
    /\ Message(c)
    /\ "meteor" \in Services
    /\ EnqueueOnly(c, TrackCmd)
    /\ UNCHANGED <<then, stage, sweep, bandIdx, rest>>

Power(c) ==
    /\ Message(c)
    /\ \E op \in {"on", "off"} : stage' = [stage EXCEPT ![c] = op]
    /\ UNCHANGED <<config, out, odd, then, sweep, bandIdx, rest>>

SecondSetter(c) ==
    /\ Idle(c) /\ then[c] # NoCall
    /\ then' = [then EXCEPT ![c] = NoCall]
    /\ IF then[c].call = "leave" THEN switchToRadioFromProtocol(c)
                                 ELSE EnqueueOnly(c, then[c].cmd)
    /\ UNCHANGED <<stage, msgs, sweep, bandIdx, rest>>

enqueue(c) ==
    /\ out[c] # NoCmd
    /\ out' = [out EXCEPT ![c] = NoCmd]
    /\ IF running
       THEN /\ cmdCh' = Append(cmdCh, out[c])
            /\ UNCHANGED <<radioVars, scanVars, listenVars, odd>>
       ELSE Execute(out[c]) /\ UNCHANGED cmdCh
    /\ UNCHANGED <<then, stage, msgs, streamVars, block, report>>

-----------------------------------------------------------------------------
(* SetEnabled and reopenForReconfig, under streamMu.                        *)

Goto(c, s) == stage' = [stage EXCEPT ![c] = s]
Finish(c) == Goto(c, "idle") /\ streamMu' = NoOne

clientRest == <<out, then, msgs>>

LockStream(c) ==
    /\ stage[c] \in {"reopen", "off", "on"} /\ streamMu = NoOne
    /\ streamMu' = c
    /\ Goto(c, IF stage[c] = "on" THEN "open" ELSE "stop")
    /\ enabled' = CASE stage[c] = "on"     -> TRUE
                    [] stage[c] = "off"    -> FALSE
                    [] stage[c] = "reopen" -> enabled
    /\ cmdCh' = IF stage[c] = "reopen" THEN <<>> ELSE cmdCh
    /\ odd' = odd \cup Overlap(c)
    /\ UNCHANGED <<radioVars, scanVars, listenVars, sdr, running, live, opening,
                   clientRest, block, report>>

\* stopStreaming: the run is cancelled; the block in processing is finished.
StopLoop(c) ==
    /\ stage[c] = "stop" /\ block = NoBlock
    /\ live' = FALSE
    /\ Goto(c, "close")
    /\ UNCHANGED <<radioVars, scanVars, listenVars, sdr, enabled, running, opening,
                   streamMu, clientRest, block, cmdCh, report, odd>>

\* stopStreaming without running.Store(false).
CloseDeviceStillRunning(c) ==
    /\ stage[c] = "close"
    /\ sdr' = FALSE
    /\ IF enabled THEN Goto(c, "open") /\ UNCHANGED streamMu ELSE Finish(c)
    /\ UNCHANGED <<radioVars, scanVars, listenVars, enabled, running, live, opening,
                   clientRest, block, cmdCh, report, odd>>

\* The device is closed; the turn is over unless the receiver is enabled.
CloseDevice(c) ==
    /\ stage[c] = "close"
    /\ running' = FALSE /\ sdr' = FALSE
    /\ IF enabled THEN Goto(c, "open") /\ UNCHANGED streamMu ELSE Finish(c)
    /\ UNCHANGED <<radioVars, scanVars, listenVars, enabled, live, opening,
                   clientRest, block, cmdCh, report, odd>>

\* openDevice reads the configuration, and opens a handle.
ReadConfig(c) ==
    /\ stage[c] = "open" /\ ~sdr
    /\ opening' = config
    /\ Goto(c, "opening")
    /\ UNCHANGED <<radioVars, scanVars, listenVars, sdr, enabled, running, live,
                   streamMu, clientRest, block, cmdCh, report, odd>>

OpenTuningPlain(cfg) == Configured(cfg)
OpenTuning(cfg) == IF cfg.service = "protocol" THEN bandTuning
                                               ELSE effectiveTuning(cfg)

\* With the handle, it writes the band of a scan into the configuration.
BandWritten == IF opening.service = "protocol"
               THEN [config EXCEPT !.center = bandTuning.center, !.rate = bandTuning.rate]
               ELSE config

openDevice(c) ==
    /\ stage[c] = "opening"
    /\ sdr' = TRUE /\ config' = BandWritten
    /\ dongle' = OpenTuning(opening) /\ tunedBy' = opening.service
    /\ directMode' = desiredDirectMode(opening)
    /\ appliedDirectMode' = desiredDirectMode(opening)
    /\ odd' = IF cmdCh = <<>> THEN odd \ {"early", "foreign"} ELSE odd
    /\ Goto(c, "start")
    /\ UNCHANGED <<scanVars, listenVars, enabled, running, live, opening,
                   streamMu, clientRest, block, cmdCh, report>>

\* SetEnabled(true) finds the device open.
AlreadyOpen(c) ==
    /\ stage[c] = "open" /\ sdr
    /\ IF running THEN Finish(c) ELSE Goto(c, "start") /\ UNCHANGED streamMu
    /\ UNCHANGED <<radioVars, scanVars, listenVars, sdr, enabled, running, live,
                   opening, clientRest, block, cmdCh, report, odd>>

startRun(c) ==
    /\ stage[c] = "start"
    /\ running' = TRUE /\ live' = TRUE
    /\ Finish(c)
    /\ UNCHANGED <<radioVars, scanVars, listenVars, sdr, enabled, opening,
                   clientRest, block, cmdCh, report, odd>>

\* rtl.New fails, or the tuning of the handle, with the band written; or StartRx.
StartFails(c) ==
    /\ stage[c] \in {"opening", "start"}
    /\ config' \in IF stage[c] = "opening" THEN {config, BandWritten} ELSE {config}
    /\ Finish(c)
    /\ UNCHANGED <<hardware, scanVars, listenVars, sdr, enabled, running, live,
                   opening, clientRest, block, cmdCh, report, odd>>

-----------------------------------------------------------------------------
(* processLoop.                                                             *)

drainCommands ==
    /\ live /\ block = NoBlock /\ cmdCh # <<>>
    /\ cmdCh' = Tail(cmdCh)
    /\ Execute(Head(cmdCh))
    /\ UNCHANGED <<streamVars, clientVars, block, report>>

processBlock ==
    /\ live /\ block = NoBlock /\ cmdCh = <<>>
    /\ config.service = "protocol" /\ listening /\ bandIdx \in DOMAIN bands
    /\ block' = [bands |-> bands, band |-> bands[bandIdx]]
    /\ UNCHANGED <<radioVars, scanVars, listenVars, streamVars, clientVars,
                   cmdCh, report, odd>>

\* The dwell on the band goes on.
BlockDone ==
    /\ block # NoBlock
    /\ block' = NoBlock
    /\ UNCHANGED <<radioVars, scanVars, listenVars, streamVars, clientVars,
                   cmdCh, report, odd>>

\* A full scan notes the band it was on, and what was heard there: the dongle
\* is tuned to `at`.
Recorded == Append(bandRecords, [band |-> block.band, at |-> dongle])

\* protocolChunkReady holds at the end of the block: completeFullScan
LastBandDone ==
    /\ block # NoBlock
    /\ fullScan /\ bandIdx >= Len(block.bands)
    /\ block' = NoBlock
    /\ bandRecords' = Recorded
    /\ report' = [bands |-> [i \in DOMAIN Recorded |-> Recorded[i].band],
                  clean |-> "restart" \notin odd]
    /\ listening' = FALSE /\ fullScan' = FALSE /\ sweep' = FALSE
    /\ UNCHANGED <<radioVars, bandIdx, listenVars, streamVars, clientVars,
                   cmdCh, odd>>

NextIdxNoWrap == bandIdx + 1
NextIdx == IF bandIdx + 1 > Len(bands) THEN 1 ELSE bandIdx + 1

\* ... or advanceProtocolBand
BandDone ==
    /\ block # NoBlock
    /\ ~(fullScan /\ bandIdx >= Len(block.bands))
    /\ block' = NoBlock
    /\ bandRecords' = IF fullScan THEN Recorded ELSE bandRecords
    /\ bandIdx' = NextIdx
    /\ TuneProtocolBand(dongle, bands, NextIdx)
    /\ IF Retunes(bands, NextIdx)
       THEN /\ tunedBy' = "protocol"
            /\ directMode' = NormalMode /\ appliedDirectMode' = "off"
       ELSE UNCHANGED <<tunedBy, directMode, appliedDirectMode>>
    /\ UNCHANGED <<listening, fullScan, sweep, listenVars, streamVars, clientVars,
                   cmdCh, report, odd>>

Client(c) == \/ Tune(c) \/ SampleRate(c) \/ Service(c) \/ StartScan(c) \/ StopScan(c)
             \/ Listen(c) \/ Unlisten(c) \/ Track(c) \/ Power(c)
             \/ SecondSetter(c) \/ enqueue(c)
Stream(c) == \/ LockStream(c) \/ StopLoop(c) \/ CloseDevice(c) \/ ReadConfig(c)
             \/ openDevice(c) \/ AlreadyOpen(c) \/ startRun(c) \/ StartFails(c)
ReadLoop == \/ drainCommands \/ processBlock \/ BlockDone \/ LastBandDone \/ BandDone

Next == \/ \E c \in Clients : Client(c) \/ Stream(c)
        \/ ReadLoop

Spec == Init /\ [][Next]_vars

-----------------------------------------------------------------------------
(* Properties.                                                              *)

Stages == {"idle", "reopen", "off", "on", "stop", "close", "open", "opening", "start"}
Modes == {"off", "Q"}
AllServices == Digital \cup {"radio"}
Configs == [service : AllServices, center : Nat, rate : Nat, tune : Nat, direct : Modes]

Commands ==
    [op : {"service"}, s : AllServices, prev : AllServices]
    \cup [op : {"leave"}, prev : AllServices]
    \cup [op : {"scan"}, full : BOOLEAN]
    \cup [op : {"stop", "track"}]
    \cup [op : {"tune"}, center : Nat]
    \cup [op : {"rate"}, rate : Nat]
    \cup [op : {"listen"}, s : Listeners, at : Tunings]
    \cup [op : {"unlisten"}, s : Listeners]

ASSUME MarksAssumption == NoCmd \notin Commands

RadioType ==
    /\ config \in Configs /\ opening \in Configs
    /\ dongle \in Tunings /\ tunedBy \in AllServices
    /\ directMode \in Modes /\ appliedDirectMode \in Modes
    /\ active \subseteq Listeners /\ satellite \in Tunings

ScanType ==
    /\ listening \in BOOLEAN /\ fullScan \in BOOLEAN /\ sweep \in BOOLEAN
    /\ bandIdx \in DOMAIN Bands \cup DOMAIN SweepBands
    /\ bandRecords \in Seq([band : Tunings, at : Tunings])
    /\ block \in [bands : {Bands, SweepBands}, band : Tunings] \cup {NoBlock}
    /\ report \in [bands : Seq(Tunings), clean : BOOLEAN]

StreamType ==
    /\ sdr \in BOOLEAN /\ enabled \in BOOLEAN
    /\ running \in BOOLEAN /\ live \in BOOLEAN
    /\ stage \in [Clients -> Stages]
    /\ streamMu \in Clients \cup {NoOne}

ClientType ==
    /\ cmdCh \in Seq(Commands)
    /\ out \in [Clients -> Commands \cup {NoCmd}]
    /\ then \in [Clients -> [call : {"leave"}] \cup [call : {"listen"}, cmd : Commands]
                               \cup {NoCall}]
    /\ msgs \in 0 .. MaxMsgs
    /\ odd \subseteq {"overlap", "early", "foreign", "scan", "restart", "astray"}

\* Every variable is of its type.
TypeOK == RadioType /\ ScanType /\ StreamType /\ ClientType

\* The digital services need the normal tuner: whatever the order of setters,
\* closures, scan steps and reopens, the dongle is never in direct sampling
\* when the code of a digital service was the last to tune it
\* (forceNormalTunerModeIfNeeded, openDeviceExtras).
DigitalNeverDirect == tunedBy # "radio" => directMode = "off"

\* Nothing is under way: no setter, no closure, no block, and a stream runs.
Settled == /\ live /\ block = NoBlock /\ cmdCh = <<>>
           /\ \A c \in Clients : Free(c)

Unlike(kinds) == odd \cap kinds = {}

\* Once everything has settled the dongle is where the configuration says,
\* on the radio and on a service with a frequency of its own, over any number
\* of switches, scans, reopens and off/on cycles.  Three things are known to
\* break it and excluded by name: setters that overlap (their closures may
\* queue in the other order), a setter before a queued homing or behind the
\* queue of a stopped stream, and a listener's closure that runs under a
\* foreign service.
DongleFollowsConfig ==
    Settled /\ Unlike({"overlap", "early", "foreign"}) =>
        /\ config.service = "radio" =>
              /\ dongle.rate = config.rate /\ directMode = config.direct
              /\ dongle.center \in {config.center,
                                    snapFreqForMode(config.center, config)}
        /\ config.service \in {"adsb", "ais", "apt", "lrpt"} =>
              dongle = FixedTuning[config.service]

\* A scan notes under a band only what it heard there: at the end of its dwell
\* the dongle has the center and the rate of the band.  A scan that somebody
\* disturbs since it began is excluded.
RecordsMeasureTheirBand ==
    [][\A n \in DOMAIN bandRecords' :
          bandRecords' # bandRecords /\ n = Len(bandRecords') /\ odd = {}
              => bandRecords'[n].at = bandRecords'[n].band]_vars

\* A report has every band of the sweep once and in order, even if the scan was
\* stopped, resumed, or went through an off/on cycle; unless another scan was
\* asked for in its midst, whose prepareProtocolBands moves the index at once.
ReportCoversSweep == report.clean => report.bands = SweepBands

\* "Hardware was tuned on reopen; only retune if config/hardware diverged"
\* (protocol.go:206): when nothing is under way and a scan is on its first
\* band, the dongle is on that band.
ScanStartsOnItsBand ==
    Settled /\ config.service = "protocol" /\ listening /\ bandIdx = 1
        => dongle = bands[1]

\* "Tune for whatever service is active ... a reopen can happen while a digital
\* service is selected (e.g. resuming after disable ...)" (receiver.go:232-234):
\* a device that is opened while a satellite is listened to is tuned to it.
ReopenTunesSatellite ==
    [][~sdr /\ sdr' /\ config.service = "meteor" /\ "meteor" \in active
          => dongle' = satellite]_vars

\* The device and the loop as OneStream has them.
Streams == {s \in {TRUE} : live}

OS == INSTANCE OneStream WITH
          Callers <- Clients, NoDevice <- FALSE,
          turn <- streamMu, wanted <- enabled, device <- sdr,
          streams <- Streams, over <- FALSE

\* Setters, closures, scans and reopens together keep the promise of OneStream:
\* no reopen and no off/on cycle starts a second loop, closes the dongle under
\* a loop, or leaves a setter with a wrong idea of where its closure runs.
OneStreamAtATime == OS!Spec

-----------------------------------------------------------------------------
(* What the safety properties rest on.                                      *)

\* appliedDirectMode is "the real hardware state" (hardware.go:63).
ModeInv == (sdr => appliedDirectMode = directMode) /\ DigitalNeverDirect

\* Only the holder of streamMu stops and starts the loop, and a block is
\* processed while a stream runs: closures and blocks exclude each other.
LoopInv ==
    /\ \A c \in Clients :
          /\ stage[c] \in {"stop", "close", "open", "opening", "start"} => streamMu = c
          /\ stage[c] = "close" => ~live
    /\ live => running
    /\ block # NoBlock => live

\* What the holder of streamMu keeps true of the device and the loop at each
\* stage of its call.
HolderAt(s) == streamMu # NoOne /\ stage[streamMu] = s

TurnInv ==
    /\ live => sdr
    /\ running => live \/ HolderAt("close")
    /\ live /\ ~enabled => HolderAt("stop")
    /\ \A c \in Clients :
          /\ stage[c] \in {"open", "opening", "start"} => enabled
          /\ stage[c] = "opening" => ~sdr
          /\ stage[c] = "start" => sdr /\ ~live

\* A full scan has recorded the bands before the one it is on.
OrderInv ==
    fullScan /\ "restart" \notin odd =>
        /\ sweep /\ bandIdx \in DOMAIN SweepBands
        /\ Len(bandRecords) = bandIdx - 1
        /\ \A n \in DOMAIN bandRecords : bandRecords[n].band = SweepBands[n]
        /\ block # NoBlock => /\ block.bands = SweepBands
                              /\ block.band = SweepBands[bandIdx]

IInv == ModeInv /\ LoopInv /\ OrderInv /\ ReportCoversSweep
=============================================================================
