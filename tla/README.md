# WebSDR in TLA+

A verification project for WebSDR: a Go server that reads IQ samples from an
RTL-SDR dongle, demodulates and decodes them, and feeds spectrum, audio and decoded
messages to browsers over websockets and WebRTC; and the Vue frontend that
controls it. One dongle is shared by all browsers, and every browser may switch
it off, retune it or change its service at any time: the hard part of the program is
concurrency. What the samples become on the digital services is modelled too, down to the bit.

1. [The system](#1-the-system)
2. [Modules and plan](#2-modules-and-plan)
3. [StreamLifecycle](#3-streamlifecycle)
4. [Hub](#4-hub)
5. [Tuning](#5-tuning)
6. [Feed, WebRTC, AudioPath](#6-feed-webrtc-audiopath)
7. [Scan](#7-scan)
8. [Decoders](#8-decoders)
9. [Runs, bounds and fairness](#9-runs-bounds-and-fairness)
10. [Proofs](#10-proofs)
11. [What the code does that its comments deny](#11-what-the-code-does-that-its-comments-deny)
12. [What else the models show](#12-what-else-the-models-show)
13. [Not modelled](#13-not-modelled)

Paths are relative to the repository.

## 1. The system

```
 browser ──ws──> HandleWS ──> handleCmd ──> Receiver setters ──cmdCh──┐
 (tabs)  <─ws─── writeLoop <── client.send <── broadcast               │
                                   ▲                                  ▼
 librtlsdr ── r.rx ──> drainPipe ──blockCh──> processLoop (DSP, decoders, device control)
                                   │                │
                     audioCh, spectrumCh, iqCh, decodeCh <──┘
```

| Component | State | Operations | Talks to | Hard behaviour |
|---|---|---|---|---|
| **Stream lifecycle** `internal/receiver/receiver.go`, `hardware.go` | `enabled`, `running`, `runGen`, `sdr`, `rx`, `runCancel`, `cmdCh`, `streamMu`; per run: context, `blockCh` | `Start`, `SetEnabled`, `reopenForReconfig`, `startRun`, `stopStreaming`, `stopRun`, `enqueue`, `drainPendingCmds`, `drainPipe`, `processLoop`, `Close` | called by every websocket goroutine; owns the device | goroutines of an old run beside those of a new one, stop deadline, check-then-send on `running`, a lock held while a bounded queue is full |
| **Hub** `internal/server/server.go` | `clients`, `clientVolume`, `mu`; per client `send` | `HandleWS`, `handleCmd`, `statusJSON`, `broadcast`, four broadcast loops, `writeLoop` | receiver's channels, browsers | close versus send, slow and dead clients, a read lock among waiting writers, late status |
| **Tuning and services** `receiver.go`, `services.go`, `hf.go`, `hardware.go` | `config` under `mu`, what the hardware was set to, `appliedDirectMode` | `SetTuneFreq`, `SetCenterFreq`, `SetSampleRate`, `SetService`, `applyServiceHardware`, `openDevice` | lifecycle (reopen at the 24 MHz edge), `cmdCh` | configuration written now, hardware later, in an order two clients do not share |
| **Protocol scan** `receiver/protocol.go`, `protocol/bands.go`, `fullscan*.go`, `tracker.go` | `protoScan` (on the read goroutine, says its comment), `config` | start, stop, dwell, band hop, full scan, report | tuning, `decodeCh`, the ADS-B table | state reset on a client's goroutine, configuration overwritten by the scan, blocks of the stop before, a last frame sent once |
| **Satellite listening, recording** `apt.go`, `lrpt.go`, `meteor.go`, `iq_record.go` | listen and record states | listen, track, tune, record | tuning, `iqCh` | Doppler updates as queued commands |
| **Feeds** `pipeline.go`, `services.go` | `audioCh`, `spectrumCh`, `iqCh`, `decodeCh` | drop-oldest and drop-newest sends | DSP to hub | two goroutines take from one full channel |
| **WebRTC audio** `server/webrtc.go` | sessions, two mutexes, `closed` | offer, state callback, dispatch, close, mu-law | audio broadcast loop | failure before registration, lock order, 16-bit sums |
| **ADS-B** `internal/adsb` | demodulator tail, aircraft table | per block, per frame, snapshot | the read goroutine | block boundaries, pairs of positions, ageing |
| **AIS** `internal/ais` | bit clock, deframer, vessel table | per sample, per bit, per frame, snapshot | the read goroutine | bit stuffing, shared flags, partial reports |
| **Protocol detection** `internal/protocol` | per scan | peaks, classification, demodulation of the rest | the scan | floating-point heuristics |
| **DSP** `internal/dsp` | filters | per block | | floating point |
| **Catalogue and TLE** `internal/satellite`, `server/meteor_api.go` | a six-hour cache | fetch | HTTP | two fetches at once |
| **Frontend** `web/src` | per page: connection, scan, recording, audio buffers | timers, messages, user actions | websocket, WebRTC | retry after stop, timers, reconnection |

What makes each correct:

- *lifecycle*: one stream at a time on an open device; the flags tell the truth
  when no call is under way; off stays off; every call returns; a stopped goroutine
  leaves; a live stream delivers;
- *hub*: no send on a closed channel; a client that keeps up is told every announced
  change; one that does not stalls nobody; a lost client leaves nothing behind;
- *tuning*: when commands have settled the hardware is where the configuration says;
- *scan*: every band is measured where it is, the report has what was there, its end
  is told to everyone;
- *feeds*: the newest frame is kept and order is never reversed;
- *WebRTC*: no packet for a closed session, a closed session leaves the map, the two
  mutexes cannot deadlock;
- *ADS-B and AIS*: a valid frame is found once, wherever it is cut; a position is the
  aircraft's; a report takes nothing away;
- *frontend*: a stopped page sends no start, a recording ends with its pass.

`PROJECT.json` lists the hazards behind these, each at its line of code.

## 2. Modules and plan

| Module | What it is | Uses |
|---|---|---|
| `OneStream` | what `SetEnabled` and `reopenForReconfig` promise of the dongle | |
| `StreamLifecycle` | the receiver's device, stream and command queue | implements `OneStream` |
| `Hub` | websocket clients, broadcasts, `h.mu` | |
| `Tuning` | `config` against the hardware: closures in `cmdCh` with what they captured, both scans' control | implements `OneStream` |
| `LatestWins` | what a drop-oldest channel promises | |
| `Feed` | the three selects of `flushAudio` and `pushDecode`, and a taker | implements `LatestWins` |
| `WebRTC` | sessions, both mutexes, the state callback, dispatch | |
| `AudioPath` | read goroutine, audio broadcast loop and sessions together | `Feed`, `WebRTC` |
| `Scan` | what the blocks of a full scan become, up to the hub | `Feed` |
| `ModeS`, `Aircraft` | ADS-B: frames in a cut stream; positions and the table | |
| `AisChannel`, `Vessels` | AIS: from the line to messages; the table | |
| `MuLaw` | the bytes of a voice call | |
| `Decoders` | the last five, one at a time | all five |

`MCStream`, `MCHub`, `MCTuning`, `MCAudio`, `MCScan` and `MCDecoders` are their instances for TLC;
`StreamLifecycleProofs`, `HubProofs`, `TuningProofs`, `LatestWinsProofs`, `AudioPathProofs`,
`ScanProofs`, `DecodersProofs` and `AisProofs` hold the theorems.

A call into the receiver is one step of Hub; that it returns is `LockIsReleased` and
`FullQueueDrains` of StreamLifecycle. What a command does is Tuning; when it runs is
StreamLifecycle. Both have the calls that start and stop the stream, one with the goroutines
of a run and their failures, the other with what the calls do to the dongle; `OneStream` is what
they have in common, and both are shown to implement it. Tuning sees a scan from the clients,
Scan from the samples.

Worth doing next: failing USB control transfers in Tuning; the list scan's dwell in Scan.

## 3. StreamLifecycle

`StreamLifecycle.tla` models `receiver.go` and the reopen of `hardware.go`.

| In the model | In the code |
|---|---|
| a step | the code between two points where another goroutine can see or change what it uses |
| `pc`, `op`, `call` of a client | where its websocket goroutine stands, and in which lifecycle call |
| `streamMu`, `cmdCh`, `enabled`, `running`, `runGen` | the fields of these names |
| `sdr`, `lastSdr` | `r.sdr` as the name of a handle; the handle opened last |
| `rx`, `runCancel` | the run whose stream / cancel function it is |
| `drain[r]`, `loop[r]`, `blocks[r]`, `cancelled[r]`, `gen[r]` | run r's drainPipe, processLoop, blockCh, context, `gen` argument |
| `parentDone` | main called `cancel()` |
| `overdue` | history only: runs that were not over at a stop's deadline |

Runs and handles are named after the lifecycle call that makes them, so that
calls need no shared counter. A queued command is the name of the handle that
was open when it was issued: enough to tell a stale command, and a command does
nothing else that the lifecycle depends on. Opening a device, closing it and
StartRx may fail at each call. `rx.Read` returns a block of an open stream, or
nothing.

The two-second deadline of `stopStreaming` is a choice: the wait ends with
`running` false or when time is up, whatever the goroutines did meanwhile.
`OnlyShutdownClears` says that before shutdown it is always the deadline that ends
the wait: `stopStreaming` bumps `runGen` first, so the drainPipe it waits for no
longer clears `running`. Every off and every reopen therefore takes two
seconds, and for these two seconds setters see `running` and queue commands that
nobody takes.

Safety properties: `OneStreamAtATime`, `RunningMeansStreaming`, `DeviceOpenWhileLive`,
`OverlapOnlyIfOverdue`, `OnlyShutdownClears`, `DrainNeverStalls`. Liveness:
`LockIsReleased`, `FullQueueDrains`, `StreamDelivers`, `DrainPipesExit`,
`ShutdownCompletes`. Each is explained where it is defined. `StoppedMeansCancelled`,
`AtMostOneLiveRun` and `DisabledStaysOff` follow from `OneStreamAtATime`; they are theorems
(section 10) and no longer part of a run.

`OneStream.tla` is the promise behind `streamMu`, which no comment of the code writes down. Calls
take turns (`Take`: `Lock`, and what `SetEnabled` stores). In its turn a call opens the device
(`openDevice`), begins a stream on it (the compare-and-swap, `StartRx` and the two goroutines),
ends the stream (`stopStreaming`) or closes the device (`stopRun`), each only where the last line
says that it may, and may set `running` while no stream is on; a turn ends only with the flag
right, and with no stream for a receiver that is off. `Shutdown` is a signal: `Close` takes
no lock, and nothing is promised after it. The mapping (`OS`) is

| OneStream | StreamLifecycle | Tuning |
|---|---|---|
| `turn`, `wanted`, `running` | `streamMu`, `enabled`, `running` | the same |
| `device` | `sdr`, a handle or 0 | `sdr`, open or not |
| `streams` | the runs started and not cancelled | `{TRUE}` if a loop takes blocks |
| `over` | `parentDone` | never |

A stream is over when its context is cancelled. Its goroutines may be there a little longer, and
`OverlapOnlyIfOverdue` is about these.

Outside this module: `reopenLoop` (nothing calls `requestReopen`, so it waits on an
empty channel for ever), what a command does, what DSP computes.

## 4. Hub

`Hub.tla` models `server.go`: every HandleWS goroutine, every writeLoop, the
broadcast loops, and `h.mu`.

| In the model | In the code |
|---|---|
| `pc[c]`, `out[c]`, `todo[c]` | where client c's HandleWS stands, the message it queues, the clients its `range` has not come to |
| `readers`, `waiting` | Go's RWMutex: readers inside, and the one writer that has its turn; a waiting writer lets no reader in |
| `clients`, `vol`, `send`, `sendOpen` | `h.clients`, `h.clientVolume`, `client.send`, not closed |
| `cfg`, `due` | `rx.Config()` as a version number; the version the last command with `changed = true` set |
| `conn`, `writer`, `hand` | the connection, writeLoop, the message it writes |
| `seen`, `shown`, `missed`, `served`, `volSet` | history only: what the browser was told, a status dropped, first status queued, volume set |

`handleCmd` has three kinds of command: those that change the receiver and
announce it (`SetConfig`), `tune`, `center` and the meteor tracking ones that
announce nothing (`Tune`), and `volume`. `statusJSON` is two steps, configuration
and then volume, since other goroutines run between the two.

Safety: `NoSendOnClosed` and `NoUpdateMissed`. `VolumeShared`, which does not hold, has no
run of its own (section 12). Liveness: `CleanedUp`, `SlowClientStallsNobody`,
`CommandsComplete`, `WriterEnds`, and `WriteErrorCleansUp`, which does not hold.

`NoUpdateMissed` speaks of the latest version a browser was ever told, not of the one
it was told last: two handlers may queue their statuses in the other order.

## 5. Tuning

`Tuning.tla` models what StreamLifecycle leaves out: what the closures in `cmdCh`
do to the dongle. It joins `services.go`, `hf.go`, `protocol.go`, the listeners of `apt.go`,
`lrpt.go` and `meteor.go`, and the retuning parts of `receiver.go` and `hardware.go`.

| In the model | In the code |
|---|---|
| `config` | the fields of `r.config` named service, center, rate, listen frequency, direct sampling |
| `dongle`, `directMode` | what the hardware was last set to |
| `appliedDirectMode`, `sdr`, `enabled`, `running`, `cmdCh`, `streamMu` | the fields of these names |
| `live`, `block` | a processLoop takes blocks; the scan block it processes, with the bands `processProtocol` read at its start |
| `listening`, `fullScan`, `sweep`, `bandIdx`, `bandRecords` | `r.protoScan`; `bandIdx` counts from 1 |
| `active`, `satellite` | the listeners' `active` flags; `meteorListen`'s center and rate |
| `out`, `then`, `stage` | where a client's goroutine stands: a closure it is about to send, the second setter of its message, the lifecycle call it is in |
| `opening` | the copy of the configuration `openDevice` takes before anything else (`ReadConfig`); a scan's band is written into `config` after the handle is there (`BandWritten`) |
| `tunedBy`, `report`, `odd` | history: the service whose code tuned last, the latest full-scan report, what may have set hardware and configuration apart |

A setter is two steps: the part under `r.mu`, then the send. A closure is one step, on
the read goroutine or on the client's if no stream runs. A scan block is two: what it
reads at its start and what it does at its end; between them clients go on and
`prepareProtocolBands` may replace the plan. Frequencies are in kHz. A closure that
changes neither `config` nor the dongle (`postReopenReset(s, true)`) is left out.
USB transfers of a closure succeed here, opening the device may fail, with a scan's band written or not, and a
run's goroutines end before the stop's deadline.

`DongleFollowsConfig` says that a settled receiver is tuned to what `config` says. The
code does not promise this without exception, and the exceptions are named in `odd`:

| Kind | What happens |
|---|---|
| `overlap` | a setter while another client is between its own change of `config` and its send, or in a reopen: the closures may queue in the other order |
| `early` | a setter before a queued closure that takes the center back to the listen frequency, which overwrites what the setter wrote; or a setter beside the queue of a stopped stream: its closure runs at once, the older ones after it, when the stream is back |
| `foreign` | a listener's closure that runs under another service: none of them looks at the service, and `switchToProtocolService` does not end a listener |
| `scan`, `restart`, `astray` | a scan that is disturbed: by another setter of service or rate, by another scan asked for, by a start that left the dongle elsewhere (`ScanStartsOnItsBand`) |

The property is worth having for the rest: any number of switches, tunings across
24 MHz, off/on cycles and scans one after the other, by several clients, leave nothing
behind. `RecordsMeasureTheirBand` says that an undisturbed scan measures each band with the dongle on
it, and `ReportCoversSweep` that the report has each band once, in order; both hold
over stops, resumptions and reopens between two bands. `DigitalNeverDirect` is
the rule of `forceNormalTunerModeIfNeeded` and needs no exception. `OneStreamAtATime` says that the
reopens at 24 MHz, among switches, scans and setters, keep the promise of `OneStream` (section 3).
What the rest of Tuning needs of it: while a loop takes blocks the dongle is open and `running` is true, so
that a closure is queued for the loop and not run beside it.

## 6. Feed, WebRTC, AudioPath

`Feed.tla` models `flushAudio` (`pipeline.go`) and `pushDecode` (`services.go`): a select that
offers, one that takes the oldest frame out, one that offers again. Each is a step
(`putStage`), since the broadcast loop takes frames at any time. `LatestWins.tla` says what
is promised: a new frame always enters, and costs at most the oldest one. The refinement
maps a frame that is between the selects: until room is made it has not been put; then it
counts as queued already (`LW` in Feed). `PutKeepsNewest` is `LW!Spec`: checked by TLC and
proved. That the third select finds room (`RoomMade`) is why the code's silent `default`
never loses the new frame.

`WebRTC.tla` models `webrtc.go`:

| In the model | In the code |
|---|---|
| `offer[s]` | how far `HandleWebRTCOffer` has come for session s |
| `call[<<s, i>>]` | the calls of the state callback: the connection fails (1), it has been closed (2); the library runs each in its own goroutine, and `pc.Close` makes the second |
| `closed`, `track`, `mu`, `sessions` | the fields of `webrtcSession` and `webrtcSessions` |
| `mapLock`, `mapRead` | the writer and the one reader of `h.webrtcMu` |
| `dispatch`, `batch` | where `dispatchWebRTC` and the `writeMulaw` it calls stand, and the copied sessions still to be served |
| `early` | history: sessions closed before they were registered |

`AudioPath.tla` composes them: a frame taken from `audioCh` is dispatched to every session
before the next is taken. `OpenWhileWritten` says that no packet goes to a session that has
been closed, although `close` sets its track to nil; `ClosedLeavesMap` that a closed session is out
of the map once `close` is through; `CloseEnds` that `close`, which takes `webrtcMu` inside
the session's mutex, and dispatch never wait for each other; `AudioServed` that a frame
put is followed by the complete dispatch of it or of a newer one. `HoldersGoOn` is the safety half of
the last two: a mutex is held only by a goroutine inside the section that releases it (also on the
early returns of `close` and `writeMulaw`), and these sections wait in one direction only: whoever
holds `webrtcMu` waits for nothing, `writeMulaw` holds a session's mutex alone, and `close` waits for
`webrtcMu` inside it.

`spectrumCh` and `iqCh` have one select that drops the newest frame: there is no interleaving
in it, and no module.

## 7. Scan

`Scan.tla` models what Tuning leaves out of a full scan: `processProtocol` and what it calls,
with the samples.

| In the model | In the code |
|---|---|
| `FullSweepBands`, `SweepDecode`, `SweepTypes` | the plan of `fullscan_sweep.go`, derived from the ranges given as constants |
| `listening`, `bandIdx`, `elapsed`, `sinceEmit`, `accumFrames` | `protoScan`'s fields of these names and the times since `bandStart` and `lastEmit` |
| `accum` | how many of the averaged spectra are of each stop |
| `late` | the stops of the blocks captured before the retune that `blockCh` still holds, oldest first |
| `adsbTable`, `rows`, `bandRecords` | the aircraft table, `protoScan.tracker`, the records of the stops |
| `frames` | everything pushed to `decodeCh`, by number; `put`, `ch`, `taken` are Feed's |
| `Level`, `Candidates`, `Strongest` | `accum` and `DetectPeaks`: the mean in dB has a carrier at its share of the averaged blocks; those `PeakThreshold` over the floor are candidates, and the `MaxPeaks` strongest are taken |
| `Peaks`, `PickType`, `Classify`, `Found` | the rest of `detect.go` and `finishSpectrumBand`, abstracted to carriers and the types they match; a late block of another stop brings that stop's carriers, one from before the scan any |
| `report`, `heard`, `delays`, `outcome` | history: what the last frames reported, the aircraft heard, the late blocks each stop without a decoder began with |

One step is one block: `Dwell` if the stop goes on, `StopDone`, and `ScanDone` for the last,
which pushes the two frames of `completeFullScan`. Retuning succeeds here. A time unit is a
block's length, and a block takes one or two. A carrier is a place, a level in dB over the noise and the types its
width fits. Simplified: all noise has one floor, a carrier is at least `minPeakBins` wide and does not touch
another one, and the snapping of cellular and weather-satellite peaks to their channels, which may put two peaks
into one row, is left out.

`ScanCompletes` (liveness): a scan that runs is stopped, or its "done" frame reaches the hub,
however often it is begun anew. `DoneIsKept`: that frame is pushed once, through a channel
that drops the oldest, and is still never dropped. `ReportIsTrue`: the report agrees with
the rows clients have been shown, although it is put together from other records; it has
exactly the aircraft heard since the scan began, also those that have left the table since;
and every carrier whose type is to be shown and that is `Loud`. A carrier is not found as soon as one of its stop's
blocks is averaged: with L late blocks among the `MinFFT` averaged it stands (`MinFFT` - L) / `MinFFT` of its level over
the floor, which has to be `PeakThreshold` still, and no more than `MaxPeaks` carriers of the stop and of the late blocks
may stand as high. `Loud` says this from the carriers' levels and the blocks in flight when the stop began
(`delays`), without looking at the average.

## 8. Decoders

Five modules, each for one stage; `Decoders.tla` runs one of them in a behaviour, since the stages
hand values on and share nothing.

| Module | Code | State and steps | Property |
|---|---|---|---|
| `ModeS` | `adsb/demod.go` | `tail`, the block in processing, the loop's `index`. Blocks of any length arrive or are lost; the loop emits a frame or looks one sample further; `resetDecoders` | `FramesFoundOnce`: none missed at a cut, none emitted twice |
| `Aircraft` | `adsb/decode.go`, `cpr.go`, `tracker.go` | the aircraft flies, its transponder codes even and odd positions, barometric or GNSS height, and velocity with or without a vertical rate; `Update` and `Snapshot` | `TableTrue`: positions, height and velocity are what was told last |
| `AisChannel` | `ais/demod.go`, `hdlc.go`, `crc.go` | a ship's line with jitter, sample by sample: bit clock, NRZI, flags, destuffing, check sequence | `FramesDelivered`: every message, once, in order, after any noise |
| `Vessels` | `ais/payload.go`, `tracker.go` | reports of each type, cut short or with sentinels; merge; ageing | `KeepsKnown`: a report takes nothing away |
| `MuLaw` | `linearToMulaw`, `pcm48ToMulaw8k` of `server/webrtc.go` | 16-bit integers that wrap; a browser's G.711 decoder | `QuietPlaysTrue`: what a browser plays is the level that was sent |

In `ModeS` a sample is its number in the air, and a window is a frame if it has the
consecutive samples of a frame that was sent: this is what `preambleMatch`, `sliceFrame` and the
check sum decide, and they are floating point and a CRC over data. In `Aircraft` angles
are integers of which 360 degrees have a common multiple of 60, 59 and the fraction's 2^12,
so that `cprGlobal` and `cprLocal` are computed exactly; the zone table is the 58
latitudes of `cprNL` in that unit. A unit is 2.8 m. `StartsAssumption` has the flights: clear of the
poles, and at most 1900 units (5.2 km) while a pair is fresh, which makes a pair unambiguous; an absence is longer than
what the table keeps (`AircraftAssumption`). A frame without a fresh partner is resolved near the last position,
however old: within half a cell (330 km) of it the result is right, and beyond it is `lost` until the next pair.
`PositionTrue` leaves out lost positions and no others. `FieldsTrue` says what the table's fields are: the altitude is
the height told last, of type codes 9-18 (barometric) or 20-22 (GNSS), which `Decode` does not tell apart; the velocity
is the aircraft's, with a vertical rate of 0 if the last velocity message told none (section 12). In `AisChannel` the discriminator has given its sign.
An edge is early or late by less than half a symbol against any other, no message is too short to be
one, and what follows five ones in the noise is too short to be taken for one before the first true flag
(`ChannelAssumption`): a receiver that hears noise may hand up what the check sequence lets through by
chance, and no property of the deframer could deny it.

## 9. Runs, bounds and fairness

| Run | Question | Instance |
|---|---|---|
| `stream_safety` | are flags, device, stream and goroutines consistent in every interleaving, and is each step one of OneStream? | 2 clients, 2 lifecycle calls (3 runs), queues of 1 |
| `stream_live` | does everything that begins end? | 2 clients, 1 lifecycle call, then shutdown |
| `stream_single` | does one goroutine own the DSP state? No. | as `stream_safety` |
| `stream_stale` | are stale commands dropped? No. | as `stream_safety` |
| `hub_safety` | closed channels, missed changes | 2 clients, 1 feed, 2 commands or frames, buffer of 1 |
| `hub_live` | cleanup, slow clients, lock waits | 2 clients, one of which stays; 1 command or 2 frames |
| `hub_cleanup` | does a failed write always clean up? No. | 1 client, 2 frames |
| `tuning_safety` | does the dongle follow the configuration, the scan its plan, and each reopen OneStream? | 2 clients, 4 messages (3 where setters overlap), three services, one frequency on each side of 24 MHz, two bands in each plan |
| `audio` | does the newest frame reach every open session, and only those, and is every mutex given back? | 2 sessions, 2 frames, a channel of 1 |
| `scan` | is the report true, and is its end told? | 4 stops, 2 scans, 1 aircraft, 3 carriers, 2 late blocks, 1 peak to a stop, a channel of 1 |
| `decode` | does each digital stage keep what it is given? | where each stage has its edges |
| `tuning_scan` | does a scan begin on its first band? No. | 1 client, 4 messages, a center on the sweep's first band |

*Why these are enough.* The interference is pairwise: the run that ends with the
one that begins, a setter with a reopen, one broadcast with one cleanup. Two lifecycle calls
over the run that `Start` begins give stop-then-start by one client, start against start,
reopen against off, and an overdue run beside a later one. Capacities of one make
"full" and "empty" a step apart; the code's 32, 8 and 64 only lengthen the way
there. The theorems of section 10 hold for every number of clients, calls and slots.

In Tuning a stop, a restart and an off/on cycle during a scan take four messages, of
one client or of two; a plan of two bands has a first, a last and a hop, and the list
plan's second band has another rate. `MaxMsgs`, in the guard of `Message`, bounds the
closures queued as well. `OverlapBound` stops one message earlier where the setters of
two clients overlapped: `DongleFollowsConfig` and `RecordsMeasureTheirBand` exclude an
overlap, and the other properties are proved for any number of messages.

*Audio.* In a channel of one the broadcast loop can take the frame between any two selects; a
second frame is the first that can push one out. Each of the two sessions has both calls
of its callback, before, during and after its registration and a dispatch.

*Scan.* The four stops are of every kind: ADS-B with its longer dwell, AIS, a carrier whose type
depends on the order of `sweepTypes`, and a stop with two carriers, of which the limit of one peak takes the stronger. `AdsbDwell`, `Settle`, `MinFFT`
and `EmitMin` keep the order of the code's times (a scan emits between stops, and not after
each of its blocks) and are 2, 2, 2 and 6 for 1 s, 150 ms, 4 spectra and 200 ms. `InFlight` is the
blocks of earlier stops that may arrive after a retune: 2, as many as are averaged, so that an average has none, half or
only late blocks. The carriers are at 6, 8 and 10 dB against a threshold of 5: the strongest still stands out of a
half of its blocks, exactly at the threshold, the others do not. The second scan begins on what the first left behind.

*Decoders.* A frame of 3 samples in place of 240, and blocks of 1 to 5, put a cut at every place in
a frame, a frame in one, two or three blocks, and two frames in one block. Five ticks are longer
than both ages of `Aircraft`; four longer than that of `Vessels`. CPR has 12 fraction bits in place
of 17: the zones and their edges are those of the code. A message of at most 80 bits is against the
code's 2048: two bytes and the check sequence are the shortest body, the longest one here is over
`MaxFrameBits`, and two are at the limit and one bit above it: `pushLogical` looks for the flag before it
looks at the length, so a frame is whole as long as seven bits of its closing flag have room (`Delivered`). Levels are at the ends of the segments of mu-law.

Named bounds: `MaxOps` in the guard of `BeginLifecycle`; `MaxCmds` and `MaxFrames` in
Hub; `MaxFrames` in Feed; `MaxScans` and `InFlight` in Scan; `MaxAir`, `MaxBlock`, `MaxTick`,
`AwayTicks`, `MaxSilence` and the messages of `Transmissions` in the decoders; `SafetyBound`, `LiveBound` and `ShutdownBound` in the MC modules (at most two
runs started, one blocked setter, shutdown explored against setters only). They are
constraints: states beyond them are checked and not extended. The liveness
bounds cut off only actions that carry no fairness and that nobody has to
take. `ControlState` is the VIEW of the safety runs: it leaves out what no guard and no property
of that run reads; `Live` does the same for Tuning, where it keeps of the report only
what `ReportCoversSweep` says of it. Clients are symmetric in the safety runs. Deadlock is not checked:
main may end the process, all clients may leave, a browser may stay silent, and the air may
be at its end.

*Fairness of StreamLifecycle.* drainPipe, processLoop and main are goroutines that
never wait for ever on their own account: weak fairness. An open stream delivers: strong
fairness of `DrainRead`. A client that waits for `streamMu` or for room in
`cmdCh` is queued by the runtime and cannot be overtaken for ever (Go's starvation
mode, the FIFO of channel senders): strong fairness of `ClientGoesOn`, which leaves out
beginning a new call. `drainPendingCmds` drops without waiting, and a blocked
sender refills the queue only once per message of its browser, so it finds the queue
empty at last.

*Fairness of Hub.* Strong fairness of a handler's and a feed's own steps (their turn
at `h.mu`), weak fairness of writeLoop as far as it does not depend on the browser. Nothing
is assumed of a browser: it may never read and never send. A write to a live connection
may take for ever or fail after its ten seconds.

*Fairness of AudioPath.* The selects of the read goroutine, the broadcast loop, a registration and the
callback's calls go on: weak fairness. Few wait for a mutex, and each once, so that weak fairness of
the whole call is enough. Nothing is assumed to make a frame, an offer or a lost connection.

*Fairness of Scan.* The read goroutine goes on while the stream delivers (`StreamDelivers` of
StreamLifecycle) and the hub takes frames: weak fairness of `ReadLoop` and `Receive`. Clients
need not do anything.

The other runs state no fairness: they check safety and action properties only.

Every property of a passing run has a mutant (`PROJECT.json`): a plausible
bug in one definition, kept in the module beside the original, that makes TLC
report the property violated.

## 10. Proofs

Eight modules of theorems, `*Proofs.tla`, checked by tlapm. They assume only the ASSUMEs of
the modules: clients, main and the idle mark are different things, so are aircraft and signals
(`NamesAssumption`), closures and none (`MarksAssumption`); bounds are naturals, capacities positive;
flights are as section 8 says; LatestWins, which no run extends, has its assumption in
the theorems, and OneStream needs none. The sets may be infinite.

**StreamLifecycle.** None of the properties is inductive alone: that the device is open
while a run is live depends on who holds `streamMu` and how far it has come.
`IInv` adds what is needed, in named parts:

- `StageInv`: the stages under `streamMu` are reached only by its holder; main is idle
  before shutdown;
- `FreshInv`: overlapping calls have different numbers, and a run's slot is unused
  until its call starts it;
- `RunInv`: a cancelled run's `gen` is behind `runGen` for good, hence a drainPipe
  that leaves never decides to clear `running`;
- `DeviceInv`: if `runCancel` is set, `running`, `sdr`, `rx` and the live run agree;
  and what is true of them at each stage of a stop or a start.

The last two hold until shutdown only: `Close` takes no lock. Type
correctness is proved first (`TypeNext`, one lemma per group of actions), then each part is
shown to be preserved by every action (`StageNext`, `FreshNext`, `RunNext`,
`DeviceNext`), and the theorem `Invariant` combines them. `OneLiveRun`,
`DeviceStaysOpen`, `StoppedIsCancelled`, `RunningIsStreaming`, `DisabledIsOff` and
`StopWaitsForDeadline` follow from it. `OverlapIsOverdue` needs one part more, `AroundInv`: of the
runs that no stop waited for in vain at most one still has goroutines, it is live or a stop is
waiting for it, and its stream and its device are the receiver's. The theorem assumes `TrackHistory`,
under which the model records those runs.

`LifecycleKeepsPromise` is the refinement `Spec => OS!Spec`. Under `IInv` every step is classified by
who takes it and at which stage (`StreamRefines`): a step of a caller under `streamMu` is `OS!Act`
with the one of its five alternatives that the stage stands for (`HolderActs`), `LockStream` is
`OS!Take`, main's signal is `OS!Shutdown`, and everything of the goroutines, the setters and `cmdCh`
changes nothing that OneStream sees (`UnseenStep`). The two places with content are the compare-and-swap,
which needs `DeviceInv` to know that no run is live, and the end of a turn, where the flag has to
be right (`TruthfulWhenFree`). `parentDone` never goes back (`ParentStaysDone`), so that after
shutdown all steps are `OS!Ending`. `LifecycleIsSound` draws the conclusion: `SoundStream` is inductive
for OneStream's own steps (`PromiseStep`), hence holds of the detailed states, without another look
at the goroutines.

**Hub.** `LoopInv` says that whoever goes through `h.clients` holds the read lock, that all
clients still to come are registered, and that a registered client's HandleWS has
not come to `close`. It is inductive, because `Unregister` needs `readers = {}`.
`NoPanicOnSend` concludes that no send meets a closed channel. `EveryChangeTold` is
`NoUpdateMissed`: `UpdateInv` says of a client that reads and missed nothing where the latest
announced change is on its way to it: told, in the writer's hand, in its channel, in the first status it
waits for, or with a HandleWS that still has it to broadcast (`Coming`). A command is announced by
a client that was served (`ServedInv`), and one that registers meanwhile reads the configuration afterwards.

**Tuning.** `IInv` has three parts besides the report. `ModeInv`: `appliedDirectMode` is
the mode the open device is in; `openDevice` and every closure that sets one sets the
other, and `forceNormalTunerModeIfNeeded` decides by it (`ExecuteMode` has one step per
closure). `LoopInv`: only the holder of `streamMu` stops and starts the loop, so a closure
that runs inline finds no block in processing. `OrderInv`: a full scan that nobody restarted has
recorded the bands before the one it is on, and the block it processes is of that band;
without `LoopInv` a new scan could begin under an old block. Type correctness comes
first here too, and `ReportIsComplete` follows for every plan of bands, which TLC cannot
check: the code's sweep has more than eight hundred. `NormalModeForDigital` needs
`ModeInv` alone.

`TuningKeepsPromise` is the same refinement for Tuning. What it needs besides `LoopInv` is `TurnInv`
(theorem `TurnInvariant`, checked by TLC before): a client is in a stage of a lifecycle call only while it
holds `streamMu`, and at each stage device, loop and flag are what the calls before it in that turn
have made them; with nobody's turn `running` says whether the loop is live, and it is live only if the
receiver is enabled. `TuningIsSound` is `SoundStream` again.

**The dongle** (`TuningProofs`, second half). `DongleFollowsConfig` and `RecordsMeasureTheirBand` relate the
dongle to every closure that has not run: queued in `cmdCh`, or about to be sent (`Pending`). As long as
the setters do not overlap, one client at a time is between its change of `config` and its send (`OneInv`). Then
nothing that changes the configuration follows a closure that takes the center home (`HomingLast`);
the last closure that switches the service, sets a center or a rate sets what `config` has
(`SwitchLast`, `LatestInv`); no setter's closure overtakes the queue (`NoneOvertaken`); and a scan's block that is
still in processing when the service changes is followed by the new service's closure (`ScanLeft`). With these,
`Tuned`: the dongle is where `config` says, or a pending closure takes it there. `SettledFollows`
is the case of no pending closure. `ScanQuiet` and `ScanTuned` say of a scan that nothing else is pending
and that dongle and `config` are on its band, hence `RecordsInPlace`. Each part is claimed only while the
history `odd` lacks the kinds that break it (section 5), no more than the property itself
excludes.

**LatestWins.** `Inv` says that the frames in the channel are newer than the one taken last, in order,
and that the last one is the newest put. `FramesStayOrdered` and `NewestNeverLost` are what the
abstract channel gives.

**AudioPath.** `ChannelKeepsNewest` is the refinement: under `FeedInv` every step of Feed is a
step of `LW!Next` or stutters. The case that matters is the third select, which finds room because only
the read goroutine puts (`RoomMade`). `RtcInv` says who holds each mutex at each stage: a
session that is being written to is locked by the dispatch and not closed, hence `WritesToOpen`; a session
that is closed and still in the map has its close before the removal, unless it was closed
before it was registered (`early`), hence `ClosedIsRemoved`. `LocksAreReleased` needs both directions of
who holds what: whoever is inside a section holds its mutex (`HoldInv`, `MapInv`, and the reader's
side `ReadInv`), and a mutex that is held has its holder inside (`HeldMap`, `SessionsHeld`); `LockInv` has
the four, inductive together with `RtcInv`.

**Scan.** `DecodeChannelKeepsNewest`: `decodeCh` implements LatestWins like `audioCh`, here with the takes
between the selects of a scan's frames. `LastFrameKept`: the frames pushed are those of `frames`, in order, the channel ends
with the newest, and nothing is pushed after the "done" frame (`ScanInv`). `ReportTrue`: in `HeardInv`
the aircraft heard are in the rows or in the table, and rows and records, which the code fills separately, have the
same signals after every stop. `CarrierInv` is about late blocks (`MixedIs`): of the
blocks averaged all but as many as were on their way at the retune are the stop's own, and the others are among those.
`MoreBlocks` is the arithmetic: a carrier that stands out of `MinFFT` blocks with all the late ones among them
stands out of any larger average. `PeakTaken` compares it with the other candidates: each that is as strong is one of
its `Rivals`, so that the limit cannot leave it out (`Rank`). No bound on `InFlight` is assumed.

**Decoders.** `FoundOnce`, for every length of frame, block and air: `Holds` says which samples
tail or block has, `Past` that no emitted frame is still ahead, and `FoundInv` that a frame heard whole
is emitted or ahead of the loop. `EndBlock`, which keeps the last samples of a block, is where they
meet. `NothingForgotten` shows `KeepsKnown` of the merge for any set of values. `VoicePlaysTrue` goes
through the segments: the exponent found is the power of two below the biased level, and what the mantissa drops is
less than the segment's step.

`TableIsTrue` is arithmetic of quotients first. A frame is sent at a step of its grid within half a
step of the aircraft (`SentIs`). The two frames of a fresh pair are less than half a step of the two grids against each
other apart, so that the difference of their fractions is the exact zone index, in latitude (`LatGlobal`)
and, if both are in the same zone, in longitude (`LonIndex`, `LonDecoded`). Near the last position, less than half a cell
away, the nearest multiple of the cell is the right one (`NearestIs`, `LocalIs`). The inductive invariant is
`AirInv`: the flight stays clear of the poles (`Sky`); both stored frames are as sent at their tick (`FramesAre`); the
position is that of the last position message unless it is lost (`Placed`); height and velocity are what their messages
told (`Valued`). An absence is longer than the age of a pair, so that no pair spans one.

**AIS** (`AisProofs`). `FramesHandedUp` needs induction over the messages, for the sender, the
destuffing and the check sequence are folds. The library states induction for an operator, which the provers cannot
instantiate; `Induct` gets it for a set of numbers from the minimum of its complement (`WFMin`), and
`FoldAppend` and `SeqInduct` carry it to folds and sequences. Then four steps. Stuffed bits
are destuffed and have no six ones in a row (`StuffIs`), so that no flag lies within a message or
across the border of one (`NoFalseFlag`). The deframer, bit by bit: before the end of the first flag what it collects
began at five ones and a zero of the noise and is too short to be handed up (`BeforeFirst`, where
`ChannelAssumption` is used); after it, it holds the bits behind the last flag, unless they are too
many (`Between`). The bit clock, sample by sample: an edge sets it, and until the next one
each symbol gives one bit, since an edge is off by less than half a symbol (`Locked`). Before the first
edge it runs free and gives ones, no more than symbols pass (`Free`); after a reset it has heard nothing
(`Deaf`). Of the check sequence only its length matters, since sender and receiver compute the same:
that it tells a damaged message from a whole one is not claimed.

Only model-checked: `DrainNeverStalls` (ENABLED) and all liveness: the prover does not handle
ENABLED and fairness.

## 11. What the code does that its comments deny

Four runs are expected to find a violation.

- `stream_single`: "All hardware control and all DSP-state mutation happen on the single
  Start() goroutine" (`receiver.go:103-104`). `enqueue` runs the command on the caller's goroutine
  while `running` is false: two tabs that change settings of a receiver that is
  off race in `resetDSP`.
- `stream_stale`: `drainPendingCmds` is there "so stale tune/service commands
  cannot run against a reopened device" (`receiver.go:328-329`). A setter reads `running`, the
  reopen empties the queue, the setter sends: its command runs on the new handle.
- `hub_cleanup`: closing the connection is to "unblock the reader; HandleWS
  cleans up" (`server.go:44`). A client is registered before its first status
  is queued with a blocking send. If broadcasts fill its buffer and its write fails,
  HandleWS waits on a channel nobody takes from.
- `tuning_scan`: "Hardware was tuned on reopen; only retune if config/hardware
  diverged" (`protocol.go:206`). Nothing is reopened any more: `applyServiceHardware`
  has just tuned to the list scan's first band, 28.3 MHz, without writing it to the
  configuration. If the radio was centred on 28.0 MHz at 2.048 MHz, the
  sweep's first band, nothing is retuned and 28.3 MHz is measured in its place.

## 12. What else the models show

Not contradicted by a comment, or found beside a run; TLC or the model's definitions show each.

- A volume of 0 is told as 80 (`server.go:54`): `VolumeShared` of Hub is violated with
  volumes 0 and 30.
- A reopen on the `meteor` service tunes to 137.9 MHz whatever satellite was chosen (`effectiveTuning`,
  `services.go`): `ReopenTunesSatellite` of Tuning is violated with GK-2A, at 1691 MHz.
- A session whose connection fails before it is registered stays in `webrtcSessions` for ever
  (`webrtc.go:111`): `early` in WebRTC. It is dispatched to, and skipped, with every frame.
- A stop of a full scan is measured with blocks of the stop before (`protocol.go:345-354`): `accumFrames` counts blocks
  that were captured before the retune, and `blockCh` holds eight of them while four spectra are enough. With one late
  block of four a carrier below 7 dB is lost, with three one below 20 dB; with four or more every carrier may be, and
  those found are of the stop before. `Loud` excludes these from `ReportIsTrue`; a stop that is crowded beyond
  `maxPeaks` loses carriers as well.
- The type of a carrier that fits two of a stop's types is chosen by the order in which `sweepTypes` ranges over
  a map (`fullscan_sweep.go:79`): two scans of the same air may differ.
- AIS is never decoded in a full scan: the channels are mixed 25 kHz beside 162.0 MHz
  (`services.go:58`), where no stop is centred. ADS-B is decoded at the sweep's 2.048 MS/s by a demodulator
  made for 2.0 MS/s. Morse analysis is for list scans only.
- `Tracker.Upsert` keeps a decoded row's first data: later decodes change its strength and image
  (`protocol/tracker.go:50`).
- A velocity message that tells no vertical rate (field 0) overwrites a known rate with 0 (`adsb/decode.go:136-147`,
  `adsb/tracker.go:90-94`): `HasVelocity` stands for all three values.
- The GNSS height of type codes 20-22 is decoded and shown as if it were the barometric altitude of 9-18
  (`adsb/decode.go:59-60`): the altitude of an aircraft that sends both jumps by the difference.
- An aircraft that has no fresh pair resolves its next position against the last one, however old
  (`adsb/tracker.go:117`). Messages without a position keep it in the table, and the table drops an aircraft only when it is
  looked at: beyond half a cell the next position is wrong, until a pair comes (`lost` of Aircraft).
- `linearToMulaw` clips at 13 bits and adds the bias in 16: levels above 8059 play as 8059, and those
  from 32636 up wrap (`webrtc.go:221`). `QuietPlaysTrue` is about the others.
- The name in a type 19 report is read six bits before it begins (`ais/payload.go:98`).

## 13. Not modelled

- *Frontend.* Vue components whose state is timers, sockets and audio buffers of one page. The
  server's side of every message is modelled, for any order in which pages send them.
- *DSP, classification, demodulators.* Floating point: filters, FFT, the shape of peaks, the tests of `detect.go` and
  the demodulators of `internal/protocol` and `meteor_demod.go`. Scan has the average,
  the threshold and the limit of the peaks, and what classification may answer; the decoders begin where bits or windows exist.
- *Catalogue and TLE.* An HTTP fetch behind a six-hour cache: two requests may fetch at once, the later
  answer stays.
- *librtlsdr, network, the WebRTC library.* In the models calls that may succeed or fail, and
  callbacks in any order.
- *List scan.* The dwell buffer and Morse analysis; blocks below 4096 samples. *Recordings and images.*
  Data that nothing here depends on.
- *Code without a caller.* `reopenLoop`'s queue is never filled, and `nmea.go` and `SummarizeFullScan` are
  used by tests only.

Within what is modelled: Tuning takes USB transfers for granted and has no goroutine that outlives its deadline;
StreamLifecycle has both and knows no tuning. They are not composed into one module: what each relies on
in the other is OneStream, which both implement. The frequency
of `dongle` on `meteor` is compared with the configuration only at a reopen.

Data races as such are not modelled: a word is read and written in one step, and
`SingleDspGoroutine` speaks of goroutines that are in the critical code together.
Shutdown is explored against setters only: Close and a lifecycle call that overlap
may close the handle twice while the process ends, and no property says that they do not. What
`ShutdownCompletes` shows is that Close ends beside setters and a full queue.
