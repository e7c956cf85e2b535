-------------------------------- MODULE Scan --------------------------------
(***************************************************************************)
(* A full scan (internal/receiver/protocol.go): what the blocks of each    *)
(* stop of the plan become in bandRecords, the tracker and the report, and *)
(* how the report reaches the hub through decodeCh (Feed).  Tuning has the *)
(* clients, the hardware and the list scan; here retuning succeeds, and    *)
(* some blocks after it were captured before it.  A time unit is a block's *)
(* length; counters stop at the bound they are compared with.              *)
(***************************************************************************)
EXTENDS Feed, FiniteSets

CONSTANTS FullScanStart, FullScanStep, FullScanMax,   \* centers of the sweep
          AdsbRange, AisRange,      \* <<lo, hi>> in which a stop decodes
          TypeRanges,               \* [type, range] of sweepTypes
          NeedDecode,               \* types of FullScanRequiresDecode
          AdsbDwell, AisDwell,      \* fullScanADSDwell, fullScanAISDwell
          Settle,                   \* FullScanTuneSettle
          MinFFT,                   \* FullScanMinFFTFrames
          EmitMin,                  \* fullScanEmitMin
          PeakThreshold, MaxPeaks,  \* peakThresholdDB, maxPeaks
          Carriers,                 \* on the air: [at, db, fits], db above the noise floor,
                                    \* fits being the types its width and frequency
                                    \* match in pickType
          Planes,                   \* aircraft on the air
          InFlight,   \* blocks captured before a retune and processed after it: blockCh
          MaxScans    \* bound: scans begun

ASSUME ScanAssumption ==
    /\ FullScanStart \in Nat /\ FullScanStep \in Nat \ {0} /\ FullScanMax \in Nat
    /\ FullScanStart <= FullScanMax
    /\ \A n \in {AdsbDwell, AisDwell, Settle, EmitMin, MaxPeaks, InFlight, MaxScans} : n \in Nat
    /\ MinFFT \in Nat \ {0} /\ PeakThreshold \in Nat \ {0}
    /\ IsFiniteSet(Carriers) /\ \A c \in Carriers : c.db \in Nat

VARIABLES listening,    \* protoScan.listening, of a full scan
          bandIdx,      \* from 1
          elapsed,      \* since bandStart
          sinceEmit,    \* since lastEmit
          accumFrames,  \* averaged in accum
          accum,        \* how many of them are of each stop
          late,         \* stops of the blocks captured before the retune, to come
          adsbTable,    \* r.adsbTracker
          rows,         \* protoScan.tracker
          bandRecords,  \* the signals of each stop done
          frames,       \* the phases of the frames pushed, by number
          scans,        \* scans begun
          outcome,      \* history: "none", "running", "stopped", "done"
          report,       \* history: the signals of the scan's last frames
          heard,        \* history: aircraft heard since the scan began
          delays        \* history: late, as each stop without a decoder began

scanVars == <<listening, bandIdx, elapsed, sinceEmit, accumFrames, accum, late,
              adsbTable, rows, bandRecords, frames, scans, outcome, report, heard, delays>>
vars == <<feedVars, scanVars>>

UpTo(n, bound) == IF n > bound THEN bound ELSE n

-----------------------------------------------------------------------------
(* The plan. *)

Half == FullScanStep \div 2
Overlaps(lo, hi, range) == hi >= range[1] /\ lo <= range[2]

SweepDecode(lo, hi) ==
    IF Overlaps(lo, hi, AdsbRange) THEN "adsb" ELSE IF Overlaps(lo, hi, AisRange) THEN "ais" ELSE ""

SweepTypes(lo, hi) ==
    LET seen == {r.type : r \in {t \in TypeRanges : Overlaps(lo, hi, t.range)}}
    IN IF seen = {} THEN {"ism"} ELSE seen

StopAt(center) == [center |-> center,
                   decode |-> SweepDecode(center - Half, center + Half),
                   types  |-> SweepTypes(center - Half, center + Half)]
FullSweepBands ==
    [i \in 1 .. 1 + (FullScanMax - FullScanStart) \div FullScanStep |->
        StopAt(FullScanStart + (i - 1) * FullScanStep)]

band == FullSweepBands[bandIdx]
dwell == IF band.decode = "adsb" THEN AdsbDwell ELSE AisDwell

\* The read goroutine has left pushDecode.
Pushed == putStage = "idle" /\ put = Len(frames)

-----------------------------------------------------------------------------
(* What a block adds. *)

\* The stop a block was captured at; before the first, somewhere else: 0.
Captured == IF late = <<>> THEN bandIdx ELSE Head(late)
StillLate == IF late = <<>> THEN late ELSE Tail(late)

\* The carriers of a stop; the elsewhere may have had any.
OnAir(stop) ==
    IF stop = 0 THEN Carriers
    ELSE {c \in Carriers : Overlaps(c.at, c.at, <<FullSweepBands[stop].center - Half,
                                                  FullSweepBands[stop].center + Half>>)}

\* feedADSB: aircraft are heard at a stop with the decoder on.
Heard(planes) ==
    /\ planes # {} => band.decode = "adsb" /\ Captured > 0 /\ FullSweepBands[Captured].decode = "adsb"
    /\ heard' = heard \cup planes

FFTs == IF band.decode = "" THEN accumFrames + 1 ELSE accumFrames
Averaged == IF band.decode = "" THEN [accum EXCEPT ![Captured] = @ + 1] ELSE accum
NoSpectra == [stop \in 0 .. Len(FullSweepBands) |-> 0]

\* protocolChunkReady
ChunkReady(now, ffts) ==
    IF band.decode # "" THEN now >= dwell ELSE now >= Settle /\ ffts >= MinFFT

\* syncDecodedToProtocol: what the aircraft table still has goes to the
\* tracker.  The aircraft of a stop may be gone from it three minutes later.
Fresh(planes) ==
    IF band.decode = "adsb" THEN {adsbTable \cup planes} ELSE SUBSET adsbTable

-----------------------------------------------------------------------------
(* The end of a stop. *)

\* DetectPeaks.  The mean of the spectra, in dB, has a carrier of a stop as high over
\* the floor as its blocks are many.  What stands out of it is a peak, and the
\* strongest are taken.  (Two carriers do not touch, and the floor is the noise's.)
Level(mean, p) == mean[p[1]] * p[2].db
Candidates(mean) ==
    UNION {{p \in {<<s, c>> : c \in OnAir(s)} : Level(mean, p) >= PeakThreshold * FFTs} :
           s \in {i \in DOMAIN mean : mean[i] > 0}}
Strongest(mean, all) ==
    {F \in SUBSET all : /\ Cardinality(F) <= MaxPeaks
                        /\ F = all \/ Cardinality(F) = MaxPeaks
                        /\ \A p \in F, q \in all \ F : Level(mean, q) <= Level(mean, p)}

\* Of the carriers elsewhere there may have been any.
Peaks(mean) ==
    LET elsewhere == {p \in Candidates(mean) : p[1] = 0}
    IN UNION {Strongest(mean, Candidates(mean) \ gone) : gone \in SUBSET elsewhere}

\* pickType goes through the stop's types in the order of a map's keys, which is
\* not determined, and takes the first that matches, else the first.
PickType(stop, peak) ==
    LET types == FullSweepBands[stop].types
        match == IF peak[1] = stop THEN types \cap peak[2].fits ELSE types
    IN IF match = {} THEN types ELSE match

Classify(stop, peak, type) == [stop |-> stop, peak |-> peak, type |-> type]

\* Aircraft and signals have different names.
ASSUME NamesAssumption ==
    \A stop \in DOMAIN FullSweepBands, from \in 0 .. Len(FullSweepBands), c \in Carriers :
        \A type \in FullSweepBands[stop].types : Classify(stop, <<from, c>>, type) \notin Planes

\* finishSpectrumBand: the signals it may find, FullScanKeepSignal of them.
Found(mean) ==
    UNION {{{Classify(bandIdx, p, type[p]) : p \in {q \in F : type[q] \notin NeedDecode}} :
               type \in {t \in [F -> band.types] : \A p \in F : t[p] \in PickType(bandIdx, p)}} :
           F \in Peaks(mean)}

\* SignalsForBand, of a stop that decodes; no vessel is ever heard, since the
\* channels are not where feedAIS mixes them from (README).
SignalsForBand(all) == IF band.decode = "adsb" THEN all \cap Planes ELSE {}

\* The signals of the stop.
Chunk(found, table) ==
    IF band.decode = "" THEN found ELSE SignalsForBand(rows \cup table)

\* Tracker.Upsert, by the signals' names; what it keeps of two is data.
Upserted(signals) == rows \cup signals

\* AggregateSignalsFromRecords
Report(records) == UNION {records[i] : i \in DOMAIN records}

LastFramesSwapped == <<"done", "analyzing">>
LastFrames == <<"analyzing", "done">>

\* maybeEmitProtocol: at most one frame in an interval.
MaybeEmit(since, table, more) ==
    IF since >= EmitMin
    THEN /\ frames' = Append(frames, "scanning") /\ sinceEmit' = 0
         /\ rows' = more \cup table
    ELSE UNCHANGED frames /\ sinceEmit' = since /\ rows' = more

\* Of the blocks in flight, those that are averaged with the stop's.
Mixed(stop, blocks) == IF FullSweepBands[stop].decode = "" THEN blocks ELSE <<>>

-----------------------------------------------------------------------------
(* The actions of the read goroutine. *)

\* beginProtocolScan, the closure of a start; a scan that runs begins anew.
Begin ==
    /\ Pushed /\ scans < MaxScans
    /\ scans' = scans + 1 /\ listening' = TRUE /\ outcome' = "running"
    /\ bandIdx' = 1 /\ elapsed' = 0 /\ sinceEmit' = EmitMin
    /\ accumFrames' = 0 /\ accum' = NoSpectra
    /\ \E n \in 0 .. InFlight : late' = [k \in 1 .. n |-> 0]
    /\ delays' = <<Mixed(1, late')>>
    /\ adsbTable' = {} /\ rows' = {} /\ bandRecords' = <<>> /\ heard' = {} /\ report' = {}
    /\ UNCHANGED <<frames, feedVars>>

\* The closure of SetProtocolFullScan(false).
Stop ==
    /\ Pushed /\ listening
    /\ listening' = FALSE /\ outcome' = "stopped"
    /\ UNCHANGED <<feedVars, bandIdx, elapsed, sinceEmit, accumFrames, accum, late,
                   adsbTable, rows, bandRecords, frames, scans, report, heard, delays>>

\* processProtocol with a block after which the stop goes on.
Dwell ==
    \E dt \in {1, 2}, planes \in SUBSET Planes :
        LET now == UpTo(elapsed + dt, IF band.decode = "" THEN Settle ELSE dwell)
        IN /\ listening /\ Pushed /\ ~ChunkReady(now, FFTs)
           /\ Heard(planes)
           /\ elapsed' = now /\ accumFrames' = FFTs /\ accum' = Averaged
           /\ late' = StillLate
           /\ \E table \in Fresh(planes) :
                 /\ adsbTable' = table
                 /\ MaybeEmit(UpTo(sinceEmit + dt, EmitMin), table, rows)
           /\ UNCHANGED <<listening, bandIdx, bandRecords, scans, outcome, report, delays, feedVars>>

\* advanceProtocolBand resets the average and retunes.
OldAverage == FFTs
NewAverage == 0

\* blockCh at the retune: what was late is first, and blocks of this stop.
InFlightNow ==
    {StillLate \o [k \in 1 .. n |-> bandIdx] : n \in 0 .. InFlight - Len(StillLate)}

LastStop == bandIdx + 1 > Len(FullSweepBands)

\* The block that completes a stop but the last.
StopDone ==
    \E dt \in {1, 2}, planes \in SUBSET Planes :
        /\ listening /\ Pushed /\ ChunkReady(elapsed + dt, FFTs) /\ ~LastStop
        /\ Heard(planes)
        /\ \E found \in Found(Averaged), table \in Fresh(planes) :
              LET chunk == Chunk(found, table)
              IN /\ adsbTable' = table
                 /\ bandRecords' = Append(bandRecords, chunk)
                 /\ MaybeEmit(UpTo(sinceEmit + dt, EmitMin), table, Upserted(chunk))
        /\ bandIdx' = (bandIdx % Len(FullSweepBands)) + 1
        /\ accumFrames' = NewAverage /\ accum' = NoSpectra /\ elapsed' = 0
        /\ late' \in InFlightNow /\ delays' = Append(delays, Mixed(bandIdx + 1, late'))
        /\ UNCHANGED <<listening, scans, outcome, report, feedVars>>

\* The block that completes the last: completeFullScan pushes two frames.
ScanDone ==
    \E dt \in {1, 2}, planes \in SUBSET Planes :
        /\ listening /\ Pushed /\ ChunkReady(elapsed + dt, FFTs) /\ LastStop
        /\ Heard(planes)
        /\ \E found \in Found(Averaged), table \in Fresh(planes) :
              LET chunk == Chunk(found, table)
              IN /\ adsbTable' = table /\ rows' = Upserted(chunk)
                 /\ bandRecords' = Append(bandRecords, chunk)
        /\ report' = Report(bandRecords') /\ frames' = frames \o LastFrames
        /\ listening' = FALSE /\ outcome' = "done"
        /\ UNCHANGED <<bandIdx, elapsed, sinceEmit, accumFrames, accum, late, scans, delays, feedVars>>

\* The selects of pushDecode, for the frames due.
Push == ((put < Len(frames) /\ Offer) \/ MakeRoom \/ Retry) /\ UNCHANGED scanVars

\* runDecodeBroadcast
Receive == Take /\ UNCHANGED scanVars

Init ==
    /\ FeedInit /\ frames = <<>> /\ scans = 0
    /\ listening = FALSE /\ outcome = "none" /\ bandIdx = 1 /\ elapsed = 0 /\ sinceEmit = EmitMin
    /\ accumFrames = 0 /\ accum = NoSpectra /\ late = <<>> /\ delays = <<>>
    /\ adsbTable \in SUBSET Planes /\ rows = {} /\ bandRecords = <<>> /\ heard = {} /\ report = {}

ReadLoop == Dwell \/ StopDone \/ ScanDone \/ Push
Next == Begin \/ Stop \/ ReadLoop \/ Receive

\* Blocks come as long as the stream is open, and the broadcast loop runs.
FairSpec == Init /\ [][Next]_vars /\ WF_vars(ReadLoop) /\ WF_vars(Receive)

-----------------------------------------------------------------------------
\* Everyone is told the end: a scan that runs, however often it is begun anew,
\* is stopped, or its last frame reaches the hub.
ScanCompletes ==
    outcome = "running" ~>
        \/ outcome = "stopped"
        \/ outcome = "done" /\ taken = Len(frames) /\ frames[taken] = "done"

\* The frame that says so is pushed once and never repeated, yet no other frame
\* takes its place in the channel: after it nothing is pushed.
DoneIsKept ==
    outcome = "done" /\ Pushed =>
        /\ frames[put] = "done"
        /\ IF ch = <<>> THEN taken = put ELSE ch[Len(ch)] = put

\* A carrier of stop i that is loud enough for the blocks it is diluted with: if all
\* that were in flight at the retune are among the MinFFT averaged, it still stands
\* out, and no more than MaxPeaks stand out as much.
Rivals(i, c, mixed) ==
    {p \in (0 .. Len(FullSweepBands)) \X Carriers :
        /\ p[2] \in OnAir(p[1])
        /\ \/ p[1] = i /\ p[2].db >= c.db
           \/ /\ \E k \in 1 .. Len(mixed) : mixed[k] = p[1]
              /\ Len(mixed) * p[2].db >= (MinFFT - Len(mixed)) * c.db}
Loud(i, c, mixed) ==
    /\ (MinFFT - Len(mixed)) * c.db >= PeakThreshold * MinFFT
    /\ Cardinality(Rivals(i, c, mixed)) <= MaxPeaks

\* The report is what the clients have been shown, although it is put together
\* from other records.  It has the aircraft heard since the scan began, those
\* gone since as well, and none heard before; and every carrier in the sweep of
\* a type that is to be shown, that was loud enough for the blocks captured
\* before its stop that were averaged with its own.
ReportIsTrue ==
    outcome = "done" =>
        /\ report = rows
        /\ report \cap Planes = heard
        /\ \A i \in 1 .. Len(FullSweepBands) : FullSweepBands[i].decode = "" =>
               \A c \in OnAir(i) : Loud(i, c, delays[i]) /\ PickType(i, <<i, c>>) \cap NeedDecode = {} =>
                   \E t \in PickType(i, <<i, c>>) : Classify(i, <<i, c>>, t) \in report
=============================================================================
